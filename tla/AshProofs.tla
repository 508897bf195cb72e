----------------------------- MODULE AshProofs ------------------------------
(***************************************************************************)
(* Proofs about the table of blocked processes, for any number of          *)
(* processes, addresses, descriptors and buckets and for any hash: what    *)
(* keeps it consistent, and that it implements the queues its callers      *)
(* think of.                                                               *)
(*                                                                         *)
(* The inductive invariant is IInv: the shape of the state with the three  *)
(* conjuncts of TableInv, which need each other.  That a search finds the  *)
(* descriptor of an address rests on KeysHashed; that deleting a waiter    *)
(* leaves the other queues alone, on WaitersLinked; that a descriptor put  *)
(* on the free list was on no other, on DescriptorsConserved.              *)
(***************************************************************************)
EXTENDS Ash, ListProofs

IInv == TypeOK /\ TableInv

(* The search by address finds the one descriptor in use for a, if there   *)
(* is one, whatever else hangs in the same bucket.                         *)
LEMMA Search ==
  ASSUME TypeOK, DescriptorsConserved, KeysHashed, NEW a \in Keys
  PROVE  /\ HasSemd(a) <=> \E d \in InUse : s_key[d] = a
         /\ \A d \in InUse : s_key[d] = a => SemdOf(a) = d
         /\ HasSemd(a) => /\ SemdOf(a) \in Semds /\ SemdOf(a) \in InUse
                          /\ s_key[SemdOf(a)] = a
  <1> DEFINE c == semd_h[Hash[a]]
  <1>1. Hash[a] \in Buckets /\ c \in Seq(Semds)
    BY AshAssumption DEF TypeOK
  <1>2. DOMAIN c = 1..Len(c) /\ \A i \in DOMAIN c : c[i] \in Semds
    BY <1>1, LenProperties, ElementOfSeq
  <1>3. \A i \in DOMAIN c : c[i] \in InUse
    BY <1>1 DEF InUse, Chain, Range
  <1>4. ASSUME NEW d \in InUse, s_key[d] = a
        PROVE  \E i \in Matches(a) : c[i] = d
    <2>1. PICK b \in Buckets : d \in Chain(b)
      BY DEF InUse
    <2>2. Hash[s_key[d]] = b
      BY <2>1 DEF KeysHashed
    <2>3. \E i \in DOMAIN c : c[i] = d
      BY <1>4, <2>1, <2>2 DEF Chain, Range
    <2> QED  BY <1>4, <2>3 DEF Matches
  <1>5. ASSUME NEW i \in Matches(a), NEW j \in Matches(a)
        PROVE  i = j
    <2>1. i \in DOMAIN c /\ j \in DOMAIN c /\ s_key[c[i]] = s_key[c[j]]
      BY DEF Matches
    <2>2. c[i] = c[j]
      BY <1>3, <2>1 DEF KeysHashed
    <2> QED  BY <1>1, <2>1, <2>2 DEF DescriptorsConserved, NoRepeats
  <1>6. ASSUME NEW i \in Matches(a)
        PROVE  SemdOf(a) = c[i]
    <2>1. i \in Nat /\ \A j \in Matches(a) : i <= j
      BY <1>2, <1>5 DEF Matches
    <2>2. (CHOOSE k \in Matches(a) : \A j \in Matches(a) : k <= j) = i
      BY <1>5, <2>1
    <2> QED  BY <2>2 DEF SemdOf
  <1>7. \A i \in Matches(a) : c[i] \in InUse /\ c[i] \in Semds /\ s_key[c[i]] = a
    BY <1>2, <1>3 DEF Matches
  <1> QED  BY <1>4, <1>6, <1>7 DEF HasSemd

(* A process that waits is in the queue of the descriptor its p_semAdd     *)
(* leads to, and in no other.                                              *)
LEMMA WaiterFacts ==
  ASSUME IInv, NEW p \in Pcbs
  PROVE  /\ p_semAdd[p] # NULL =>
              /\ p_semAdd[p] \in Keys /\ HasSemd(p_semAdd[p])
              /\ \A d \in Semds : p \in Range(s_procq[d]) <=> d = SemdOf(p_semAdd[p])
         /\ p_semAdd[p] = NULL => \A d \in Semds : p \notin Range(s_procq[d])
  <1>1. p_semAdd[p] \in Keys \cup {NULL}
    BY DEF IInv, TypeOK
  <1>2. CASE p_semAdd[p] = NULL
    BY <1>2 DEF IInv, TableInv, WaitersLinked
  <1>3. CASE p_semAdd[p] # NULL
    <2> DEFINE a == p_semAdd[p]
    <2>1. a \in Keys /\ HasSemd(a)
      BY <1>1, <1>3 DEF IInv, TableInv, WaitersLinked
    <2>2. /\ \A d \in InUse : s_key[d] = a => SemdOf(a) = d
          /\ SemdOf(a) \in InUse /\ s_key[SemdOf(a)] = a
      BY <2>1, Search DEF IInv, TableInv
    <2>3. \A d \in Semds : p \in Range(s_procq[d]) <=> d \in InUse /\ s_key[d] = a
      BY <1>3 DEF IInv, TableInv, WaitersLinked
    <2> QED  BY <1>3, <2>1, <2>2, <2>3
  <1> QED  BY <1>2, <1>3

(* The descriptors at the two kinds of places they can be.                 *)
LEMMA Places ==
  ASSUME IInv
  PROVE  /\ InUse \subseteq Semds /\ Range(semdFree) \subseteq Semds
         /\ \A d \in InUse : d \notin Range(semdFree) /\ s_procq[d] # <<>>
         /\ \A d \in Range(semdFree) : d \notin InUse /\ s_procq[d] = <<>>
  <1>1. InUse \subseteq Semds
    BY RangeOfSeq DEF IInv, TypeOK, InUse, Chain
  <1>2. Range(semdFree) \subseteq Semds
    BY RangeOfSeq DEF IInv, TypeOK
  <1> QED  BY <1>1, <1>2 DEF IInv, TableInv, DescriptorsConserved

-----------------------------------------------------------------------------

LEMMA InitInv == Init => IInv
  <1> SUFFICES ASSUME Init PROVE IInv
    OBVIOUS
  <1> DEFINE n == Cardinality(Semds)
  <1>1. n \in Nat
    BY AshAssumption, FS_CardinalityType
  <1>2. semdFree \in [1..n -> Semds] /\ NoRepeats(semdFree)
    BY DEF Init
  <1>3. semdFree \in Seq(Semds)
    BY <1>1, <1>2
  <1>4. TypeOK
    <2>1. <<>> \in Seq(Semds) /\ <<>> \in Seq(Pcbs)
      BY EmptySeq
    <2> QED  BY <1>3, <2>1 DEF Init, TypeOK
  <1>5. Range(semdFree) = Semds
    <2>1. semdFree \in Injection(1..n, Semds)
      BY <1>2 DEF Injection, IsInjective, NoRepeats
    <2>2. IsFiniteSet(Semds) /\ Cardinality(1..n) = Cardinality(Semds)
      BY <1>1, AshAssumption, FS_Interval
    <2>3. semdFree \in Surjection(1..n, Semds)
      BY <2>1, <2>2, FS_Injection
    <2> QED  BY <1>2, <2>3 DEF Surjection, Range
  <1>6. Range(<<>>) = {} /\ NoRepeats(<<>>)
    BY DEF Range, NoRepeats
  <1>7. InUse = {}
    BY <1>6 DEF Init, InUse, Chain
  <1>8. DescriptorsConserved
    BY <1>2, <1>5, <1>6, <1>7 DEF DescriptorsConserved, Init
  <1>9. KeysHashed
    BY <1>6, <1>7 DEF KeysHashed, Chain, Init
  <1>10. WaitersLinked
    BY <1>6, <1>7 DEF WaitersLinked, Init
  <1> QED  BY <1>4, <1>8, <1>9, <1>10 DEF IInv, TableInv

(* A step which leaves the table alone keeps its invariant.                *)
LEMMA SameTable ==
  ASSUME IInv, UNCHANGED table
  PROVE  IInv'
  <1>1. TypeOK'
    BY DEF IInv, TypeOK, table
  <1>2. InUse' = InUse
    BY DEF InUse, Chain, table
  <1>3. \A a : HasSemd(a)' = HasSemd(a)
    BY DEF HasSemd, Matches, table
  <1>4. \A b : Chain(b)' = Chain(b)
    BY DEF Chain, table
  <1>5. DescriptorsConserved'
    BY <1>2 DEF IInv, TableInv, DescriptorsConserved, table
  <1>6. KeysHashed'
    BY <1>2, <1>4 DEF IInv, TableInv, KeysHashed, table
  <1>7. WaitersLinked'
    BY <1>2, <1>3 DEF IInv, TableInv, WaitersLinked, table
  <1> QED  BY <1>1, <1>5, <1>6, <1>7 DEF IInv, TableInv

(* One more process on a semaphore that has a descriptor.                  *)
LEMMA InsertKnownInv ==
  ASSUME IInv, NEW a \in Keys, NEW p \in Pcbs, InsertKnown(a, p)
  PROVE  IInv'
  <1> DEFINE d == SemdOf(a)
             q == s_procq[d]
  <1>1. /\ d \in Semds /\ d \in InUse /\ s_key[d] = a
        /\ \A e \in InUse : s_key[e] = a => e = d
    BY Search DEF IInv, TableInv, InsertKnown, KeysHashed
  <1>2. q \in Seq(Pcbs) /\ NoRepeats(q)
    BY <1>1 DEF IInv, TypeOK, TableInv, WaitersLinked
  <1>3. p_semAdd[p] = NULL /\ \A e \in Semds : p \notin Range(s_procq[e])
    BY WaiterFacts DEF InsertKnown
  <1>4. /\ Append(q, p) \in Seq(Pcbs) /\ Append(q, p) # <<>>
        /\ Range(Append(q, p)) = Range(q) \cup {p} /\ NoRepeats(Append(q, p))
    BY <1>1, <1>2, <1>3, AppendFacts
  <1>5. /\ s_procq' = [s_procq EXCEPT ![d] = Append(q, p)]
        /\ p_semAdd' = [p_semAdd EXCEPT ![p] = a]
        /\ semdFree' = semdFree /\ semd_h' = semd_h /\ s_key' = s_key
    BY DEF InsertKnown
  <1> HIDE DEF d, q
  <1>6. InUse' = InUse /\ (\A b : Chain(b)' = Chain(b))
        /\ (\A k : HasSemd(k)' = HasSemd(k))
    BY <1>5 DEF InUse, Chain, HasSemd, Matches
  <1>7. TypeOK'
    BY <1>1, <1>4, <1>5 DEF IInv, TypeOK
  <1>8. \A e \in Semds : s_procq'[e] = IF e = d THEN Append(q, p) ELSE s_procq[e]
    BY <1>1, <1>5 DEF IInv, TypeOK
  <1>9. \A x \in Pcbs : p_semAdd'[x] = IF x = p THEN a ELSE p_semAdd[x]
    BY <1>5 DEF IInv, TypeOK
  <1>10. DescriptorsConserved'
    BY <1>1, <1>4, <1>5, <1>6, <1>8 DEF IInv, TableInv, DescriptorsConserved
  <1>11. KeysHashed'
    BY <1>5, <1>6 DEF IInv, TableInv, KeysHashed
  <1>12. WaitersLinked'
    <2>1. \A e \in Semds : NoRepeats(s_procq'[e])
      BY <1>4, <1>8 DEF IInv, TableInv, WaitersLinked
    <2>2. ASSUME NEW x \in Pcbs, NEW e \in Semds
          PROVE  x \in Range(s_procq'[e]) <=>
                   e \in InUse /\ p_semAdd'[x] # NULL /\ s_key[e] = p_semAdd'[x]
      <3>1. a # NULL
        BY AshAssumption
      <3>2. CASE x = p
        <4>1. x \in Range(s_procq'[e]) <=> e = d
          BY <1>3, <1>4, <1>8, <3>2
        <4> QED  BY <1>1, <1>9, <3>1, <3>2, <4>1
      <3>3. CASE x # p
        <4>1. x \in Range(s_procq'[e]) <=> x \in Range(s_procq[e])
          BY <1>4, <1>8, <3>3 DEF q
        <4> QED  BY <1>9, <3>3, <4>1 DEF IInv, TableInv, WaitersLinked
      <3> QED  BY <3>2, <3>3
    <2>3. \A x \in Pcbs : p_semAdd'[x] # NULL => HasSemd(p_semAdd'[x])
      BY <1>9 DEF IInv, TableInv, WaitersLinked, InsertKnown
    <2> QED  BY <1>5, <1>6, <2>1, <2>2, <2>3 DEF WaitersLinked
  <1> QED  BY <1>7, <1>10, <1>11, <1>12 DEF IInv, TableInv

(* The first free descriptor d becomes that of a: where things are then.   *)
LEMMA InsertNewFacts ==
  ASSUME IInv, NEW a \in Keys, NEW p \in Pcbs, InsertNew(a, p),
         NEW d, d = Head(semdFree)
  PROVE  /\ TypeOK'
         /\ d \in Semds /\ d \notin InUse /\ d \in Range(semdFree)
         /\ Range(semdFree') = Range(semdFree) \ {d} /\ NoRepeats(semdFree')
         /\ \A e \in InUse : e \in Semds /\ s_key[e] # a
         /\ \A e \in Semds : /\ s_procq'[e] = IF e = d THEN <<p>> ELSE s_procq[e]
                             /\ s_key'[e] = IF e = d THEN a ELSE s_key[e]
         /\ \A x \in Pcbs : /\ p_semAdd'[x] = IF x = p THEN a ELSE p_semAdd[x]
                            /\ x \in Range(<<p>>) <=> x = p
         /\ \A e \in Semds : p \notin Range(s_procq[e])
         /\ <<p>> # <<>> /\ NoRepeats(<<p>>)
         /\ \A b \in Buckets : NoRepeats(semd_h'[b]) /\ Chain(b)' \subseteq Chain(b) \cup {d}
         /\ \A b \in Buckets : b # Hash[a] => Chain(b)' \subseteq Chain(b)
         /\ InUse' = InUse \cup {d}
  <1> DEFINE c == semd_h[Hash[a]]
  <1>1. semdFree \in Seq(Semds) /\ semdFree # <<>> /\ NoRepeats(semdFree)
    BY DEF InsertNew, IInv, TypeOK, TableInv, DescriptorsConserved
  <1>2. /\ d \in Range(semdFree) /\ Tail(semdFree) \in Seq(Semds)
        /\ Range(Tail(semdFree)) = Range(semdFree) \ {d}
        /\ NoRepeats(Tail(semdFree))
    BY <1>1, TailFacts
  <1>3. d \in Semds /\ d \notin InUse /\ s_procq[d] = <<>>
    BY <1>2, Places
  <1>4. Hash[a] \in Buckets /\ c \in Seq(Semds) /\ NoRepeats(c) /\ d \notin Range(c)
    <2>1. Hash[a] \in Buckets /\ c \in Seq(Semds) /\ NoRepeats(c)
      BY AshAssumption DEF IInv, TypeOK, TableInv, DescriptorsConserved
    <2> QED  BY <1>3, <2>1 DEF InUse, Chain
  <1>5. /\ <<d>> \o c \in Seq(Semds) /\ Range(<<d>> \o c) = {d} \cup Range(c)
        /\ NoRepeats(<<d>> \o c)
    BY <1>3, <1>4, ConsFacts
  <1>6. p_semAdd[p] = NULL /\ \A e \in Semds : p \notin Range(s_procq[e])
    BY WaiterFacts DEF InsertNew
  <1>7. \A e \in InUse : s_key[e] # a
    BY Search DEF IInv, TableInv, InsertNew
  <1>8. /\ semdFree' = Tail(semdFree)
        /\ s_key' = [s_key EXCEPT ![d] = a]
        /\ s_procq' = [s_procq EXCEPT ![d] = <<p>>]
        /\ semd_h' = [semd_h EXCEPT ![Hash[a]] = <<d>> \o c]
        /\ p_semAdd' = [p_semAdd EXCEPT ![p] = a]
    BY DEF InsertNew
  <1> HIDE DEF c
  <1>9. <<p>> \in Seq(Pcbs) /\ <<p>> # <<>> /\ Range(<<p>>) = {p} /\ NoRepeats(<<p>>)
    <2>1. <<p>> \in Seq(Pcbs) /\ <<p>> # <<>> /\ DOMAIN <<p>> = {1} /\ <<p>>[1] = p
      OBVIOUS
    <2>2. Range(<<p>>) = {p}
      BY <2>1, Zenon DEF Range
    <2>3. NoRepeats(<<p>>)
      BY <2>1, Zenon DEF NoRepeats
    <2> QED  BY <2>1, <2>2, <2>3
  <1>10. TypeOK'
    BY <1>2, <1>3, <1>4, <1>5, <1>8, <1>9 DEF IInv, TypeOK
  <1>11. \A b \in Buckets :
           semd_h'[b] = IF b = Hash[a] THEN <<d>> \o c ELSE semd_h[b]
    BY <1>4, <1>8 DEF IInv, TypeOK
  <1>12. \A e \in Semds : /\ s_procq'[e] = IF e = d THEN <<p>> ELSE s_procq[e]
                          /\ s_key'[e] = IF e = d THEN a ELSE s_key[e]
    BY <1>3, <1>8 DEF IInv, TypeOK
  <1>13. \A x \in Pcbs : p_semAdd'[x] = IF x = p THEN a ELSE p_semAdd[x]
    BY <1>8 DEF IInv, TypeOK
  <1>14. \A b \in Buckets :
           Chain(b)' = IF b = Hash[a] THEN {d} \cup Chain(b) ELSE Chain(b)
    BY <1>5, <1>11 DEF Chain, c
  <1>15. InUse' = InUse \cup {d}
    BY <1>4, <1>14 DEF InUse
  <1>16. InUse \subseteq Semds
    BY Places
  <1>17. \A b \in Buckets : NoRepeats(semd_h'[b])
    BY <1>5, <1>11 DEF IInv, TableInv, DescriptorsConserved
  <1> QED  BY <1>2, <1>3, <1>6, <1>7, <1>8, <1>9, <1>10, <1>12, <1>13,
              <1>14, <1>15, <1>16, <1>17

(* A semaphore gets a descriptor for its first waiter.                     *)
LEMMA InsertNewInv ==
  ASSUME IInv, NEW a \in Keys, NEW p \in Pcbs, InsertNew(a, p)
  PROVE  IInv'
  <1>0. PICK d : d = Head(semdFree)
    OBVIOUS
  <1>1. TypeOK'
    BY <1>0, InsertNewFacts
  <1>2. /\ d \in Semds /\ d \notin InUse /\ d \in Range(semdFree)
        /\ Range(semdFree') = Range(semdFree) \ {d} /\ NoRepeats(semdFree')
    BY <1>0, InsertNewFacts
  <1>3. \A e \in InUse : e \in Semds /\ s_key[e] # a
    BY <1>0, InsertNewFacts
  <1>4. \A e \in Semds : /\ s_procq'[e] = IF e = d THEN <<p>> ELSE s_procq[e]
                         /\ s_key'[e] = IF e = d THEN a ELSE s_key[e]
    BY <1>0, InsertNewFacts
  <1>5. \A x \in Pcbs : /\ p_semAdd'[x] = IF x = p THEN a ELSE p_semAdd[x]
                        /\ x \in Range(<<p>>) <=> x = p
    BY <1>0, InsertNewFacts
  <1>6. \A e \in Semds : p \notin Range(s_procq[e])
    BY <1>0, InsertNewFacts
  <1>7. <<p>> # <<>> /\ NoRepeats(<<p>>)
    BY <1>0, InsertNewFacts
  <1>8. /\ \A b \in Buckets : Chain(b)' \subseteq Chain(b) \cup {d}
        /\ \A b \in Buckets : b # Hash[a] => Chain(b)' \subseteq Chain(b)
    BY <1>0, InsertNewFacts
  <1>9. InUse' = InUse \cup {d}
    BY <1>0, InsertNewFacts
  <1>10. DescriptorsConserved'
    <2>1. \A b \in Buckets : NoRepeats(semd_h'[b])
      BY <1>0, InsertNewFacts
    <2>2. ASSUME NEW e \in Semds
          PROVE  \/ /\ e \in Range(semdFree') /\ e \notin InUse'
                    /\ s_procq'[e] = <<>>
                 \/ /\ e \notin Range(semdFree') /\ e \in InUse'
                    /\ s_procq'[e] # <<>>
      <3>1. CASE e = d
        BY <1>2, <1>5, <1>7, <1>4, <1>9, <3>1
      <3>2. CASE e # d
        <4>1. (e \in Range(semdFree') <=> e \in Range(semdFree))
              /\ (e \in InUse' <=> e \in InUse) /\ s_procq'[e] = s_procq[e]
          BY <1>2, <1>4, <1>9, <3>2
        <4> QED  BY <4>1 DEF IInv, TableInv, DescriptorsConserved
      <3> QED  BY <3>1, <3>2
    <2> QED  BY <1>2, <2>1, <2>2 DEF DescriptorsConserved
  <1>11. KeysHashed'
    <2>1. ASSUME NEW b \in Buckets, NEW e \in Chain(b)'
          PROVE  s_key'[e] # NULL /\ Hash[s_key'[e]] = b
      <3>1. CASE e = d
        <4>1. b = Hash[a]
          BY <1>2, <1>8, <2>1, <3>1 DEF InUse
        <4> QED  BY <1>2, <1>4, <3>1, <4>1, AshAssumption
      <3>2. CASE e # d
        <4>1. e \in Chain(b)
          BY <1>8, <2>1, <3>2
        <4>2. e \in Semds
          BY <1>3, <4>1 DEF InUse
        <4>3. s_key'[e] = s_key[e]
          BY <1>4, <3>2, <4>2
        <4> QED  BY <4>1, <4>3 DEF IInv, TableInv, KeysHashed
      <3> QED  BY <3>1, <3>2
    <2>2. ASSUME NEW e \in InUse', NEW f \in InUse', s_key'[e] = s_key'[f]
          PROVE  e = f
      BY <1>2, <1>3, <1>4, <1>9, <2>2 DEF IInv, TableInv, KeysHashed
    <2> QED  BY <2>1, <2>2 DEF KeysHashed
  <1>12. WaitersLinked'
    <2>1. \A e \in Semds : NoRepeats(s_procq'[e])
      BY <1>5, <1>7, <1>4 DEF IInv, TableInv, WaitersLinked
    <2>2. a # NULL
      BY AshAssumption
    <2>3. ASSUME NEW x \in Pcbs, NEW e \in Semds
          PROVE  x \in Range(s_procq'[e]) <=>
                   e \in InUse' /\ p_semAdd'[x] # NULL /\ s_key'[e] = p_semAdd'[x]
      <3>0. x \in Range(s_procq[e]) <=>
                   e \in InUse /\ p_semAdd[x] # NULL /\ s_key[e] = p_semAdd[x]
        BY DEF IInv, TableInv, WaitersLinked
      <3>1. CASE e = d /\ x = p
        BY <1>2, <1>5, <1>7, <1>4, <1>9, <2>2, <3>1
      <3>2. CASE e = d /\ x # p
        <4>1. x \notin Range(s_procq'[e])
          BY <1>5, <1>7, <1>4, <3>2
        <4>2. p_semAdd[x] # a
          <5>1. SUFFICES ASSUME p_semAdd[x] = a PROVE FALSE
            OBVIOUS
          <5>2. HasSemd(a)
            BY <2>2, <5>1 DEF IInv, TableInv, WaitersLinked
          <5> QED  BY <5>2 DEF InsertNew
        <4> QED  BY <1>2, <1>4, <1>5, <3>2, <4>1, <4>2
      <3>3. CASE e # d /\ x = p
        <4>1. x \notin Range(s_procq'[e])
          BY <1>6, <1>4, <3>3
        <4>2. e \in InUse' => s_key'[e] # a
          BY <1>3, <1>4, <1>9, <3>3
        <4> QED  BY <1>5, <3>3, <4>1, <4>2
      <3>4. CASE e # d /\ x # p
        BY <1>4, <1>5, <1>9, <3>0, <3>4
      <3> QED  BY <3>1, <3>2, <3>3, <3>4
    <2>4. ASSUME NEW x \in Pcbs, p_semAdd'[x] # NULL
          PROVE  HasSemd(p_semAdd[x])'
      <3>1. \E e \in InUse' : s_key'[e] = p_semAdd'[x]
        <4>1. CASE x = p
          BY <1>2, <1>4, <1>5, <1>9, <4>1
        <4>2. CASE x # p
          <5>1. p_semAdd'[x] = p_semAdd[x]
            BY <1>5, <4>2
          <5>2. PICK e \in InUse : s_key[e] = p_semAdd[x]
            BY <2>4, <5>1, WaiterFacts, Search DEF IInv, TableInv
          <5>3. e # d /\ e \in InUse' /\ e \in Semds
            BY <1>2, <1>9, <1>3
          <5> QED  BY <1>4, <5>1, <5>2, <5>3
        <4> QED  BY <4>1, <4>2
      <3>2. PICK e \in InUse' : s_key'[e] = p_semAdd'[x]
        BY <3>1
      <3>3. PICK b \in Buckets : e \in Chain(b)'
        BY DEF InUse
      <3>4. Hash[p_semAdd'[x]] = b
        BY <1>11, <3>2, <3>3 DEF KeysHashed
      <3>5. PICK i \in DOMAIN semd_h'[b] : semd_h'[b][i] = e
        BY <3>3 DEF Chain, Range
      <3> QED  BY <3>2, <3>4, <3>5 DEF HasSemd, Matches
    <2> QED  BY <2>1, <2>3, <2>4 DEF WaitersLinked
  <1> QED  BY <1>1, <1>10, <1>11, <1>12 DEF IInv, TableInv

(* A waiter p leaves the queue of d, of which q remains: where things are  *)
(* then.                                                                   *)
LEMMA TakenFacts ==
  ASSUME IInv, NEW d \in InUse, NEW p \in Range(s_procq[d]), NEW q \in Seq(Pcbs),
         NoRepeats(q), Range(q) = Range(s_procq[d]) \ {p}, Taken(d, p, q)
  PROVE  /\ TypeOK'
         /\ InUse \subseteq Semds /\ d \notin Range(semdFree)
         /\ p \in Pcbs /\ s_key[d] = p_semAdd[p] /\ p_semAdd[p] # NULL
         /\ \A e \in Semds : s_procq'[e] = IF e = d THEN q ELSE s_procq[e]
         /\ \A x \in Pcbs : p_semAdd'[x] = IF x = p THEN NULL ELSE p_semAdd[x]
         /\ s_key' = s_key
         /\ NoRepeats(semdFree')
         /\ Range(semdFree') = IF q = <<>> THEN {d} \cup Range(semdFree)
                                           ELSE Range(semdFree)
         /\ \A b \in Buckets : NoRepeats(semd_h'[b]) /\ Chain(b)' \subseteq Chain(b)
         /\ InUse' = IF q = <<>> THEN InUse \ {d} ELSE InUse
  <1>1. d \in Semds /\ d \notin Range(semdFree) /\ InUse \subseteq Semds
    BY Places
  <1>2. p \in Pcbs /\ s_key[d] = p_semAdd[p] /\ p_semAdd[p] # NULL
    <2>1. p \in Pcbs
      BY <1>1, RangeOfSeq DEF IInv, TypeOK
    <2> QED  BY <1>1, <2>1 DEF IInv, TableInv, WaitersLinked
  <1>3. /\ s_procq' = [s_procq EXCEPT ![d] = q]
        /\ p_semAdd' = [p_semAdd EXCEPT ![p] = NULL] /\ s_key' = s_key
    BY DEF Taken
  <1>4. \A e \in Semds : s_procq'[e] = IF e = d THEN q ELSE s_procq[e]
    BY <1>1, <1>3 DEF IInv, TypeOK
  <1>5. \A x \in Pcbs : p_semAdd'[x] = IF x = p THEN NULL ELSE p_semAdd[x]
    BY <1>2, <1>3 DEF IInv, TypeOK
  <1>6. /\ s_procq' \in [Semds -> Seq(Pcbs)]
        /\ p_semAdd' \in [Pcbs -> Keys \cup {NULL}]
        /\ s_key' \in [Semds -> Keys \cup {NULL}]
    BY <1>3 DEF IInv, TypeOK
  \* What happens to the descriptor.
  <1>7. /\ semdFree' \in Seq(Semds) /\ NoRepeats(semdFree')
        /\ Range(semdFree') = IF q = <<>> THEN {d} \cup Range(semdFree)
                                          ELSE Range(semdFree)
    <2>1. semdFree \in Seq(Semds) /\ NoRepeats(semdFree)
      BY DEF IInv, TypeOK, TableInv, DescriptorsConserved
    <2>2. CASE q = <<>>
      <3>1. semdFree' = <<d>> \o semdFree
        BY <2>2 DEF Taken
      <3> QED  BY <1>1, <2>1, <2>2, <3>1, ConsFacts
    <2>3. CASE q # <<>>
      BY <2>1, <2>3 DEF Taken
    <2> QED  BY <2>2, <2>3
  <1>8. /\ semd_h' \in [Buckets -> Seq(Semds)]
        /\ \A b \in Buckets :
             /\ NoRepeats(semd_h'[b])
             /\ Range(semd_h'[b]) = IF q = <<>> THEN Chain(b) \ {d} ELSE Chain(b)
    <2>1. /\ semd_h \in [Buckets -> Seq(Semds)]
          /\ \A b \in Buckets : NoRepeats(semd_h[b])
      BY DEF IInv, TypeOK, TableInv, DescriptorsConserved
    <2>2. CASE q = <<>>
      <3>1. semd_h' = [b \in Buckets |-> Without(semd_h[b], {d})]
        BY <2>2 DEF Taken
      <3>2. \A b \in Buckets :
              /\ Without(semd_h[b], {d}) \in Seq(Semds)
              /\ Range(Without(semd_h[b], {d})) = Chain(b) \ {d}
              /\ NoRepeats(Without(semd_h[b], {d}))
        BY <2>1, WithoutRange, WithoutNoRepeats DEF Chain
      <3> QED  BY <2>2, <3>1, <3>2
    <2>3. CASE q # <<>>
      BY <2>1, <2>3 DEF Taken, Chain
    <2> QED  BY <2>2, <2>3
  <1>9. InUse' = IF q = <<>> THEN InUse \ {d} ELSE InUse
    BY <1>8 DEF InUse, Chain
  <1>10. TypeOK'
    BY <1>6, <1>7, <1>8 DEF TypeOK
  <1>11. \A b \in Buckets : NoRepeats(semd_h'[b]) /\ Chain(b)' \subseteq Chain(b)
    BY <1>8 DEF Chain
  <1> QED  BY <1>1, <1>2, <1>3, <1>4, <1>5, <1>7, <1>9, <1>10, <1>11

LEMMA TakenInv ==
  ASSUME IInv, NEW d \in InUse, NEW p \in Range(s_procq[d]), NEW q \in Seq(Pcbs),
         NoRepeats(q), Range(q) = Range(s_procq[d]) \ {p}, Taken(d, p, q)
  PROVE  IInv'
  <1>1. TypeOK' /\ InUse \subseteq Semds /\ d \notin Range(semdFree)
    BY TakenFacts
  <1>2. p \in Pcbs /\ s_key[d] = p_semAdd[p] /\ p_semAdd[p] # NULL
    BY TakenFacts
  <1>3. s_key' = s_key
    BY TakenFacts
  <1>4. \A e \in Semds : s_procq'[e] = IF e = d THEN q ELSE s_procq[e]
    BY TakenFacts
  <1>5. \A x \in Pcbs : p_semAdd'[x] = IF x = p THEN NULL ELSE p_semAdd[x]
    BY TakenFacts
  <1>6. /\ NoRepeats(semdFree')
        /\ Range(semdFree') = IF q = <<>> THEN {d} \cup Range(semdFree)
                                          ELSE Range(semdFree)
    BY TakenFacts
  <1>7. \A b \in Buckets : NoRepeats(semd_h'[b]) /\ Chain(b)' \subseteq Chain(b)
    BY TakenFacts
  <1>8. InUse' = IF q = <<>> THEN InUse \ {d} ELSE InUse
    BY TakenFacts
  <1>9. DescriptorsConserved'
    <2>1. ASSUME NEW e \in Semds
          PROVE  \/ /\ e \in Range(semdFree') /\ e \notin InUse'
                    /\ s_procq'[e] = <<>>
                 \/ /\ e \notin Range(semdFree') /\ e \in InUse'
                    /\ s_procq'[e] # <<>>
      <3>1. CASE e = d /\ q = <<>>
        BY <1>4, <1>6, <1>8, <3>1
      <3>2. CASE e = d /\ q # <<>>
        BY <1>1, <1>4, <1>6, <1>8, <3>2
      <3>3. CASE e # d
        <4>1. (e \in Range(semdFree') <=> e \in Range(semdFree))
              /\ (e \in InUse' <=> e \in InUse) /\ s_procq'[e] = s_procq[e]
          BY <1>4, <1>6, <1>8, <3>3
        <4> QED  BY <4>1 DEF IInv, TableInv, DescriptorsConserved
      <3> QED  BY <3>1, <3>2, <3>3
    <2> QED  BY <1>6, <1>7, <2>1 DEF DescriptorsConserved
  <1>10. KeysHashed'
    <2>1. InUse' \subseteq InUse
      BY <1>8
    <2> QED  BY <1>3, <1>7, <2>1 DEF IInv, TableInv, KeysHashed
  <1>11. WaitersLinked'
    <2>1. \A e \in Semds : NoRepeats(s_procq'[e])
      BY <1>4 DEF IInv, TableInv, WaitersLinked
    <2>2. ASSUME NEW x \in Pcbs, NEW e \in Semds
          PROVE  x \in Range(s_procq'[e]) <=>
                   e \in InUse' /\ p_semAdd'[x] # NULL /\ s_key'[e] = p_semAdd'[x]
      <3>0. x \in Range(s_procq[e]) <=>
                   e \in InUse /\ p_semAdd[x] # NULL /\ s_key[e] = p_semAdd[x]
        BY DEF IInv, TableInv, WaitersLinked
      <3>1. CASE x = p
        <4>1. e # d => x \notin Range(s_procq[e])
          BY <1>2, <3>0, <3>1 DEF IInv, TableInv, KeysHashed
        <4>2. x \notin Range(s_procq'[e])
          BY <1>4, <3>1, <4>1
        <4> QED  BY <1>5, <3>1, <4>2
      <3>2. CASE x # p /\ e # d
        BY <1>3, <1>4, <1>5, <1>8, <3>0, <3>2
      <3>3. CASE x # p /\ e = d
        <4>1. x \in Range(s_procq'[e]) <=> x \in Range(s_procq[e])
          BY <1>4, <3>3
        <4>2. q = <<>> => x \notin Range(s_procq'[e])
          BY <1>4, <3>3, EmptyRange
        <4>3. CASE q # <<>>
          BY <1>3, <1>5, <1>8, <3>0, <3>3, <4>1, <4>3
        <4>4. CASE q = <<>>
          BY <1>8, <3>3, <4>2, <4>4
        <4> QED  BY <4>3, <4>4
      <3> QED  BY <3>1, <3>2, <3>3
    <2>3. ASSUME NEW x \in Pcbs, p_semAdd'[x] # NULL
          PROVE  HasSemd(p_semAdd[x])'
      <3>1. x # p /\ p_semAdd'[x] = p_semAdd[x]
        BY <1>5, <2>3
      <3>2. PICK e \in InUse : s_key[e] = p_semAdd[x]
        BY <2>3, <3>1, WaiterFacts, Search DEF IInv, TableInv
      <3>3. x \in Range(s_procq[e]) /\ e \in Semds
        BY <1>1, <2>3, <3>1, <3>2 DEF IInv, TableInv, WaitersLinked
      <3>4. e \in InUse'
        <4>1. CASE e = d
          <5>1. x \in Range(q)
            BY <3>1, <3>3, <4>1
          <5>2. q # <<>>
            BY <5>1, EmptyRange
          <5> QED  BY <1>8, <5>2
        <4>2. CASE e # d
          BY <1>8, <4>2
        <4> QED  BY <4>1, <4>2
      <3>5. PICK b \in Buckets : e \in Chain(b)'
        BY <3>4 DEF InUse
      <3>6. Hash[p_semAdd'[x]] = b /\ s_key'[e] = p_semAdd'[x]
        BY <1>3, <1>10, <3>1, <3>2, <3>5 DEF KeysHashed
      <3>7. PICK i \in DOMAIN semd_h'[b] : semd_h'[b][i] = e
        BY <3>5 DEF Chain, Range
      <3> QED  BY <3>6, <3>7 DEF HasSemd, Matches
    <2> QED  BY <2>1, <2>2, <2>3 DEF WaitersLinked
  <1> QED  BY <1>1, <1>9, <1>10, <1>11 DEF IInv, TableInv

(* The process that removeBlocked(a) unlinks, and what is left behind.     *)
LEMMA RemovedFacts ==
  ASSUME IInv, NEW a \in Keys, CanRemove(a)
  PROVE  LET d == SemdOf(a)
             q == s_procq[d]
         IN  /\ d \in InUse /\ s_key[d] = a /\ q \in Seq(Pcbs) /\ q # <<>>
             /\ Head(q) \in Range(q) /\ Tail(q) \in Seq(Pcbs)
             /\ NoRepeats(Tail(q)) /\ Range(Tail(q)) = Range(q) \ {Head(q)}
  <1> DEFINE d == SemdOf(a)
             q == s_procq[d]
  <1>1. d \in Semds /\ d \in InUse /\ s_key[d] = a /\ q # <<>>
    BY Search DEF CanRemove, IInv, TableInv
  <1>2. q \in Seq(Pcbs) /\ NoRepeats(q)
    BY <1>1 DEF IInv, TypeOK, TableInv, WaitersLinked
  <1> HIDE DEF d, q
  <1>3. /\ Head(q) \in Range(q) /\ Tail(q) \in Seq(Pcbs)
        /\ NoRepeats(Tail(q)) /\ Range(Tail(q)) = Range(q) \ {Head(q)}
    BY <1>1, <1>2, TailFacts DEF q
  <1> QED  BY <1>1, <1>2, <1>3 DEF d, q

(* The queue that outBlocked(p) takes p out of, and what is left behind.   *)
LEMMA OutFacts ==
  ASSUME IInv, NEW p \in Pcbs, p_semAdd[p] # NULL
  PROVE  LET d == SemdOf(p_semAdd[p])
             q == s_procq[d]
         IN  /\ d \in InUse /\ p \in Range(q) /\ q \in Seq(Pcbs)
             /\ Without(q, {p}) \in Seq(Pcbs)
             /\ NoRepeats(Without(q, {p}))
             /\ Range(Without(q, {p})) = Range(q) \ {p}
  <1> DEFINE d == SemdOf(p_semAdd[p])
             q == s_procq[d]
  <1>1. p_semAdd[p] \in Keys /\ HasSemd(p_semAdd[p])
    BY WaiterFacts
  <1>2. d \in Semds /\ d \in InUse
    BY <1>1, Search DEF IInv, TableInv
  <1>3. p \in Range(q)
    BY <1>2, WaiterFacts
  <1>4. q \in Seq(Pcbs) /\ NoRepeats(q)
    BY <1>2 DEF IInv, TypeOK, TableInv, WaitersLinked
  <1> HIDE DEF d, q
  <1> QED  BY <1>2, <1>3, <1>4, WithoutRange, WithoutNoRepeats DEF d, q

(* Every step keeps the table in order.                                    *)
LEMMA NextInv == IInv /\ [Next]_vars => IInv'
  <1> SUFFICES ASSUME IInv, [Next]_vars
               PROVE  IInv'
    OBVIOUS
  <1>1. ASSUME NEW a \in Keys \cup {NULL}, NEW p \in Pcbs \cup {NULL},
               insertBlocked(a, p)
        PROVE  IInv'
    <2>1. CASE InsertNull(a, p) \/ InsertTwice(a, p) \/ InsertFull(a, p)
      BY <2>1, SameTable DEF InsertNull, InsertTwice, InsertFull
    <2>2. CASE InsertKnown(a, p)
      <3>1. a \in Keys /\ p \in Pcbs
        BY <2>2 DEF InsertKnown
      <3> QED  BY <2>2, <3>1, InsertKnownInv
    <2>3. CASE InsertNew(a, p)
      <3>1. a \in Keys /\ p \in Pcbs
        BY <2>3 DEF InsertNew
      <3> QED  BY <2>3, <3>1, InsertNewInv
    <2> QED  BY <1>1, <2>1, <2>2, <2>3 DEF insertBlocked
  <1>2. ASSUME NEW a \in Keys \cup {NULL}, removeBlocked(a)
        PROVE  IInv'
    <2>1. CASE UNCHANGED table
      BY <2>1, SameTable
    <2>2. CASE CanRemove(a) /\ ~UNCHANGED table
      <3>1. a \in Keys
        BY <2>2 DEF CanRemove
      <3>2. Taken(SemdOf(a), Head(s_procq[SemdOf(a)]), Tail(s_procq[SemdOf(a)]))
        BY <1>2, <2>2 DEF removeBlocked
      <3> QED  BY <2>2, <3>1, <3>2, RemovedFacts, TakenInv
    <2> QED  BY <1>2, <2>1, <2>2 DEF removeBlocked
  <1>3. ASSUME NEW a \in Keys \cup {NULL}, headBlocked(a)
        PROVE  IInv'
    BY <1>3, SameTable DEF headBlocked
  <1>4. ASSUME NEW p \in Pcbs \cup {NULL}, outBlocked(p)
        PROVE  IInv'
    <2>1. CASE UNCHANGED table
      BY <2>1, SameTable
    <2>2. CASE ~UNCHANGED table
      <3> DEFINE d == SemdOf(p_semAdd[p])
      <3>1. p \in Pcbs /\ p_semAdd[p] # NULL
            /\ Taken(d, p, Without(s_procq[d], {p}))
        BY <1>4, <2>2 DEF outBlocked
      <3> QED  BY <3>1, OutFacts, TakenInv
    <2> QED  BY <2>1, <2>2
  <1>5. CASE UNCHANGED vars
    BY <1>5, SameTable DEF vars, table
  <1> QED  BY <1>1, <1>2, <1>3, <1>4, <1>5 DEF Next

-----------------------------------------------------------------------------

(* While every descriptor has a waiter and one process does not wait, there *)
(* are more processes than descriptors: the heads of the queues are as many *)
(* as the descriptors, and that process is none of them.                    *)
LEMMA Exhausted ==
  ASSUME IInv, NEW p \in Pcbs, p_semAdd[p] = NULL, semdFree = <<>>
  PROVE  ~EnoughSemds
  <1> DEFINE f == [d \in Semds |-> Head(s_procq[d])]
  <1>1. Range(semdFree) = {}
    BY EmptyRange DEF IInv, TypeOK
  <1>2. \A d \in Semds : s_procq[d] # <<>> /\ s_procq[d] \in Seq(Pcbs)
                         /\ NoRepeats(s_procq[d]) /\ d \in InUse
    BY <1>1 DEF IInv, TypeOK, TableInv, DescriptorsConserved, WaitersLinked
  <1>3. \A d \in Semds : f[d] \in Range(s_procq[d]) /\ f[d] \in Pcbs
    <2> TAKE d \in Semds
    <2>1. Head(s_procq[d]) \in Range(s_procq[d])
      BY <1>2, TailFacts
    <2>2. Range(s_procq[d]) \subseteq Pcbs
      BY <1>2, RangeOfSeq
    <2> QED  BY <2>1, <2>2
  <1> HIDE DEF f
  <1>4. \A d \in Semds : f[d] # p
    BY <1>3, WaiterFacts
  <1>5. \A d, e \in Semds : f[d] = f[e] => d = e
    <2> SUFFICES ASSUME NEW d \in Semds, NEW e \in Semds, f[d] = f[e]
                 PROVE  d = e
      OBVIOUS
    <2>1. s_key[d] = p_semAdd[f[d]] /\ s_key[e] = p_semAdd[f[d]]
      BY <1>3 DEF IInv, TableInv, WaitersLinked
    <2> QED  BY <1>2, <2>1 DEF IInv, TableInv, KeysHashed
  <1>6. f \in Injection(Semds, Pcbs \ {p})
    BY <1>3, <1>4, <1>5 DEF f, Injection, IsInjective
  <1>7. /\ IsFiniteSet(Pcbs \ {p})
        /\ Cardinality(Pcbs \ {p}) = Cardinality(Pcbs) - 1
    BY AshAssumption, FS_RemoveElement
  <1>8. Cardinality(Semds) <= Cardinality(Pcbs) - 1
    BY <1>6, <1>7, FS_Injection
  <1>9. Cardinality(Semds) \in Nat /\ Cardinality(Pcbs) \in Nat
    BY AshAssumption, FS_CardinalityType
  <1> QED  BY <1>8, <1>9 DEF EnoughSemds

(* Only InsertFull answers that there is no descriptor.                    *)
LEMMA FullIsInsertFull ==
  ASSUME Next, last' = [op |-> "insertBlocked", ret |-> 3]
  PROVE  \E a \in Keys, p \in Pcbs : InsertFull(a, p)
  <1>1. last'.op = "insertBlocked" /\ last'.ret = 3
    OBVIOUS
  <1>2. PICK a \in Keys \cup {NULL}, p \in Pcbs \cup {NULL} : insertBlocked(a, p)
    BY <1>1 DEF Next, removeBlocked, headBlocked, outBlocked, Returned
  <1>3. InsertFull(a, p)
    BY <1>1, <1>2 DEF insertBlocked, InsertNull, InsertTwice, InsertKnown,
                      InsertNew, Returned
  <1> QED  BY <1>3 DEF InsertFull

LEMMA NeverFullNext == IInv /\ NeverFull /\ [Next]_vars => NeverFull'
  <1> SUFFICES ASSUME IInv, NeverFull, [Next]_vars, EnoughSemds,
                      last' = [op |-> "insertBlocked", ret |-> 3]
               PROVE  FALSE
    BY DEF NeverFull, EnoughSemds
  <1>1. CASE Next
    <2>1. PICK a \in Keys, p \in Pcbs : InsertFull(a, p)
      BY <1>1, FullIsInsertFull
    <2> QED  BY <2>1, Exhausted DEF InsertFull
  <1>2. CASE UNCHANGED vars
    BY <1>2 DEF vars, NeverFull
  <1> QED  BY <1>1, <1>2

LEMMA FullOnlyWhenExhaustedNext ==
  IInv /\ FullOnlyWhenExhausted /\ [Next]_vars => FullOnlyWhenExhausted'
  <1> SUFFICES ASSUME IInv, FullOnlyWhenExhausted, [Next]_vars,
                      last' = [op |-> "insertBlocked", ret |-> 3],
                      NEW d \in Semds
               PROVE  \E p \in Pcbs : p_semAdd'[p] = s_key'[d] /\ p_semAdd'[p] # NULL
    BY DEF FullOnlyWhenExhausted
  <1>1. CASE Next
    <2>1. PICK a \in Keys, p \in Pcbs : InsertFull(a, p)
      BY <1>1, FullIsInsertFull
    <2>2. semdFree = <<>> /\ UNCHANGED table
      BY <2>1 DEF InsertFull
    <2>3. d \in InUse /\ s_procq[d] # <<>> /\ s_procq[d] \in Seq(Pcbs)
      BY <2>2, EmptyRange DEF IInv, TypeOK, TableInv, DescriptorsConserved
    <2>4. PICK x : x \in Range(s_procq[d])
      BY <2>3, EmptyRange
    <2>5. x \in Pcbs
      BY <2>3, <2>4, RangeOfSeq
    <2>6. p_semAdd[x] = s_key[d] /\ p_semAdd[x] # NULL
      BY <2>4, <2>5 DEF IInv, TableInv, WaitersLinked
    <2> QED  BY <2>2, <2>5, <2>6 DEF table
  <1>2. CASE UNCHANGED vars
    BY <1>2 DEF vars, FullOnlyWhenExhausted
  <1> QED  BY <1>1, <1>2

-----------------------------------------------------------------------------

LEMMA TableInvariant == Spec => []IInv
  BY InitInv, NextInv, PTL DEF Spec

(* The variables of ash.c keep their types.                                *)
THEOREM TypeCorrect == Spec => []TypeOK
  <1>1. IInv => TypeOK
    BY DEF IInv
  <1> QED  BY <1>1, TableInvariant, PTL

(* Every descriptor is free or in a chain, never both and in neither twice,*)
(* in use if and only if a process waits in its queue: insertBlocked,      *)
(* removeBlocked and outBlocked lose none.                                 *)
THEOREM DescriptorsConservedAlways == Spec => []DescriptorsConserved
  <1>1. IInv => DescriptorsConserved
    BY DEF IInv, TableInv
  <1> QED  BY <1>1, TableInvariant, PTL

(* A descriptor in use hangs in the bucket its key hashes to, and no other *)
(* one in use has that key: the search by address finds it.                *)
THEOREM KeysHashedAlways == Spec => []KeysHashed
  <1>1. IInv => KeysHashed
    BY DEF IInv, TableInv
  <1> QED  BY <1>1, TableInvariant, PTL

(* No descriptor is lost or shared, every one in use is found by a search, *)
(* and p_semAdd tells where a process waits: insertBlocked, removeBlocked  *)
(* and outBlocked keep the table consistent, in any order of calls.        *)
THEOREM TableCorrect ==
  Spec => [](DescriptorsConserved /\ KeysHashed /\ WaitersLinked)
  <1>1. IInv => DescriptorsConserved /\ KeysHashed /\ WaitersLinked
    BY DEF IInv, TableInv
  <1> QED  BY <1>1, TableInvariant, PTL

(* MAXPROC descriptors are enough for MAXPROC processes: the result 3 of   *)
(* insertBlocked, which no caller looks at, is never returned.             *)
THEOREM NeverFullAlways == Spec => []NeverFull
  <1>1. Init => NeverFull
    <2>1. [op |-> "initASH", ret |-> NULL].op # [op |-> "insertBlocked", ret |-> 3].op
      OBVIOUS
    <2> QED  BY <2>1 DEF Init, NeverFull
  <1> QED  BY <1>1, TableInvariant, NeverFullNext, PTL DEF Spec

(* However few the descriptors, insertBlocked gives up only when each of   *)
(* them serves a process that waits.                                       *)
THEOREM FullOnlyWhenExhaustedAlways == Spec => []FullOnlyWhenExhausted
  <1>1. Init => FullOnlyWhenExhausted
    <2>1. [op |-> "initASH", ret |-> NULL].op # [op |-> "insertBlocked", ret |-> 3].op
      OBVIOUS
    <2> QED  BY <2>1 DEF Init, FullOnlyWhenExhausted
  <1> QED  BY <1>1, TableInvariant, FullOnlyWhenExhaustedNext, PTL DEF Spec

-----------------------------------------------------------------------------
(* Refinement of the queues of SemQueues.                                  *)
(*                                                                         *)
(* The abstract queue of a semaphore is what a search by its address       *)
(* reads.  Reads says which descriptor that is without mentioning chains;  *)
(* it follows from the invariant before and after a step, so every action  *)
(* is compared with its abstract counterpart through s_key and s_procq.    *)

Reads ==
  \A a \in Keys :
    /\ \A d \in InUse : s_key[d] = a => Queue(a) = s_procq[d]
    /\ (\A d \in InUse : s_key[d] # a) => Queue(a) = <<>>

LEMMA InvReads == IInv => Reads
  <1> SUFFICES ASSUME IInv, NEW a \in Keys
               PROVE  /\ \A d \in InUse : s_key[d] = a => Queue(a) = s_procq[d]
                      /\ (\A d \in InUse : s_key[d] # a) => Queue(a) = <<>>
    BY DEF Reads
  <1>1. /\ HasSemd(a) <=> \E d \in InUse : s_key[d] = a
        /\ \A d \in InUse : s_key[d] = a => SemdOf(a) = d
    BY Search DEF IInv, TableInv
  <1> QED  BY <1>1 DEF Queue

LEMMA StepReads == IInv /\ [Next]_vars => Reads /\ Reads' /\ IInv'
  <1>1. IInv => Reads
    BY InvReads
  <1> QED  BY <1>1, NextInv, PTL

(* A process stands in the queue of the semaphore p_semAdd names, and in   *)
(* no other.                                                               *)
LEMMA WaitsWhere ==
  ASSUME IInv, NEW p \in Pcbs
  PROVE  /\ p_semAdd[p] = NULL => Q!WaitsOn(p) = {}
         /\ p_semAdd[p] # NULL => Q!WaitsOn(p) = {p_semAdd[p]}
  <1>1. \A a \in Keys : p \in Range(Queue(a)) <=> p_semAdd[p] = a
    <2> TAKE a \in Keys
    <2>1. Reads /\ a # NULL
      BY InvReads, AshAssumption
    <2>2. CASE \E d \in InUse : s_key[d] = a
      <3>1. PICK d \in InUse : s_key[d] = a
        BY <2>2
      <3>2. Queue(a) = s_procq[d] /\ d \in Semds
        BY <2>1, <3>1, Places DEF Reads
      <3>3. p \in Range(s_procq[d]) <=> p_semAdd[p] # NULL /\ s_key[d] = p_semAdd[p]
        BY <3>2 DEF IInv, TableInv, WaitersLinked
      <3> QED  BY <2>1, <3>1, <3>2, <3>3
    <2>3. CASE \A d \in InUse : s_key[d] # a
      <3>1. Queue(a) = <<>>
        BY <2>1, <2>3 DEF Reads
      <3>2. p \notin Range(Queue(a))
        BY <3>1, EmptyRange, EmptySeq
      <3>3. p_semAdd[p] # a
        BY <2>1, <2>3, WaiterFacts, Search DEF IInv, TableInv
      <3> QED  BY <3>2, <3>3
    <2> QED  BY <2>2, <2>3
  <1>2. Q!WaitsOn(p) = {a \in Keys : p \in Range(Queue(a))}
    BY DEF Q!WaitsOn, Q!Range, Range
  <1>3. p_semAdd[p] \in Keys \cup {NULL} /\ NULL \notin Keys
    BY AshAssumption DEF IInv, TypeOK
  <1> QED  BY <1>1, <1>2, <1>3

(* What the updates of the table do to the queues.                         *)
LEMMA SameQueues ==
  ASSUME UNCHANGED table
  PROVE  [k \in Keys |-> Queue(k)]' = [k \in Keys |-> Queue(k)]
  BY DEF table, Queue, HasSemd, SemdOf, Matches

LEMMA InsertedQueues ==
  ASSUME IInv, Reads, Reads', NEW a \in Keys, NEW p \in Pcbs,
         InsertKnown(a, p) \/ InsertNew(a, p)
  PROVE  \A k \in Keys :
           Queue(k)' = IF k = a THEN Append(Queue(a), p) ELSE Queue(k)
  <1>1. CASE InsertKnown(a, p)
    <2>1. PICK d \in InUse : s_key[d] = a
      BY <1>1, Search DEF IInv, TableInv, InsertKnown
    <2>2. d \in Semds /\ SemdOf(a) = d
      BY <2>1, Places, Search DEF IInv, TableInv
    <2>3. /\ s_procq' = [s_procq EXCEPT ![d] = Append(s_procq[d], p)]
          /\ s_key' = s_key /\ semd_h' = semd_h
      BY <1>1, <2>2 DEF InsertKnown
    <2>4. InUse' = InUse
      BY <2>3 DEF InUse, Chain
    <2>5. \A e \in Semds :
            s_procq'[e] = IF e = d THEN Append(s_procq[d], p) ELSE s_procq[e]
      <3>1. DOMAIN s_procq = Semds
        BY DEF IInv, TypeOK
      <3> QED
        BY <2>2, <2>3, <3>1
    <2>6. Queue(a)' = Append(Queue(a), p)
      BY <2>1, <2>2, <2>3, <2>4, <2>5 DEF Reads
    <2>7. ASSUME NEW k \in Keys, k # a
          PROVE  Queue(k)' = Queue(k)
      <3>1. CASE \E e \in InUse : s_key[e] = k
        <4>1. PICK e \in InUse : s_key[e] = k
          BY <3>1
        <4>2. e # d /\ e \in Semds
          BY <2>1, <2>7, <4>1, Places
        <4> QED  BY <2>3, <2>4, <2>5, <4>1, <4>2 DEF Reads
      <3>2. CASE \A e \in InUse : s_key[e] # k
        BY <2>3, <2>4, <3>2 DEF Reads
      <3> QED  BY <3>1, <3>2
    <2> QED  BY <2>6, <2>7
  <1>2. CASE InsertNew(a, p)
    <2>0. PICK d : d = Head(semdFree)
      OBVIOUS
    <2>1. d \in Semds /\ d \notin InUse /\ InUse' = InUse \cup {d}
      BY <1>2, <2>0, InsertNewFacts
    <2>2. \A e \in InUse : e \in Semds /\ s_key[e] # a
      BY <1>2, <2>0, InsertNewFacts
    <2>3. \A e \in Semds : /\ s_procq'[e] = IF e = d THEN <<p>> ELSE s_procq[e]
                           /\ s_key'[e] = IF e = d THEN a ELSE s_key[e]
      BY <1>2, <2>0, InsertNewFacts
    <2>4. Queue(a) = <<>> /\ Queue(a)' = <<p>>
      BY <2>1, <2>2, <2>3 DEF Reads
    <2>5. Append(<<>>, p) = <<p>>
      OBVIOUS
    <2>6. ASSUME NEW k \in Keys, k # a
          PROVE  Queue(k)' = Queue(k)
      <3>1. CASE \E e \in InUse : s_key[e] = k
        <4>1. PICK e \in InUse : s_key[e] = k
          BY <3>1
        <4>2. e # d /\ e \in Semds /\ e \in InUse'
          BY <2>1, <2>2, <4>1
        <4> QED  BY <2>3, <4>1, <4>2 DEF Reads
      <3>2. CASE \A e \in InUse : s_key[e] # k
        <4>1. \A e \in InUse' : s_key'[e] # k
          BY <2>1, <2>2, <2>3, <2>6, <3>2
        <4> QED  BY <3>2, <4>1 DEF Reads
      <3> QED  BY <3>1, <3>2
    <2> QED  BY <2>4, <2>5, <2>6
  <1> QED  BY <1>1, <1>2

LEMMA TakenQueues ==
  ASSUME IInv, Reads, Reads',
         NEW d \in InUse, NEW p \in Range(s_procq[d]), NEW q \in Seq(Pcbs),
         NoRepeats(q), Range(q) = Range(s_procq[d]) \ {p}, Taken(d, p, q)
  PROVE  \A k \in Keys : Queue(k)' = IF k = s_key[d] THEN q ELSE Queue(k)
  <1>1. InUse \subseteq Semds /\ s_key' = s_key
    BY TakenFacts
  <1>2. \A e \in Semds : s_procq'[e] = IF e = d THEN q ELSE s_procq[e]
    BY TakenFacts
  <1>3. InUse' = IF q = <<>> THEN InUse \ {d} ELSE InUse
    BY TakenFacts
  <1>4. \A e, f \in InUse : s_key[e] = s_key[f] => e = f
    BY DEF IInv, TableInv, KeysHashed
  <1>5. ASSUME NEW k \in Keys, k = s_key[d]
        PROVE  Queue(k)' = q
    <2>1. CASE q = <<>>
      <3>1. \A e \in InUse' : s_key'[e] # k
        BY <1>1, <1>3, <1>4, <1>5, <2>1
      <3> QED  BY <2>1, <3>1 DEF Reads
    <2>2. CASE q # <<>>
      BY <1>1, <1>2, <1>3, <1>5, <2>2 DEF Reads
    <2> QED  BY <2>1, <2>2
  <1>6. ASSUME NEW k \in Keys, k # s_key[d]
        PROVE  Queue(k)' = Queue(k)
    <2>1. CASE \E e \in InUse : s_key[e] = k
      <3>1. PICK e \in InUse : s_key[e] = k
        BY <2>1
      <3>2. e # d /\ e \in Semds /\ e \in InUse'
        BY <1>1, <1>3, <1>6, <3>1
      <3> QED  BY <1>1, <1>2, <3>1, <3>2 DEF Reads
    <2>2. CASE \A e \in InUse : s_key[e] # k
      <3>1. \A e \in InUse' : s_key'[e] # k
        BY <1>1, <1>3, <2>2
      <3> QED  BY <2>2, <3>1 DEF Reads
    <2> QED  BY <2>1, <2>2
  <1> QED  BY <1>5, <1>6

-----------------------------------------------------------------------------

(* SemQueues has its own copy of the operator that shortens a queue.       *)
LEMMA SameWithout == \A q, S : Q!Without(q, S) = Without(q, S)
  BY Zenon DEF Q!Without, Q!Kept, Q!Rank, Q!Cardinality, Cardinality, Without, Kept, Rank

LEMMA InitQueues == Init => Q!Init
  <1> SUFFICES ASSUME Init
               PROVE  /\ \A a \in Keys : Queue(a) = <<>>
                      /\ last = [op |-> "initASH", ret |-> NULL]
    BY DEF Q!Init
  <1>1. \A b \in Buckets : semd_h[b] = <<>>
    BY DEF Init
  <1>2. DOMAIN <<>> = {}
    OBVIOUS
  <1>3. \A a \in Keys : Matches(a) = {}
    BY <1>1, <1>2, AshAssumption DEF Matches
  <1> QED  BY <1>3 DEF Queue, HasSemd, Init

(* A semaphore with a queue has a descriptor in use, and the other way     *)
(* round: there are as many of the ones as of the others.                  *)
LEMMA ServedCount ==
  ASSUME IInv
  PROVE  /\ InUse \subseteq Semds
         /\ Cardinality(Q!Served) = Cardinality(InUse)
  <1> DEFINE g == [d \in InUse |-> s_key[d]]
  <1>1. InUse \subseteq Semds
    BY Places
  <1>2. \A d \in InUse : s_key[d] \in Keys /\ s_procq[d] # <<>>
    <2> TAKE d \in InUse
    <2>1. PICK b \in Buckets : d \in Chain(b)
      BY DEF InUse
    <2>2. s_key[d] # NULL
      BY <2>1 DEF IInv, TableInv, KeysHashed
    <2> QED  BY <1>1, <2>2 DEF IInv, TypeOK, TableInv, DescriptorsConserved
  <1>3. Q!Served = {a \in Keys : Queue(a) # <<>>}
    BY DEF Q!Served
  <1>4. \A a \in Keys : Queue(a) # <<>> <=> \E d \in InUse : s_key[d] = a
    BY <1>2, InvReads DEF Reads
  <1>5. g \in Bijection(InUse, Q!Served)
    <2>1. g \in [InUse -> Q!Served]
      BY <1>2, <1>3, <1>4
    <2>2. \A d, e \in InUse : g[d] = g[e] => d = e
      BY DEF IInv, TableInv, KeysHashed
    <2>3. \A a \in Q!Served : \E d \in InUse : g[d] = a
      BY <1>3, <1>4
    <2> HIDE DEF g
    <2> QED  BY <2>1, <2>2, <2>3 DEF Bijection, Injection, Surjection, IsInjective
  <1>6. IsFiniteSet(InUse)
    BY <1>1, AshAssumption, FS_Subset
  <1> QED  BY <1>1, <1>5, <1>6, FS_Bijection DEF ExistsBijection

LEMMA SameCardinality == \A S : Q!Cardinality(S) = Cardinality(S)
  BY Zenon DEF Q!Cardinality, Cardinality

(* The descriptors run out just when there is no room for another queue.   *)
LEMMA RoomWhenFree ==
  ASSUME IInv, NEW a \in Keys
  PROVE  /\ HasSemd(a) => Q!Room(a)
         /\ ~HasSemd(a) /\ semdFree # <<>> => Q!Room(a)
         /\ ~HasSemd(a) /\ semdFree = <<>> => ~Q!Room(a)
  <1> DEFINE n == Cardinality(Q!Served)
  <1>1. Q!Room(a) <=> Queue(a) # <<>> \/ n < Cardinality(Semds)
    BY SameCardinality DEF Q!Room
  <1>2. /\ HasSemd(a) => \E d \in InUse : s_key[d] = a
        /\ ~HasSemd(a) => \A d \in InUse : s_key[d] # a
    BY Search DEF IInv, TableInv
  <1>3. /\ InUse \subseteq Semds /\ n = Cardinality(InUse)
        /\ n \in Nat /\ Cardinality(Semds) \in Nat /\ n <= Cardinality(Semds)
        /\ n = Cardinality(Semds) => InUse = Semds
    BY ServedCount, AshAssumption, FS_Subset, FS_CardinalityType
  <1>4. ASSUME HasSemd(a)
        PROVE  Q!Room(a)
    <2>1. PICK d \in InUse : s_key[d] = a
      BY <1>2, <1>4
    <2>2. Queue(a) = s_procq[d] /\ d \in Semds
      BY <2>1, <1>3, InvReads DEF Reads
    <2> QED  BY <1>1, <2>1, <2>2 DEF IInv, TableInv, DescriptorsConserved
  <1>5. ASSUME ~HasSemd(a)
        PROVE  Queue(a) = <<>>
    BY <1>5 DEF Queue
  <1>6. ASSUME semdFree # <<>>
        PROVE  n < Cardinality(Semds)
    <2>1. Head(semdFree) \in Range(semdFree) /\ Range(semdFree) \subseteq Semds
      BY <1>6, TailFacts, RangeOfSeq DEF IInv, TypeOK, TableInv, DescriptorsConserved
    <2>2. Head(semdFree) \notin InUse
      BY <2>1 DEF IInv, TableInv, DescriptorsConserved
    <2> HIDE DEF n
    <2> QED  BY <1>3, <2>1, <2>2
  <1>7. ASSUME semdFree = <<>>
        PROVE  n = Cardinality(Semds)
    <2>1. Range(semdFree) = {}
      BY <1>7, EmptyRange DEF IInv, TypeOK
    <2>2. InUse = Semds
      BY <1>3, <2>1 DEF IInv, TableInv, DescriptorsConserved
    <2> QED  BY <1>3, <2>2
  <1> HIDE DEF n
  <1> QED  BY <1>1, <1>3, <1>4, <1>5, <1>6, <1>7

LEMMA InsertStep ==
  ASSUME IInv, Reads, Reads',
         NEW a \in Keys \cup {NULL}, NEW p \in Pcbs \cup {NULL},
         insertBlocked(a, p)
  PROVE  Q!Insert(a, p)
  <1> DEFINE B == [k \in Keys |-> Queue(k)]
  <1>1. CASE InsertNull(a, p)
    BY <1>1, SameQueues DEF InsertNull, Q!Insert, Q!Returned, Returned
  <1>2. CASE InsertTwice(a, p)
    <2>1. Q!WaitsOn(p) # {} /\ a # NULL /\ p # NULL
      BY <1>2, WaitsWhere DEF InsertTwice
    <2> QED  BY <1>2, <2>1, SameQueues DEF InsertTwice, Q!Insert, Q!Returned, Returned
  <1>3. CASE InsertFull(a, p)
    <2>1. a \in Keys /\ p \in Pcbs /\ p_semAdd[p] = NULL /\ UNCHANGED table
          /\ Returned("insertBlocked", 3)
      BY <1>3 DEF InsertFull
    <2>2. Q!WaitsOn(p) = {} /\ a # NULL /\ p # NULL
      BY <2>1, WaitsWhere, AshAssumption
    <2>3. ~Q!Room(a)
      BY <1>3, <2>1, RoomWhenFree DEF InsertFull
    <2> QED  BY <2>1, <2>2, <2>3, SameQueues DEF Q!Insert, Q!Returned, Returned
  <1>4. CASE InsertKnown(a, p) \/ InsertNew(a, p)
    <2>1. a \in Keys /\ p \in Pcbs /\ p_semAdd[p] = NULL
          /\ Returned("insertBlocked", 0)
      BY <1>4 DEF InsertKnown, InsertNew
    <2>2. Q!WaitsOn(p) = {} /\ a # NULL /\ p # NULL
      BY <2>1, WaitsWhere, AshAssumption
    <2>3. \A k \in Keys : Queue(k)' = IF k = a THEN Append(Queue(a), p) ELSE Queue(k)
      BY <1>4, <2>1, InsertedQueues
    <2>4. B' = [B EXCEPT ![a] = Append(B[a], p)]
      BY <2>1, <2>3
    <2>5. Q!Room(a)
      BY <1>4, <2>1, RoomWhenFree DEF InsertKnown, InsertNew
    <2> QED  BY <2>1, <2>2, <2>4, <2>5 DEF Q!Insert, Q!Returned, Returned
  <1> QED  BY <1>1, <1>2, <1>3, <1>4 DEF insertBlocked

(* The abstract queue of a is empty when removeBlocked finds nobody.       *)
LEMMA RemovableQueue ==
  ASSUME IInv, NEW a \in Keys
  PROVE  /\ CanRemove(a) <=> Queue(a) # <<>>
         /\ CanRemove(a) => Queue(a) = s_procq[SemdOf(a)]
  <1>1. a # NULL
    BY AshAssumption
  <1> QED  BY <1>1 DEF CanRemove, Queue

LEMMA RemoveStep ==
  ASSUME IInv, Reads, Reads', NEW a \in Keys \cup {NULL}, removeBlocked(a)
  PROVE  Q!Remove(a)
  <1> DEFINE B == [k \in Keys |-> Queue(k)]
             d == SemdOf(a)
             q == s_procq[d]
  <1>1. CASE ~CanRemove(a)
    <2>1. Returned("removeBlocked", NULL) /\ UNCHANGED table
      BY <1>1 DEF removeBlocked
    <2>2. a = NULL \/ (a # NULL /\ B[a] = <<>>)
      BY <1>1, RemovableQueue
    <2> QED  BY <2>1, <2>2, SameQueues DEF Q!Remove, Q!Returned, Returned
  <1>2. CASE CanRemove(a)
    <2>1. a \in Keys /\ a # NULL
      BY <1>2 DEF CanRemove
    <2>2. Returned("removeBlocked", Head(q)) /\ Taken(d, Head(q), Tail(q))
      BY <1>2 DEF removeBlocked
    <2>3. /\ d \in InUse /\ s_key[d] = a /\ q \in Seq(Pcbs) /\ q # <<>>
          /\ Head(q) \in Range(q) /\ Tail(q) \in Seq(Pcbs)
          /\ NoRepeats(Tail(q)) /\ Range(Tail(q)) = Range(q) \ {Head(q)}
      BY <1>2, <2>1, RemovedFacts
    <2>4. B[a] = q
      BY <1>2, <2>1, RemovableQueue
    <2> HIDE DEF d, q
    <2>5. \A k \in Keys : Queue(k)' = IF k = s_key[d] THEN Tail(q) ELSE Queue(k)
      BY <2>2, <2>3, TakenQueues DEF q
    <2>6. B' = [B EXCEPT ![a] = Tail(B[a])]
      BY <2>3, <2>4, <2>5
    <2> QED  BY <2>1, <2>2, <2>3, <2>4, <2>6 DEF Q!Remove, Q!Returned, Returned
  <1> QED  BY <1>1, <1>2

LEMMA OutStep ==
  ASSUME IInv, Reads, Reads', NEW p \in Pcbs \cup {NULL}, outBlocked(p)
  PROVE  Q!Out(p)
  <1> DEFINE B == [k \in Keys |-> Queue(k)]
             a == p_semAdd[p]
             d == SemdOf(a)
             q == s_procq[d]
  <1>1. CASE ~(p # NULL /\ p_semAdd[p] # NULL /\ HasSemd(p_semAdd[p]))
    <2>1. Returned("outBlocked", NULL) /\ UNCHANGED table
      BY <1>1 DEF outBlocked
    <2>2. p = NULL \/ (p # NULL /\ Q!WaitsOn(p) = {})
      BY <1>1, WaitsWhere, WaiterFacts
    <2> QED  BY <2>1, <2>2, SameQueues DEF Q!Out, Q!Returned, Returned
  <1>2. CASE p # NULL /\ p_semAdd[p] # NULL /\ HasSemd(p_semAdd[p])
    <2>1. p \in Pcbs /\ a \in Keys
      BY <1>2, WaiterFacts
    <2>2. Returned("outBlocked", p) /\ Taken(d, p, Without(q, {p}))
      BY <1>2 DEF outBlocked
    <2>3. /\ d \in InUse /\ p \in Range(q) /\ q \in Seq(Pcbs)
          /\ Without(q, {p}) \in Seq(Pcbs) /\ NoRepeats(Without(q, {p}))
          /\ Range(Without(q, {p})) = Range(q) \ {p}
      BY <1>2, <2>1, OutFacts
    <2>4. Q!WaitsOn(p) = {a}
      BY <1>2, <2>1, WaitsWhere
    <2>5. s_key[d] = a /\ B[a] = q
      BY <1>2, <2>1, Search DEF IInv, TableInv, Queue
    <2> HIDE DEF a, d, q
    <2>6. \A k \in Keys :
            Queue(k)' = IF k = s_key[d] THEN Without(q, {p}) ELSE Queue(k)
      BY <2>2, <2>3, TakenQueues DEF q
    <2>7. B' = [B EXCEPT ![a] = Q!Without(B[a], {p})]
      BY <2>1, <2>5, <2>6, SameWithout
    <2> QED  BY <1>2, <2>2, <2>4, <2>7 DEF Q!Out, Q!Returned, Returned
  <1> QED  BY <1>1, <1>2

LEMMA PeekStep ==
  ASSUME IInv, NEW a \in Keys \cup {NULL}, headBlocked(a)
  PROVE  Q!Peek(a)
  <1>1. a = NULL => ~CanRemove(a)
    BY DEF CanRemove
  <1>2. a # NULL => /\ CanRemove(a) <=> [k \in Keys |-> Queue(k)][a] # <<>>
                    /\ CanRemove(a) => [k \in Keys |-> Queue(k)][a] = s_procq[SemdOf(a)]
    BY RemovableQueue
  <1> QED  BY <1>1, <1>2, SameQueues DEF headBlocked, Returned, Q!Peek, Q!Returned

LEMMA NextQueues == IInv /\ [Next]_vars => [Q!Next]_(Q!vars)
  <1> SUFFICES ASSUME IInv, [Next]_vars
               PROVE  Q!Next \/ UNCHANGED Q!vars
    OBVIOUS
  <1>1. Reads /\ Reads'
    BY StepReads
  <1>2. CASE Next
    BY <1>1, <1>2, InsertStep, RemoveStep, OutStep, PeekStep DEF Next, Q!Next
  <1>3. CASE UNCHANGED vars
    BY <1>3, SameQueues DEF vars, table, Q!vars
  <1> QED  BY <1>2, <1>3

(* The hash table with its free list is one first-in first-out queue per   *)
(* semaphore address, for as many semaphores at a time as there are        *)
(* descriptors: every call of ash.c answers, and changes, what its         *)
(* abstract counterpart does.                                              *)
THEOREM AshImplementsQueues == Spec => ImplementsQueues
  <1>1. IInv /\ [Next]_vars => [Q!Next]_(Q!vars)
    BY NextQueues
  <1>2. Spec => []IInv
    BY TableInvariant
  <1> QED  BY <1>1, <1>2, InitQueues, PTL DEF Spec, ImplementsQueues, Q!Spec
=============================================================================
