--------------------------- MODULE PcbListsProofs ---------------------------
(***************************************************************************)
(* Proofs about the queues of processes down to the pointers, for any      *)
(* number of processes and queues and any order of calls.                  *)
(*                                                                         *)
(* Wired(m, F) says that the memory m holds the lists F and nothing else;  *)
(* F is then what the traversals read.  Every function takes a memory      *)
(* which is wired to another which is, and does to F what the abstract     *)
(* operation does: the rest follows.                                       *)
(***************************************************************************)
EXTENDS PcbLists, ListProofs

AllHeads == Heads \cup {pcbFree}

(* Every list is a ring behind its head, or has no head yet; no process is *)
(* in two of them, and one that is in none has two null pointers.          *)
Wired(m, F) ==
  /\ m \in Memory(Nodes, NULL)
  /\ F \in [AllHeads -> Seq(Pcbs)]
  /\ \A h \in AllHeads : NoRepeats(F[h])
  /\ \A h \in AllHeads :
       \/ Linked(m, h, F[h])
       \/ h # pcbFree /\ m[h] = Unlinked(NULL) /\ F[h] = <<>>
  /\ \A h, k \in AllHeads : \A p \in Pcbs :
       p \in Range(F[h]) /\ p \in Range(F[k]) => h = k
  /\ \A p \in Pcbs : m[p] = Unlinked(NULL) \/ \E h \in AllHeads : p \in Range(F[h])

(* The lists a memory holds.                                               *)
ListsOf(m) ==
  [h \in AllHeads |-> IF m[h] # Unlinked(NULL) THEN Contents(m, h) ELSE <<>>]

IInv == Wired(list, ListsOf(list))

-----------------------------------------------------------------------------
(* Memories which hold lists.                                              *)

LEMMA NodeFacts ==
  /\ Pcbs \subseteq Nodes /\ AllHeads \subseteq Nodes /\ pcbFree \in AllHeads
  /\ Heads \subseteq AllHeads /\ pcbFree \notin Heads
  /\ NULL \notin Nodes /\ Pcbs \cap AllHeads = {} /\ Nodes = Pcbs \cup AllHeads
  /\ IsFiniteSet(Nodes)
  <1>1. IsFiniteSet(Pcbs \cup Heads)
    BY PcbListsAssumption, FS_Union
  <1>2. IsFiniteSet((Pcbs \cup Heads) \cup {pcbFree})
    BY <1>1, FS_AddElement
  <1> QED
    BY <1>2, PcbListsAssumption DEF Nodes, AllHeads

LEMMA SeqListable ==
  ASSUME NEW h \in AllHeads, NEW q \in Seq(Pcbs), NoRepeats(q)
  PROVE  Listable(Nodes, h, q) /\ Range(q) \subseteq Pcbs
  <1>1. Pcbs \subseteq Nodes \ {h} /\ h \in Nodes
    BY NodeFacts
  <1>2. Len(q) \in Nat /\ DOMAIN q = 1..Len(q) /\ \A i \in 1..Len(q) : q[i] \in Pcbs
    BY LenProperties, ElementOfSeq
  <1>3. q \in Seq(Nodes \ {h})
    BY <1>1, <1>2, IsASeq, LenProperties
  <1> QED
    BY <1>1, <1>2, <1>3 DEF Listable, Range

LEMMA UnlinkedNode ==
  ASSUME NEW m \in Memory(Nodes, NULL), NEW x \in Nodes
  PROVE  m[x] = Unlinked(NULL) <=> m[x].next = NULL /\ m[x].prev = NULL
  BY DEF Memory, Unlinked

LEMMA WiredFacts ==
  ASSUME NEW m, NEW F, Wired(m, F)
  PROVE  /\ m[pcbFree] # Unlinked(NULL)
         /\ \A h \in AllHeads :
              /\ Listable(Nodes, h, F[h]) /\ Range(F[h]) \subseteq Pcbs
              /\ m[h] # Unlinked(NULL) <=> Linked(m, h, F[h])
              /\ m[h] # Unlinked(NULL) => Contents(m, h) = F[h]
              /\ m[h] = Unlinked(NULL) => F[h] = <<>> /\ h # pcbFree
              /\ \A p \in Range(F[h]) : m[p] # Unlinked(NULL) /\ Linked(m, h, F[h])
         /\ F = ListsOf(m)
  <1>0. m \in Memory(Nodes, NULL) /\ DOMAIN m = Nodes
    BY DEF Wired, Memory
  <1>1. \A h \in AllHeads : Listable(Nodes, h, F[h]) /\ Range(F[h]) \subseteq Pcbs
    BY SeqListable DEF Wired
  <1>2. \A h \in AllHeads : Linked(m, h, F[h]) => m[h] # Unlinked(NULL)
    <2> SUFFICES ASSUME NEW h \in AllHeads, Linked(m, h, F[h])
                 PROVE  m[h] # Unlinked(NULL)
      OBVIOUS
    <2>1. m[h].next \in Nodes
      BY <1>1, EmptyLinked
    <2> QED
      BY <2>1, NodeFacts DEF Unlinked
  <1>3. \A h \in AllHeads : m[h] # Unlinked(NULL) <=> Linked(m, h, F[h])
    BY <1>2 DEF Wired
  <1>4. \A h \in AllHeads : m[h] = Unlinked(NULL) => F[h] = <<>> /\ h # pcbFree
    BY <1>2 DEF Wired
  <1>5. \A h \in AllHeads : m[h] # Unlinked(NULL) => Contents(m, h) = F[h]
    BY <1>0, <1>1, <1>3, NodeFacts, ContentsLinked
  <1>6. ASSUME NEW h \in AllHeads, NEW p \in Range(F[h])
        PROVE  m[p] # Unlinked(NULL) /\ Linked(m, h, F[h])
    <2>1. Range(<<>>) = {}
      BY DEF Range
    <2>2. Linked(m, h, F[h])
      BY <1>3, <1>4, <2>1
    <2>3. m[p].next \in Nodes
      BY <1>1, <2>2, EmptyLinked
    <2> QED
      BY <2>2, <2>3, NodeFacts DEF Unlinked
  <1>7. F = ListsOf(m)
    <2>1. F = [h \in AllHeads |-> F[h]]
      BY DEF Wired
    <2>2. \A h \in AllHeads : F[h] = IF m[h] # Unlinked(NULL) THEN Contents(m, h) ELSE <<>>
      BY <1>4, <1>5
    <2> QED
      BY <2>1, <2>2 DEF ListsOf
  <1> QED
    BY <1>1, <1>3, <1>4, <1>5, <1>6, <1>7, NodeFacts

(* A process leaves the list it is in, if any.                             *)
LEMMA WiredDel ==
  ASSUME NEW m, NEW F, Wired(m, F), NEW p \in Pcbs
  PROVE  LET r == list_safe_del(m, p, NULL) IN
         /\ Wired(r, [h \in AllHeads |-> Without(F[h], {p})])
         /\ r[p] = Unlinked(NULL)
         /\ \A h \in AllHeads : r[h] = Unlinked(NULL) <=> m[h] = Unlinked(NULL)
         /\ \A h \in AllHeads : p \notin Range(F[h]) => Without(F[h], {p}) = F[h]
  <1> DEFINE r == list_safe_del(m, p, NULL)
             G == [h \in AllHeads |-> Without(F[h], {p})]
  <1>1. /\ m \in Memory(Nodes, NULL)
        /\ \A h \in AllHeads : F[h] \in Seq(Pcbs) /\ NoRepeats(F[h])
    BY DEF Wired
  <1>2. \A h \in AllHeads : /\ G[h] \in Seq(Pcbs) /\ NoRepeats(G[h])
                            /\ Range(G[h]) = Range(F[h]) \ {p}
    BY <1>1, WithoutRange, WithoutNoRepeats
  <1>3. \A h \in AllHeads : p \notin Range(F[h]) => G[h] = F[h]
    <2> SUFFICES ASSUME NEW h \in AllHeads, p \notin Range(F[h]) PROVE Without(F[h], {p}) = F[h]
      OBVIOUS
    <2> QED
      BY <1>1, WithoutNone
  <1>4. G \in [AllHeads -> Seq(Pcbs)]
    BY <1>2
  <1>5. CASE m[p] = Unlinked(NULL)
    <2>1. r = m
      BY <1>5 DEF list_safe_del
    <2>2. \A h \in AllHeads : p \notin Range(F[h])
      BY <1>5, WiredFacts
    <2>3. G = F
      <3>1. F = [h \in AllHeads |-> F[h]]
        BY DEF Wired
      <3>2. \A h \in AllHeads : Without(F[h], {p}) = F[h]
        BY <1>3, <2>2
      <3> QED
        BY <3>1, <3>2
    <2> HIDE DEF r, G
    <2>4. Wired(r, G)
      BY <2>1, <2>3
    <2> QED
      BY <2>1, <2>4, <1>3, <1>5 DEF r, G
  <1>6. CASE m[p] # Unlinked(NULL)
    <2>1. PICK h \in AllHeads : p \in Range(F[h])
      BY <1>6 DEF Wired
    <2>2. Listable(Nodes, h, F[h]) /\ Linked(m, h, F[h])
      BY <2>1, WiredFacts
    <2>3. /\ r \in Memory(Nodes, NULL) /\ r[p] = Unlinked(NULL)
          /\ Linked(r, h, G[h])
          /\ \A y \in Nodes \ (Range(F[h]) \cup {h}) :
               r[y].next = m[y].next /\ r[y].prev = m[y].prev
      <3>1. m \in Memory(Nodes, NULL) /\ NULL \notin Nodes /\ p \in Nodes
        BY <1>1, NodeFacts
      <3>2. r = list_safe_del(m, p, NULL)
        OBVIOUS
      <3> HIDE DEF r
      <3>3. /\ r \in Memory(Nodes, NULL) /\ r[p].next = NULL /\ r[p].prev = NULL
            /\ Linked(r, h, Without(F[h], {p}))
            /\ \A y \in Nodes \ (Range(F[h]) \cup {h}) :
                 r[y].next = m[y].next /\ r[y].prev = m[y].prev
        BY <2>1, <2>2, <3>1, <3>2, DelLinked
      <3> QED
        BY <3>1, <3>3, UnlinkedNode
    <2>4. \A k \in AllHeads : k # h => p \notin Range(F[k])
      BY <2>1 DEF Wired
    <2> HIDE DEF r, G
    <2>5. \A y \in Nodes \ (Range(F[h]) \cup {h}) : r[y] = Unlinked(NULL) <=> m[y] = Unlinked(NULL)
      BY <1>1, <2>3, UnlinkedNode
    <2>6. ASSUME NEW k \in AllHeads, k # h
          PROVE  /\ r[k] = Unlinked(NULL) <=> m[k] = Unlinked(NULL)
                 /\ Linked(m, k, F[k]) => Linked(r, k, F[k])
      <3>1. Range(F[k]) \cup {k} \subseteq Nodes \ (Range(F[h]) \cup {h})
        <4>1. Range(F[k]) \subseteq Pcbs /\ Range(F[h]) \subseteq Pcbs
          BY WiredFacts
        <4>2. Range(F[k]) \cap Range(F[h]) = {}
          BY <2>6, <4>1 DEF Wired
        <4> QED
          BY <2>6, <4>1, <4>2, NodeFacts
      <3>2. Listable(Nodes, k, F[k])
        BY WiredFacts
      <3>3. Linked(m, k, F[k]) => Linked(r, k, F[k])
        BY <3>1, <3>2, <2>3, LinkedFrame
      <3> QED
        BY <3>1, <3>3, <2>5
    <2>7. r[h] # Unlinked(NULL) /\ m[h] # Unlinked(NULL)
      <3>1. r[h].next \in Nodes
        BY <1>2, <2>3, SeqListable, EmptyLinked
      <3> QED
        BY <3>1, <2>2, NodeFacts, WiredFacts DEF Unlinked
    <2>8. ASSUME NEW x \in Pcbs
          PROVE  r[x] = Unlinked(NULL) \/ \E k \in AllHeads : x \in Range(G[k])
      <3>1. CASE x = p
        BY <2>3, <3>1
      <3>2. CASE x # p /\ x \in Range(F[h])
        BY <3>2, <1>2
      <3>3. CASE x # p /\ x \notin Range(F[h])
        <4>1. x \in Nodes \ (Range(F[h]) \cup {h})
          BY <3>3, NodeFacts
        <4>2. m[x] = Unlinked(NULL) \/ \E k \in AllHeads : x \in Range(F[k])
          BY DEF Wired
        <4> QED
          BY <4>1, <4>2, <2>5, <3>3, <1>2
      <3> QED
        BY <3>1, <3>2, <3>3
    <2>9. \A k \in AllHeads :
            \/ Linked(r, k, G[k])
            \/ k # pcbFree /\ r[k] = Unlinked(NULL) /\ G[k] = <<>>
      <3> SUFFICES ASSUME NEW k \in AllHeads, k # h
                   PROVE  \/ Linked(r, k, G[k])
                          \/ k # pcbFree /\ r[k] = Unlinked(NULL) /\ G[k] = <<>>
        BY <2>3
      <3>1. G[k] = F[k]
        BY <1>3, <2>4
      <3> QED
        BY <3>1, <2>6 DEF Wired
    <2>10. \A k, l \in AllHeads : \A x \in Pcbs :
             x \in Range(G[k]) /\ x \in Range(G[l]) => k = l
      <3>1. \A k, l \in AllHeads : \A x \in Pcbs :
              x \in Range(F[k]) /\ x \in Range(F[l]) => k = l
        BY DEF Wired
      <3>2. \A k \in AllHeads : Range(G[k]) \subseteq Range(F[k])
        BY <1>2
      <3> QED
        BY <3>1, <3>2
    <2>11. Wired(r, G)
      BY <1>2, <1>4, <2>3, <2>8, <2>9, <2>10 DEF Wired
    <2>12. \A k \in AllHeads : r[k] = Unlinked(NULL) <=> m[k] = Unlinked(NULL)
      BY <2>6, <2>7
    <2>13. \A k \in AllHeads : p \notin Range(F[k]) => Without(F[k], {p}) = F[k]
      BY <1>3 DEF G
    <2> QED
      BY <2>3, <2>11, <2>12, <2>13 DEF r, G
  <1> QED
    BY <1>5, <1>6

(* A process which is in no list joins one, at either end.                 *)
LEMMA WiredJoin ==
  ASSUME NEW m, NEW F, Wired(m, F), NEW p \in Pcbs, m[p] = Unlinked(NULL),
         NEW h \in AllHeads, m[h] # Unlinked(NULL),
         NEW q \in Seq(Pcbs), NoRepeats(q), Range(q) = Range(F[h]) \cup {p},
         NEW r \in Memory(Nodes, NULL), Linked(r, h, q),
         \A y \in Nodes \ (Range(F[h]) \cup {h, p}) :
           r[y].next = m[y].next /\ r[y].prev = m[y].prev
  PROVE  /\ Wired(r, [F EXCEPT ![h] = q])
         /\ \A k \in AllHeads : r[k] = Unlinked(NULL) <=> m[k] = Unlinked(NULL)
  <1> DEFINE G == [F EXCEPT ![h] = q]
  <1>1. /\ m \in Memory(Nodes, NULL) /\ F \in [AllHeads -> Seq(Pcbs)]
        /\ \A k \in AllHeads : F[k] \in Seq(Pcbs) /\ NoRepeats(F[k])
    BY DEF Wired
  <1>2. /\ G \in [AllHeads -> Seq(Pcbs)] /\ G[h] = q
        /\ \A k \in AllHeads : k # h => G[k] = F[k]
    BY <1>1
  <1> HIDE DEF G
  <1>3. \A k \in AllHeads : p \notin Range(F[k])
    BY WiredFacts
  <1>4. \A y \in Nodes \ (Range(F[h]) \cup {h, p}) : r[y] = Unlinked(NULL) <=> m[y] = Unlinked(NULL)
    BY <1>1, UnlinkedNode
  <1>5. ASSUME NEW k \in AllHeads, k # h
        PROVE  /\ r[k] = Unlinked(NULL) <=> m[k] = Unlinked(NULL)
               /\ Linked(m, k, F[k]) => Linked(r, k, F[k])
    <2>1. Range(F[k]) \cup {k} \subseteq Nodes \ (Range(F[h]) \cup {h, p})
      <3>1. Range(F[k]) \subseteq Pcbs /\ Range(F[h]) \subseteq Pcbs
        BY WiredFacts
      <3>2. Range(F[k]) \cap Range(F[h]) = {}
        BY <1>5, <3>1 DEF Wired
      <3> QED
        BY <1>3, <1>5, <3>1, <3>2, NodeFacts
    <2>2. Listable(Nodes, k, F[k])
      BY WiredFacts
    <2>3. Linked(m, k, F[k]) => Linked(r, k, F[k])
      BY <2>1, <2>2, LinkedFrame
    <2> QED
      BY <2>1, <2>3, <1>4
  <1>6. r[h] # Unlinked(NULL)
    <2>1. r[h].next \in Nodes
      BY SeqListable, EmptyLinked
    <2> QED
      BY <2>1, NodeFacts DEF Unlinked
  <1>7. ASSUME NEW x \in Pcbs
        PROVE  r[x] = Unlinked(NULL) \/ \E k \in AllHeads : x \in Range(G[k])
    <2>1. CASE x \in Range(q)
      BY <2>1, <1>2
    <2>2. CASE x \notin Range(q)
      <3>1. x \in Nodes \ (Range(F[h]) \cup {h, p})
        BY <2>2, NodeFacts
      <3>2. m[x] = Unlinked(NULL) \/ \E k \in AllHeads : x \in Range(F[k])
        BY DEF Wired
      <3> QED
        BY <2>2, <3>1, <3>2, <1>2, <1>4
    <2> QED
      BY <2>1, <2>2
  <1>8. \A k \in AllHeads :
          \/ Linked(r, k, G[k])
          \/ k # pcbFree /\ r[k] = Unlinked(NULL) /\ G[k] = <<>>
    BY <1>2, <1>5 DEF Wired
  <1>9. \A k, l \in AllHeads : \A x \in Pcbs :
          x \in Range(G[k]) /\ x \in Range(G[l]) => k = l
    BY <1>2, <1>3 DEF Wired
  <1>10. \A k \in AllHeads : NoRepeats(G[k])
    BY <1>1, <1>2
  <1>11. Wired(r, G)
    BY <1>2, <1>7, <1>8, <1>9, <1>10 DEF Wired
  <1> QED
    BY <1>5, <1>6, <1>11 DEF G

LEMMA WiredAdd ==
  ASSUME NEW m, NEW F, Wired(m, F), NEW p \in Pcbs, m[p] = Unlinked(NULL),
         NEW h \in AllHeads, m[h] # Unlinked(NULL)
  PROVE  LET r == list_add(m, p, h)
             t == list_add_tail(m, p, h) IN
         /\ Wired(r, [F EXCEPT ![h] = <<p>> \o F[h]])
         /\ Wired(t, [F EXCEPT ![h] = Append(F[h], p)])
         /\ \A k \in AllHeads : /\ r[k] = Unlinked(NULL) <=> m[k] = Unlinked(NULL)
                                /\ t[k] = Unlinked(NULL) <=> m[k] = Unlinked(NULL)
  <1> DEFINE one == <<p>>
             q == F[h]
             front == one \o q
             back == Append(q, p)
             r == list_add(m, p, h)
             t == list_add_tail(m, p, h)
  <1>1. /\ m \in Memory(Nodes, NULL) /\ q \in Seq(Pcbs) /\ NoRepeats(q)
        /\ Listable(Nodes, h, q) /\ Linked(m, h, q) /\ p \notin Range(q)
    BY WiredFacts DEF Wired
  <1>2. p \in Nodes \ {h}
    BY NodeFacts
  <1>3. /\ r \in Memory(Nodes, NULL) /\ Linked(r, h, front)
        /\ \A y \in Nodes \ (Range(q) \cup {h, p}) :
             r[y].next = m[y].next /\ r[y].prev = m[y].prev
    BY <1>1, <1>2, AddLinked
  <1>4. /\ front \in Seq(Pcbs) /\ NoRepeats(front)
        /\ Range(front) = Range(q) \cup {p}
    BY <1>1, ConsFacts
  <1>5. /\ t \in Memory(Nodes, NULL) /\ Linked(t, h, back)
        /\ \A y \in Nodes \ (Range(q) \cup {h, p}) :
             t[y].next = m[y].next /\ t[y].prev = m[y].prev
    BY <1>1, <1>2, AddTailLinked
  <1>6. /\ back \in Seq(Pcbs) /\ NoRepeats(back)
        /\ Range(back) = Range(q) \cup {p}
    BY <1>1, AppendFacts
  <1> HIDE DEF q, front, back, r, t
  <1>7. /\ Wired(r, [F EXCEPT ![h] = front])
        /\ \A k \in AllHeads : r[k] = Unlinked(NULL) <=> m[k] = Unlinked(NULL)
    BY <1>1, <1>3, <1>4, WiredJoin DEF q
  <1>8. /\ Wired(t, [F EXCEPT ![h] = back])
        /\ \A k \in AllHeads : t[k] = Unlinked(NULL) <=> m[k] = Unlinked(NULL)
    BY <1>1, <1>5, <1>6, WiredJoin DEF q
  <1> QED
    BY <1>7, <1>8, Zenon DEF q, front, back, one, r, t

(* A queue is made.                                                        *)
LEMMA InitFacts ==
  ASSUME NEW m \in Memory(Nodes, NULL), NEW h \in Nodes
  PROVE  /\ INIT_LIST_HEAD(m, h) \in Memory(Nodes, NULL)
         /\ Linked(INIT_LIST_HEAD(m, h), h, <<>>)
         /\ \A y \in Nodes \ {h} : INIT_LIST_HEAD(m, h)[y] = m[y]
  BY LinkedInit

(* The other queues stay as they were.                                     *)
LEMMA WiredInit ==
  ASSUME NEW m, NEW F, Wired(m, F), NEW h \in AllHeads, m[h] = Unlinked(NULL)
  PROVE  Wired(INIT_LIST_HEAD(m, h), F)
  <1> DEFINE r == INIT_LIST_HEAD(m, h)
  <1>1. m \in Memory(Nodes, NULL) /\ F[h] = <<>> /\ h \in Nodes
    BY WiredFacts, NodeFacts DEF Wired
  <1>2. /\ r \in Memory(Nodes, NULL) /\ Linked(r, h, <<>>)
        /\ \A y \in Nodes \ {h} : r[y] = m[y]
    BY <1>1, InitFacts
  <1> HIDE DEF r
  <1>3. ASSUME NEW k \in AllHeads, k # h
        PROVE  /\ r[k] = m[k] 
               /\ Linked(m, k, F[k]) => Linked(r, k, F[k])
    <2>1. Listable(Nodes, k, F[k]) /\ Range(F[k]) \cup {k} \subseteq Nodes \ {h}
      <3>1. Listable(Nodes, k, F[k]) /\ Range(F[k]) \subseteq Pcbs
        BY <1>3, WiredFacts
      <3> QED
        BY <1>3, <3>1, NodeFacts
    <2>2. Linked(m, k, F[k]) => Linked(r, k, F[k])
      <3>1. \A y \in Range(F[k]) \cup {k} : r[y].next = m[y].next /\ r[y].prev = m[y].prev
        BY <2>1, <1>2
      <3> QED
        BY <2>1, <3>1, LinkedFrame
    <2> QED
      BY <2>1, <2>2, <1>2
  <1>4. \A k \in AllHeads :
          \/ Linked(r, k, F[k])
          \/ k # pcbFree /\ r[k] = Unlinked(NULL) /\ F[k] = <<>>
    BY <1>1, <1>2, <1>3 DEF Wired
  <1>5. \A p \in Pcbs : r[p] = m[p]
    BY <1>2, NodeFacts
  <1>6. Wired(r, F)
    BY <1>2, <1>4, <1>5 DEF Wired
  <1> QED
    BY <1>6 DEF r

-----------------------------------------------------------------------------
(* The initial state: initPcbs adds the pcbs one after the other.          *)

Zeros == [n \in Nodes |-> Unlinked(NULL)]
OnlyFree(q) == [h \in AllHeads |-> IF h = pcbFree THEN q ELSE <<>>]

(* The memory after each of the additions.                                 *)
Fills(f, n, t) ==
  f = [i \in 0..n |-> IF i = 0 THEN INIT_LIST_HEAD(Zeros, pcbFree)
                      ELSE list_add(f[i - 1], t[i], pcbFree)]

LEMMA FillsExist ==
  ASSUME NEW N \in Nat, NEW t
  PROVE  \E f : Fills(f, N, t)
  <1> DEFINE D == {n \in 0..N : ~\E f : Fills(f, n, t)}
  <1>1. ASSUME D # {} PROVE FALSE
    <2>1. PICK n \in D : \A k \in D : n <= k
      <3>1. D \in SUBSET Nat
        OBVIOUS
      <3> HIDE DEF D
      <3> QED
        BY <1>1, <3>1, LeastExists
    <2>2. CASE n = 0
      <3> DEFINE a == INIT_LIST_HEAD(Zeros, pcbFree)
                 g == [i \in 0..0 |-> a]
      <3>1. g = [i \in 0..0 |-> IF i = 0 THEN a ELSE list_add(g[i - 1], t[i], pcbFree)]
        OBVIOUS
      <3>2. Fills(g, 0, t)
        BY <3>1 DEF Fills
      <3> QED
        BY <2>1, <2>2, <3>2
    <2>3. CASE n # 0
      <3>1. n \in Nat /\ n - 1 \in 0..N /\ ~(n <= n - 1)
        BY <2>3
      <3>2. PICK f : Fills(f, n - 1, t)
        BY <2>1, <3>1
      <3> DEFINE a == INIT_LIST_HEAD(Zeros, pcbFree)
                 g == [i \in 0..n |-> IF i < n THEN f[i] ELSE list_add(f[n - 1], t[n], pcbFree)]
      <3>3. \A i \in 0..(n - 1) : f[i] = IF i = 0 THEN a ELSE list_add(f[i - 1], t[i], pcbFree)
        BY <3>2 DEF Fills
      <3> HIDE DEF a
      <3>4. \A i \in 0..n : g[i] = IF i = 0 THEN a ELSE list_add(g[i - 1], t[i], pcbFree)
        <4> TAKE i \in 0..n
        <4>1. CASE i < n
          <5>1. i \in 0..(n - 1) /\ g[i] = f[i]
            BY <4>1, <3>1
          <5>2. i # 0 => i - 1 \in 0..n /\ i - 1 < n /\ g[i - 1] = f[i - 1]
            BY <4>1, <3>1
          <5> HIDE DEF g
          <5> QED
            BY <5>1, <5>2, <3>3
        <4>2. CASE ~(i < n)
          <5>1. i = n /\ i # 0 /\ i - 1 \in 0..n /\ i - 1 < n
            BY <4>2, <2>3, <3>1
          <5>2. g[i] = list_add(f[n - 1], t[n], pcbFree) /\ g[i - 1] = f[i - 1]
            BY <5>1
          <5> HIDE DEF g
          <5> QED
            BY <5>1, <5>2
        <4> QED
          BY <4>1, <4>2
      <3>5. g = [i \in 0..n |-> g[i]]
        OBVIOUS
      <3> HIDE DEF g
      <3>6. g = [i \in 0..n |-> IF i = 0 THEN a ELSE list_add(g[i - 1], t[i], pcbFree)]
        BY <3>4, <3>5
      <3>7. Fills(g, n, t)
        BY <3>6 DEF Fills, a
      <3> QED
        BY <2>1, <3>7
    <2> QED
      BY <2>2, <2>3
  <1>2. N \in 0..N
    OBVIOUS
  <1> QED
    BY <1>1, <1>2

LEMMA ZerosWired == Wired(INIT_LIST_HEAD(Zeros, pcbFree), OnlyFree(<<>>))
  <1> DEFINE r == INIT_LIST_HEAD(Zeros, pcbFree)
  <1>1. Zeros \in Memory(Nodes, NULL) /\ \A x \in Nodes : Zeros[x] = Unlinked(NULL)
    BY DEF Zeros, Memory, Unlinked
  <1>2. /\ r \in Memory(Nodes, NULL) /\ Linked(r, pcbFree, <<>>)
        /\ \A y \in Nodes \ {pcbFree} : r[y] = Zeros[y]
    BY <1>1, NodeFacts, LinkedInit
  <1> HIDE DEF r
  <1>3. \A y \in Nodes \ {pcbFree} : r[y] = Unlinked(NULL)
    BY <1>1, <1>2
  <1>4. /\ OnlyFree(<<>>) \in [AllHeads -> Seq(Pcbs)]
        /\ \A h \in AllHeads : OnlyFree(<<>>)[h] = <<>>
    BY EmptySeq DEF OnlyFree
  <1>5. NoRepeats(<<>>) /\ Range(<<>>) = {}
    BY DEF NoRepeats, Range
  <1>6. Wired(r, OnlyFree(<<>>))
    BY <1>2, <1>3, <1>4, <1>5, NodeFacts DEF Wired
  <1> QED
    BY <1>6 DEF r

LEMMA RingWired ==
  ASSUME NEW N \in Nat, NEW t \in [1..N -> Pcbs], NoRepeats(t)
  PROVE  \E q \in Seq(Pcbs) : Len(q) = N /\ Wired(Ring(Zeros, pcbFree, t), OnlyFree(q))
  <1> DEFINE f == CHOOSE g : Fills(g, N, t)
             Good(i) == \E q \in Seq(Pcbs) :
                          /\ Len(q) = i /\ Wired(f[i], OnlyFree(q))
                          /\ \A x \in Range(q) : \E j \in 1..i : t[j] = x
             D == {i \in 0..N : ~Good(i)}
  <1>1. t \in Seq(Pcbs) /\ Len(t) = N /\ DOMAIN t = 1..N
    BY IsASeq, LenProperties
  <1>2. Fills(f, N, t)
    BY FillsExist
  <1>3. Ring(Zeros, pcbFree, t) = f[N]
    BY <1>1, Zenon DEF Ring, Fills
  <1>4. \A i \in 0..N : f[i] = IF i = 0 THEN INIT_LIST_HEAD(Zeros, pcbFree)
                               ELSE list_add(f[i - 1], t[i], pcbFree)
    BY <1>2 DEF Fills
  <1> HIDE DEF f
  <1>5. ASSUME D # {} PROVE FALSE
    <2>1. PICK n \in D : \A k \in D : n <= k
      <3>1. D \in SUBSET Nat
        OBVIOUS
      <3> HIDE DEF D
      <3> QED
        BY <1>5, <3>1, LeastExists
    <2>2. CASE n = 0
      <3>1. f[0] = INIT_LIST_HEAD(Zeros, pcbFree)
        BY <1>4
      <3>2. <<>> \in Seq(Pcbs) /\ Len(<<>>) = 0 /\ Range(<<>>) = {}
        BY EmptySeq DEF Range
      <3>3. Wired(f[0], OnlyFree(<<>>))
        BY <3>1, ZerosWired
      <3>4. Good(0)
        BY <3>2, <3>3
      <3> QED
        BY <2>1, <2>2, <3>4
    <2>3. CASE n # 0
      <3>1. n \in 1..N /\ n - 1 \in 0..N /\ ~(n <= n - 1)
        BY <2>3
      <3>2. Good(n - 1)
        BY <2>1, <3>1
      <3> DEFINE m == f[n - 1]
                 p == t[n]
      <3>3. PICK q \in Seq(Pcbs) :
               /\ Len(q) = n - 1 /\ Wired(m, OnlyFree(q))
               /\ \A x \in Range(q) : \E j \in 1..(n - 1) : t[j] = x
        BY <3>2
      <3>4. p \in Pcbs /\ p \notin Range(q)
        <4>1. \A j \in 1..(n - 1) : t[j] # t[n]
          <5> SUFFICES ASSUME NEW j \in 1..(n - 1) PROVE t[j] # t[n]
            OBVIOUS
          <5>1. j \in 1..N /\ j # n
            BY <3>1
          <5> QED
            BY <5>1, <3>1, <1>1 DEF NoRepeats
        <4> QED
          BY <4>1, <3>1, <3>3
      <3>5. f[n] = list_add(m, p, pcbFree)
        BY <3>1, <1>4
      <3> HIDE DEF m, p
      <3> DEFINE one == <<p>>
                 w == one \o q
      <3>6. m[p] = Unlinked(NULL)
        <4>1. \A h \in AllHeads : p \notin Range(OnlyFree(q)[h])
          BY <3>4 DEF OnlyFree, Range
        <4> QED
          BY <4>1, <3>3, <3>4 DEF Wired
      <3>7. Wired(list_add(m, p, pcbFree), [OnlyFree(q) EXCEPT ![pcbFree] = <<p>> \o OnlyFree(q)[pcbFree]])
        <4> DEFINE E == OnlyFree(q)
        <4>1. Wired(m, E)
          BY <3>3
        <4> HIDE DEF E
        <4>2. m[pcbFree] # Unlinked(NULL) /\ pcbFree \in AllHeads
          BY <4>1, WiredFacts, NodeFacts
        <4>3. Wired(list_add(m, p, pcbFree), [E EXCEPT ![pcbFree] = <<p>> \o E[pcbFree]])
          BY <4>1, <4>2, <3>4, <3>6, WiredAdd
        <4> QED
          BY <4>3 DEF E
      <3>8. OnlyFree(q)[pcbFree] = q
        BY NodeFacts DEF OnlyFree
      <3>9. w \in Seq(Pcbs) /\ Len(w) = n /\ Range(w) = {p} \cup Range(q)
        <4>1. w \in Seq(Pcbs) /\ Range(w) = {p} \cup Range(q)
          BY <3>4, ConsFacts
        <4>2. one \in Seq(Pcbs) /\ Len(one) = 1 /\ q \in Seq(Pcbs)
          BY <3>4
        <4> HIDE DEF one
        <4>3. Len(one \o q) = Len(one) + Len(q)
          BY <4>2, ConcatProperties
        <4>4. Len(w) = 1 + Len(q)
          BY <4>2, <4>3
        <4> HIDE DEF w
        <4> QED
          BY <4>1, <4>4, <3>1, <3>3
      <3>10. Wired(f[n], [OnlyFree(q) EXCEPT ![pcbFree] = w])
        BY <3>5, <3>7, <3>8
      <3> HIDE DEF w
      <3>11. [OnlyFree(q) EXCEPT ![pcbFree] = w] = OnlyFree(w)
        BY NodeFacts DEF OnlyFree
      <3>12. \A x \in Range(w) : \E j \in 1..n : t[j] = x
        <4>1. 1..(n - 1) \subseteq 1..n /\ n \in 1..n /\ t[n] = p
          BY <3>1 DEF p
        <4> QED
          BY <4>1, <3>3, <3>9
      <3>13. Good(n)
        BY <3>9, <3>10, <3>11, <3>12
      <3> QED
        BY <2>1, <3>13
    <2> QED
      BY <2>2, <2>3
  <1>6. Good(N)
    <2>1. N \in 0..N
      OBVIOUS
    <2> HIDE DEF Good
    <2> QED
      BY <1>5, <2>1
  <1> QED
    BY <1>3, <1>6

-----------------------------------------------------------------------------
(* What is seen of the lists before and after a step.                      *)

free == Contents(list, pcbFree)
queue == [h \in Heads |-> IF Made(h) THEN Contents(list, h) ELSE <<>>]

LEMMA SameQueueOps ==
  /\ \A q, S : PQ!Without(q, S) = Without(q, S)
  /\ \A q : PQ!Range(q) = Range(q)
  /\ \A q : PQ!NoRepeats(q) = NoRepeats(q)
  /\ \A S : PQ!Cardinality(S) = Cardinality(S)
  <1>1. \A S : PQ!Cardinality(S) = Cardinality(S)
    BY DEF PQ!Cardinality, Cardinality
  <1>2. \A q, S : PQ!Without(q, S) = Without(q, S)
    BY Zenon DEF PQ!Without, PQ!Kept, PQ!Rank, PQ!Cardinality, Cardinality,
                 Without, Kept, Rank
  <1>3. \A q : PQ!Range(q) = Range(q)
    BY DEF PQ!Range, Range
  <1>4. \A q : PQ!NoRepeats(q) = NoRepeats(q)
    BY DEF PQ!NoRepeats, NoRepeats
  <1> QED
    BY <1>1, <1>2, <1>3, <1>4

LEMMA SeenAs ==
  ASSUME NEW m, NEW F, Wired(m, F)
  PROVE  /\ Contents(m, pcbFree) = F[pcbFree]
         /\ [h \in Heads |-> IF m[h] # Unlinked(NULL) THEN Contents(m, h) ELSE <<>>]
              = [h \in Heads |-> F[h]]
  <1>1. \A h \in AllHeads :
          F[h] = IF m[h] # Unlinked(NULL) THEN Contents(m, h) ELSE <<>>
    BY WiredFacts
  <1>2. m[pcbFree] # Unlinked(NULL)
    BY WiredFacts
  <1> QED
    BY <1>1, <1>2, NodeFacts

LEMMA Seen ==
  ASSUME NEW F, Wired(list, F)
  PROVE  free = F[pcbFree] /\ queue = [h \in Heads |-> F[h]]
  BY SeenAs DEF free, queue, Made

LEMMA SeenNext ==
  ASSUME NEW F, Wired(list', F)
  PROVE  free' = F[pcbFree] /\ queue' = [h \in Heads |-> F[h]]
  BY SeenAs DEF free, queue, Made

(* A queue which is made tells whether it is empty, and its first.         *)
LEMMA MadeQueue ==
  ASSUME NEW F, Wired(list, F), NEW h \in AllHeads, list[h] # Unlinked(NULL)
  PROVE  /\ F[h] \in Seq(Pcbs) /\ NoRepeats(F[h]) /\ Contents(list, h) = F[h]
         /\ list_empty(list, h) <=> F[h] = <<>>
         /\ F[h] # <<>> => /\ list[h].next = Head(F[h])
                           /\ Head(F[h]) \in Range(F[h]) /\ Head(F[h]) \in Pcbs
                           /\ Without(F[h], {Head(F[h])}) = Tail(F[h])
         /\ \A p \in Pcbs : list_contains(list, p, h) <=> p \in Range(F[h])
  <1>1. /\ F[h] \in Seq(Pcbs) /\ NoRepeats(F[h]) /\ Contents(list, h) = F[h]
        /\ Listable(Nodes, h, F[h]) /\ Linked(list, h, F[h]) /\ Range(F[h]) \subseteq Pcbs
    <2>1. F[h] \in Seq(Pcbs) /\ NoRepeats(F[h])
      BY DEF Wired
    <2>2. /\ Listable(Nodes, h, F[h]) /\ Linked(list, h, F[h]) /\ Range(F[h]) \subseteq Pcbs
          /\ Contents(list, h) = F[h]
      BY WiredFacts
    <2> QED
      BY <2>1, <2>2
  <1>2. \A p \in Pcbs : list_contains(list, p, h) <=> p \in Range(F[h])
    BY <1>1 DEF list_contains, Range
  <1>3. F[h] # <<>> => Without(F[h], {Head(F[h])}) = Tail(F[h])
    BY <1>1, WithoutHead
  <1> QED
    BY <1>1, <1>2, <1>3, EmptyLinked

(* A process of one list leaves: the other lists stay as they are.         *)
LEMMA LeaveOne ==
  ASSUME NEW F, Wired(list, F), NEW h \in AllHeads, NEW p \in Range(F[h])
  PROVE  /\ p \in Pcbs
         /\ Wired(list_safe_del(list, p, NULL), [F EXCEPT ![h] = Without(F[h], {p})])
         /\ list_safe_del(list, p, NULL)[p] = Unlinked(NULL)
  <1> DEFINE G == [k \in AllHeads |-> Without(F[k], {p})]
  <1>1. p \in Pcbs
    BY WiredFacts
  <1>2. /\ Wired(list_safe_del(list, p, NULL), G)
        /\ list_safe_del(list, p, NULL)[p] = Unlinked(NULL)
        /\ \A k \in AllHeads : p \notin Range(F[k]) => Without(F[k], {p}) = F[k]
    <2>1. LET d == list_safe_del(list, p, NULL) IN
          /\ Wired(d, [k \in AllHeads |-> Without(F[k], {p})])
          /\ d[p] = Unlinked(NULL)
          /\ \A k \in AllHeads : d[k] = Unlinked(NULL) <=> list[k] = Unlinked(NULL)
          /\ \A k \in AllHeads : p \notin Range(F[k]) => Without(F[k], {p}) = F[k]
      BY <1>1, WiredDel
    <2> HIDE DEF G
    <2> QED
      BY <2>1 DEF G
  <1>3. \A k \in AllHeads : k # h => p \notin Range(F[k])
    BY <1>1 DEF Wired
  <1>4. G = [F EXCEPT ![h] = Without(F[h], {p})]
    <2>1. F = [k \in AllHeads |-> F[k]]
      BY DEF Wired
    <2>2. \A k \in AllHeads : k # h => Without(F[k], {p}) = F[k]
      BY <1>2, <1>3
    <2> QED
      BY <2>1, <2>2
  <1> QED
    BY <1>1, <1>2, <1>4

-----------------------------------------------------------------------------
(* The functions, one by one: the memory stays wired, and the lists change *)
(* as those of ProcQueues do.                                              *)

LEMMA MkEmptyStep ==
  ASSUME NEW F, Wired(list, F), NEW h \in Heads, mkEmptyProcQ(h)
  PROVE  Wired(list', F) /\ last' = last
  <1>1. h \in AllHeads
    BY NodeFacts
  <1>2. CASE list_empty(list, h)
    BY <1>2 DEF mkEmptyProcQ
  <1>3. CASE ~list_empty(list, h)
    BY <1>1, <1>3, WiredInit DEF mkEmptyProcQ, Made
  <1> QED
    BY <1>2, <1>3 DEF mkEmptyProcQ

LEMMA AllocStep ==
  ASSUME NEW F, Wired(list, F), allocPcb
  PROVE  (\E G : Wired(list', G)) /\ PQ!Alloc
  <1> DEFINE q == F[pcbFree]
  <1>1. pcbFree \in AllHeads /\ list[pcbFree] # Unlinked(NULL)
    BY NodeFacts, WiredFacts
  <1>2. /\ free = q /\ queue = [h \in Heads |-> F[h]]
        /\ list_empty(list, pcbFree) <=> q = <<>>
    BY <1>1, Seen, MadeQueue
  <1>3. CASE list_empty(list, pcbFree)
    <2>1. list' = list /\ Returned("allocPcb", NULL)
      BY <1>3 DEF allocPcb
    <2>2. Wired(list', F)
      BY <2>1
    <2>3. free' = q /\ queue' = [h \in Heads |-> F[h]]
      BY <2>2, SeenNext
    <2>4. q = <<>>
      BY <1>2, <1>3
    <2>5. PQ!Alloc
      BY <1>2, <2>1, <2>3, <2>4 DEF PQ!Alloc, PQ!Returned, Returned, free, queue
    <2> QED
      BY <2>2, <2>5
  <1>4. CASE ~list_empty(list, pcbFree)
    <2> DEFINE p == list[pcbFree].next
               G == [F EXCEPT ![pcbFree] = Without(q, {p})]
               r == list_safe_del(list, p, NULL)
    <2>1. /\ q # <<>> /\ p = Head(q) /\ p \in Range(q) /\ Without(q, {p}) = Tail(q)
      BY <1>1, <1>2, <1>4, MadeQueue
    <2>2. Wired(r, G) /\ r[p] = Unlinked(NULL) /\ p \in Pcbs
      BY <1>1, <2>1, LeaveOne
    <2>3. list' = [r EXCEPT ![p] = Unlinked(NULL)] /\ Returned("allocPcb", p)
      BY <1>4 DEF allocPcb
    <2> HIDE DEF r
    <2>4. list' = r
      BY <2>2, <2>3 DEF Wired, Memory
    <2>5. Wired(list', G)
      BY <2>2, <2>4
    <2>6. G[pcbFree] = Tail(q) /\ \A h \in Heads : G[h] = F[h]
      BY <1>1, <2>1, NodeFacts DEF Wired
    <2> HIDE DEF G
    <2>7. free' = Tail(q) /\ queue' = [h \in Heads |-> F[h]]
      BY <2>5, <2>6, SeenNext
    <2>8. PQ!Alloc
      BY <1>2, <2>1, <2>3, <2>7 DEF PQ!Alloc, PQ!Returned, Returned, free, queue
    <2> QED
      BY <2>5, <2>8
  <1> QED
    BY <1>3, <1>4

LEMMA FreeStep ==
  ASSUME NEW F, Wired(list, F), NEW p \in Pcbs, freePcb(p)
  PROVE  (\E G : Wired(list', G)) /\ PQ!Free(p)
  <1> DEFINE r == list_safe_del(list, p, NULL)
             E == [h \in AllHeads |-> Without(F[h], {p})]
             G == [E EXCEPT ![pcbFree] = <<p>> \o E[pcbFree]]
  <1>1. /\ Wired(r, E) /\ r[p] = Unlinked(NULL)
        /\ \A h \in AllHeads : r[h] = Unlinked(NULL) <=> list[h] = Unlinked(NULL)
    BY WiredDel, Zenon
  <1>2. pcbFree \in AllHeads /\ r[pcbFree] # Unlinked(NULL)
    BY <1>1, NodeFacts, WiredFacts
  <1>3. list' = list_add(r, p, pcbFree) /\ Returned("freePcb", NULL)
    BY DEF freePcb
  <1> HIDE DEF r
  <1>4. Wired(list', G)
    BY <1>1, <1>2, <1>3, WiredAdd
  <1>5. /\ G[pcbFree] = <<p>> \o Without(F[pcbFree], {p})
        /\ \A h \in Heads : G[h] = Without(F[h], {p})
    BY <1>2, NodeFacts
  <1> HIDE DEF G
  <1>6. /\ free = F[pcbFree] /\ queue = [h \in Heads |-> F[h]]
        /\ free' = G[pcbFree] /\ queue' = [h \in Heads |-> G[h]]
    BY <1>4, Seen, SeenNext
  <1>7. free' = <<p>> \o Without(free, {p}) /\ queue' = [h \in Heads |-> Without(queue[h], {p})]
    BY <1>5, <1>6
  <1>8. PQ!Free(p)
    BY <1>3, <1>7, SameQueueOps, Zenon
    DEF PQ!Free, PQ!Elsewhere, PQ!Returned, Returned, free, queue
  <1> QED
    BY <1>4, <1>8

LEMMA InsertStep ==
  ASSUME NEW F, Wired(list, F), NEW h \in Heads, NEW p \in Pcbs, insertProcQ(h, p)
  PROVE  (\E G : Wired(list', G)) /\ PQ!Insert(h, p)
  <1> DEFINE r == list_safe_del(list, p, NULL)
             E == [k \in AllHeads |-> Without(F[k], {p})]
             G == [E EXCEPT ![h] = Append(E[h], p)]
  <1>1. /\ Wired(r, E) /\ r[p] = Unlinked(NULL)
        /\ \A k \in AllHeads : r[k] = Unlinked(NULL) <=> list[k] = Unlinked(NULL)
    BY WiredDel, Zenon
  <1>2. h \in AllHeads /\ r[h] # Unlinked(NULL)
    BY <1>1, NodeFacts DEF insertProcQ, Made
  <1>3. list' = list_add_tail(r, p, h) /\ Returned("insertProcQ", NULL)
    BY DEF insertProcQ
  <1> HIDE DEF r
  <1>4. Wired(list', G)
    BY <1>1, <1>2, <1>3, WiredAdd
  <1>5. /\ G[pcbFree] = Without(F[pcbFree], {p})
        /\ \A k \in Heads : G[k] = IF k = h THEN Append(Without(F[k], {p}), p)
                                           ELSE Without(F[k], {p})
    BY <1>2, NodeFacts
  <1> HIDE DEF G
  <1>6. /\ free = F[pcbFree] /\ queue = [k \in Heads |-> F[k]]
        /\ free' = G[pcbFree] /\ queue' = [k \in Heads |-> G[k]]
    BY <1>4, Seen, SeenNext
  <1>7. /\ free' = Without(free, {p})
        /\ queue' = [k \in Heads |-> IF k = h THEN Append(Without(queue[k], {p}), p)
                                              ELSE Without(queue[k], {p})]
    BY <1>5, <1>6
  <1>8. PQ!Insert(h, p)
    BY <1>3, <1>7, SameQueueOps, Zenon
    DEF PQ!Insert, PQ!Elsewhere, PQ!Returned, Returned, free, queue
  <1> QED
    BY <1>4, <1>8

(* A process of the queue h leaves.                                        *)
LEMMA LeaveSeen ==
  ASSUME NEW F, Wired(list, F), NEW h \in Heads, NEW p \in Range(F[h]),
         list' = list_safe_del(list, p, NULL)
  PROVE  /\ \E G : Wired(list', G)
         /\ free' = free /\ queue' = [queue EXCEPT ![h] = Without(queue[h], {p})]
  <1> DEFINE w == Without(F[h], {p})
             G == [F EXCEPT ![h] = w]
  <1>1. h \in AllHeads /\ h # pcbFree /\ pcbFree \in AllHeads /\ Heads \subseteq AllHeads
    BY NodeFacts
  <1>2. Wired(list', G)
    BY <1>1, LeaveOne
  <1>3. G[pcbFree] = F[pcbFree] /\ \A k \in Heads : G[k] = IF k = h THEN w ELSE F[k]
    BY <1>1 DEF Wired
  <1> HIDE DEF G
  <1>4. /\ free = F[pcbFree] /\ queue = [k \in Heads |-> F[k]]
        /\ free' = G[pcbFree] /\ queue' = [k \in Heads |-> G[k]]
    BY <1>2, Seen, SeenNext
  <1>5. queue' = [queue EXCEPT ![h] = w] /\ queue[h] = F[h]
    BY <1>3, <1>4
  <1> QED
    BY <1>2, <1>3, <1>4, <1>5

LEMMA RemoveStep ==
  ASSUME NEW F, Wired(list, F), NEW h \in Heads, removeProcQ(h)
  PROVE  (\E G : Wired(list', G)) /\ PQ!Remove(h)
  <1> DEFINE q == F[h]
             p == list[h].next
  <1>1. h \in AllHeads /\ list[h] # Unlinked(NULL)
    BY NodeFacts DEF removeProcQ, Made
  <1>2. /\ free = F[pcbFree] /\ queue = [k \in Heads |-> F[k]] /\ queue[h] = q
        /\ list_empty(list, h) <=> q = <<>>
    BY <1>1, Seen, MadeQueue
  <1>3. CASE list_empty(list, h)
    <2>1. list' = list /\ Returned("removeProcQ", NULL)
      BY <1>3 DEF removeProcQ
    <2>2. Wired(list', F)
      BY <2>1
    <2>3. free' = free /\ queue' = queue
      BY <1>2, <2>2, SeenNext
    <2>4. PQ!Remove(h)
      BY <1>2, <1>3, <2>1, <2>3 DEF PQ!Remove, PQ!Returned, Returned, free, queue
    <2> QED
      BY <2>2, <2>4
  <1>4. CASE ~list_empty(list, h)
    <2>1. /\ q # <<>> /\ p = Head(q) /\ p \in Range(q) /\ Without(q, {p}) = Tail(q)
          /\ list_contains(list, p, h)
      BY <1>1, <1>2, <1>4, MadeQueue
    <2>2. list' = list_safe_del(list, p, NULL) /\ Returned("removeProcQ", p)
      BY <1>4, <2>1 DEF removeProcQ, OutOf
    <2>3. /\ \E G : Wired(list', G)
          /\ free' = free /\ queue' = [queue EXCEPT ![h] = Without(queue[h], {p})]
      BY <2>1, <2>2, LeaveSeen
    <2>4. queue' = [queue EXCEPT ![h] = Tail(queue[h])] /\ p = Head(queue[h]) /\ queue[h] # <<>>
      BY <1>2, <2>1, <2>3
    <2> HIDE DEF p
    <2>5. PQ!Remove(h)
      BY <2>2, <2>3, <2>4, Zenon DEF PQ!Remove, PQ!Returned, Returned, free, queue
    <2> QED
      BY <2>3, <2>5
  <1> QED
    BY <1>3, <1>4

LEMMA OutStep ==
  ASSUME NEW F, Wired(list, F), NEW h \in Heads, NEW p \in Pcbs, outProcQ(h, p)
  PROVE  (\E G : Wired(list', G)) /\ PQ!Out(h, p)
  <1>1. h \in AllHeads /\ list[h] # Unlinked(NULL)
    BY NodeFacts DEF outProcQ, Made
  <1>2. /\ free = F[pcbFree] /\ queue = [k \in Heads |-> F[k]] /\ queue[h] = F[h]
        /\ list_contains(list, p, h) <=> p \in Range(queue[h])
        /\ F[h] \in Seq(Pcbs)
    <2>1. free = F[pcbFree] /\ queue = [k \in Heads |-> F[k]]
      BY Seen
    <2>2. /\ list_contains(list, p, h) <=> p \in Range(F[h])
          /\ F[h] \in Seq(Pcbs)
      BY <1>1, MadeQueue
    <2>3. queue[h] = F[h]
      BY <2>1
    <2> QED
      BY <2>1, <2>2, <2>3
  <1>3. /\ \E G : Wired(list', G)
        /\ free' = free /\ queue' = [queue EXCEPT ![h] = Without(queue[h], {p})]
    <2>1. CASE p \in Range(F[h])
      <3>1. list' = list_safe_del(list, p, NULL)
        BY <1>2, <2>1 DEF outProcQ, OutOf
      <3> QED
        BY <2>1, <3>1, LeaveSeen
    <2>2. CASE p \notin Range(F[h])
      <3>1. list' = list
        BY <1>2, <2>2 DEF outProcQ, OutOf
      <3>2. Wired(list', F)
        BY <3>1
      <3>3. free' = free /\ queue' = queue
        BY <1>2, <3>2, SeenNext
      <3>4. Without(queue[h], {p}) = queue[h]
        BY <1>2, <2>2, WithoutNone
      <3>5. [queue EXCEPT ![h] = queue[h]] = queue
        BY <1>2
      <3> QED
        BY <3>2, <3>3, <3>4, <3>5
    <2> QED
      BY <2>1, <2>2
  <1>4. Returned("outProcQ", IF p \in Range(queue[h]) THEN p ELSE NULL)
    BY <1>2 DEF outProcQ
  <1>5. PQ!Out(h, p)
    BY <1>3, <1>4, SameQueueOps, Zenon
    DEF PQ!Out, PQ!Elsewhere, PQ!Returned, Returned, free, queue
  <1> QED
    BY <1>3, <1>5

LEMMA PeekStep ==
  ASSUME NEW F, Wired(list, F), NEW h \in Heads, headProcQ(h)
  PROVE  Wired(list', F) /\ PQ!Peek(h)
  <1>1. h \in AllHeads /\ list[h] # Unlinked(NULL)
    BY NodeFacts DEF headProcQ, Made
  <1>2. Wired(list', F)
    BY DEF headProcQ
  <1>3. /\ free' = free /\ queue' = queue /\ queue[h] = F[h]
    BY <1>2, Seen, SeenNext
  <1>4. Returned("headProcQ", IF queue[h] = <<>> THEN NULL ELSE Head(queue[h]))
    BY <1>1, <1>3, MadeQueue DEF headProcQ
  <1>5. PQ!Peek(h)
    BY <1>3, <1>4, Zenon DEF PQ!Peek, PQ!Returned, Returned, free, queue
  <1> QED
    BY <1>2, <1>5

-----------------------------------------------------------------------------
(* The inductive invariant, and what follows from it.                      *)

LEMMA WiredIInv ==
  ASSUME NEW F, Wired(list, F)
  PROVE  IInv
  BY WiredFacts DEF IInv

LEMMA WiredIInvNext ==
  ASSUME NEW F, Wired(list', F)
  PROVE  IInv'
  <1>1. F = ListsOf(list')
    BY WiredFacts
  <1> QED
    BY <1>1 DEF IInv, ListsOf, Contents

LEMMA InitStep ==
  ASSUME Init
  PROVE  IInv /\ PQ!Init
  <1>1. Cardinality(Pcbs) \in Nat
    BY PcbListsAssumption, FS_CardinalityType
  <1>2. PICK table \in [1..Cardinality(Pcbs) -> Pcbs] :
           NoRepeats(table) /\ list = Ring(Zeros, pcbFree, table)
    BY DEF Init, Zeros
  <1>3. PICK q \in Seq(Pcbs) : Len(q) = Cardinality(Pcbs) /\ Wired(list, OnlyFree(q))
    BY <1>1, <1>2, RingWired
  <1>4. /\ OnlyFree(q)[pcbFree] = q
        /\ \A h \in Heads : OnlyFree(q)[h] = <<>>
    BY NodeFacts DEF OnlyFree
  <1>5. NoRepeats(q)
    BY <1>3, <1>4, NodeFacts DEF Wired
  <1>6. free = q /\ queue = [h \in Heads |-> <<>>]
    BY <1>3, <1>4, Seen
  <1>7. q \in [1..Cardinality(Pcbs) -> Pcbs]
    BY <1>3
  <1>8. free \in {f \in [1..PQ!Cardinality(Pcbs) -> Pcbs] : PQ!NoRepeats(f)}
    BY <1>5, <1>6, <1>7, SameQueueOps
  <1>9. last = [op |-> "initPcbs", ret |-> NULL]
    BY DEF Init
  <1>10. PQ!Init
    BY <1>6, <1>8, <1>9, Zenon DEF PQ!Init, free, queue
  <1> QED
    BY <1>3, <1>10, WiredIInv

LEMMA NextStep ==
  ASSUME IInv, [Next]_vars
  PROVE  IInv' /\ [PQ!Next]_(PQ!vars)
  <1> DEFINE F == ListsOf(list)
  <1>1. Wired(list, F)
    BY DEF IInv
  <1> HIDE DEF F
  <1>2. ASSUME Wired(list', F), last' = last
        PROVE  IInv' /\ [PQ!Next]_(PQ!vars)
    <2>1. free' = free /\ queue' = queue
      BY <1>1, <1>2, Seen, SeenNext
    <2>2. PQ!vars' = PQ!vars
      BY <2>1, <1>2 DEF PQ!vars, free, queue
    <2> QED
      BY <1>2, <2>2, WiredIInvNext
  <1>3. ASSUME \E G : Wired(list', G), PQ!Next
        PROVE  IInv' /\ [PQ!Next]_(PQ!vars)
    BY <1>3, WiredIInvNext
  <1>4. CASE allocPcb
    BY <1>1, <1>3, <1>4, AllocStep DEF PQ!Next
  <1>5. CASE \E p \in Pcbs : freePcb(p)
    BY <1>1, <1>3, <1>5, FreeStep DEF PQ!Next
  <1>6. CASE \E h \in Heads : mkEmptyProcQ(h)
    BY <1>1, <1>2, <1>6, MkEmptyStep
  <1>7. CASE \E h \in Heads : removeProcQ(h)
    BY <1>1, <1>3, <1>7, RemoveStep DEF PQ!Next
  <1>8. CASE \E h \in Heads : headProcQ(h)
    BY <1>1, <1>3, <1>8, PeekStep DEF PQ!Next
  <1>9. CASE \E h \in Heads, p \in Pcbs : insertProcQ(h, p)
    BY <1>1, <1>3, <1>9, InsertStep DEF PQ!Next
  <1>10. CASE \E h \in Heads, p \in Pcbs : outProcQ(h, p)
    BY <1>1, <1>3, <1>10, OutStep DEF PQ!Next
  <1>11. CASE UNCHANGED vars
    <2>1. list' = list /\ last' = last
      BY <1>11 DEF vars
    <2> QED
      BY <1>1, <1>2, <2>1
  <1> QED
    BY <1>4, <1>5, <1>6, <1>7, <1>8, <1>9, <1>10, <1>11 DEF Next

LEMMA WiredAgrees ==
  ASSUME IInv
  PROVE  LinksAgree
  <1> DEFINE F == ListsOf(list)
  <1>1. Wired(list, F)
    BY DEF IInv
  <1> HIDE DEF F
  <1>2. ASSUME NEW x \in Nodes, list[x] # Unlinked(NULL)
        PROVE  /\ list[x].next \in Nodes /\ list[list[x].next].prev = x
               /\ list[x].prev \in Nodes /\ list[list[x].prev].next = x
               /\ list[list[x].next] # Unlinked(NULL) /\ list[list[x].prev] # Unlinked(NULL)
    <2>1. PICK h \in AllHeads : x \in Range(F[h]) \cup {h} /\ Linked(list, h, F[h])
      <3>1. CASE x \in AllHeads
        BY <3>1, <1>1, <1>2, WiredFacts
      <3>2. CASE x \in Pcbs
        <4>1. PICK h \in AllHeads : x \in Range(F[h])
          BY <3>2, <1>1, <1>2 DEF Wired
        <4> QED
          BY <4>1, <1>1, WiredFacts
      <3> QED
        BY <3>1, <3>2, NodeFacts
    <2>2. Listable(Nodes, h, F[h]) /\ Range(F[h]) \subseteq Pcbs
      BY <1>1, WiredFacts
    <2>3. /\ list[x].next \in Range(F[h]) \cup {h} /\ list[list[x].next].prev = x
          /\ list[x].prev \in Range(F[h]) \cup {h} /\ list[list[x].prev].next = x
      BY <2>1, <2>2, Neighbours
    <2>4. Range(F[h]) \cup {h} \subseteq Nodes
      BY <2>2, NodeFacts
    <2>5. \A y \in Range(F[h]) \cup {h} : list[y] # Unlinked(NULL)
      BY <1>1, <2>1, WiredFacts
    <2> QED
      BY <2>3, <2>4, <2>5
  <1>3. ASSUME NEW n \in Nodes, list[n] = Unlinked(NULL), NEW k \in Nodes
        PROVE  list[k].next # n /\ list[k].prev # n
    <2>1. CASE list[k] = Unlinked(NULL)
      BY <2>1, NodeFacts DEF Unlinked
    <2>2. CASE list[k] # Unlinked(NULL)
      BY <2>2, <1>2, <1>3
    <2> QED
      BY <2>1, <2>2
  <1> QED
    BY <1>2, <1>3 DEF LinksAgree

LEMMA WiredOneRing ==
  ASSUME IInv
  PROVE  OneRing
  <1> DEFINE F == ListsOf(list)
             R == {k \in Heads : Made(k)} \cup {pcbFree}
  <1>1. Wired(list, F)
    BY DEF IInv
  <1> HIDE DEF F
  <1>2. \A k \in R : k \in AllHeads /\ list[k] # Unlinked(NULL) /\ Contents(list, k) = F[k]
    BY <1>1, WiredFacts, NodeFacts DEF Made
  <1>3. \A k \in AllHeads : list[k] # Unlinked(NULL) => k \in R
    BY DEF AllHeads, Made
  <1> HIDE DEF R
  <1>4. ASSUME NEW p \in Pcbs, list[p] # Unlinked(NULL)
        PROVE  \E h \in R : /\ p \in Range(Contents(list, h))
                            /\ \A k \in R : p \in Range(Contents(list, k)) => k = h
    <2>1. PICK h \in AllHeads : p \in Range(F[h])
      BY <1>1, <1>4 DEF Wired
    <2>2. h \in R
      <3>1. Range(<<>>) = {}
        BY DEF Range
      <3>2. list[h] # Unlinked(NULL)
        BY <1>1, <2>1, <3>1, WiredFacts
      <3> QED
        BY <3>2, <1>3
    <2>3. \A k \in R : p \in Range(F[k]) => k = h
      BY <1>1, <1>2, <2>1 DEF Wired
    <2> QED
      BY <2>1, <2>2, <2>3, <1>2
  <1> QED
    BY <1>4 DEF OneRing, R

-----------------------------------------------------------------------------

(* The memory is, in every state, wired to the lists a traversal of it     *)
(* reads: no call of pcb.c ever leaves a ring half linked.                 *)
THEOREM MemoryWired == Spec => []IInv
  <1>1. Init => IInv
    BY InitStep
  <1>2. IInv /\ [Next]_vars => IInv'
    BY NextStep
  <1> QED
    BY <1>1, <1>2, PTL DEF Spec

(* Every node is linked from both sides, or from neither with two null     *)
(* pointers, so that list_safe_del may take a process out of wherever it   *)
(* is (insertProcQ, freePcb, outProcQ).                                    *)
THEOREM LinksAgreeAlways == Spec => []LinksAgree
  BY MemoryWired, WiredAgrees, PTL

(* A linked process is in the ring of exactly one head.                    *)
THEOREM OneRingAlways == Spec => []OneRing
  BY MemoryWired, WiredOneRing, PTL

(* The pointers of pcb.c implement the queues and the free stack of        *)
(* ProcQueues, results of the calls included: the other modules may take   *)
(* the lists for sequences.                                                *)
THEOREM ImplementsProcQueuesAlways == Spec => ImplementsProcQueues
  <1>1. Init => PQ!Init
    BY InitStep
  <1>2. IInv /\ [Next]_vars => [PQ!Next]_(PQ!vars)
    BY NextStep
  <1> QED
    BY <1>1, <1>2, MemoryWired, PTL DEF Spec, ImplementsProcQueues, PQ!Spec
=============================================================================
