----------------------------- MODULE ListProofs -----------------------------
(***************************************************************************)
(* Lemmas about lists, as sequences and as rings of pointers.              *)
(*                                                                         *)
(* The first half is about the operators of Queues: what deleting,         *)
(* appending and taking the head do to the elements of a list and to their *)
(* order.  The second half is about the functions of list.h, for any       *)
(* memory: a list of pointers, as long as it is linked both ways, is the   *)
(* sequence of its nodes, and adding and deleting by address are what the  *)
(* modules which see lists as sequences take them for.                     *)
(***************************************************************************)
EXTENDS Queues, ListHead, FiniteSetTheorems, FunctionTheorems,
        SequenceTheorems, WellFoundedInduction, TLAPS

(* The numbers from 1 to a are a in number.                                *)
LEMMA CountTo ==
  ASSUME NEW a \in Nat
  PROVE  IsFiniteSet(1..a) /\ Cardinality(1..a) = a
  <1>1. Cardinality(1..a) = IF 1 > a THEN 0 ELSE a - 1 + 1
    BY FS_Interval
  <1>2. IsFiniteSet(1..a)
    BY FS_Interval
  <1> QED
    BY <1>1, <1>2

(* The surviving positions of a sequence are a finite set of naturals.     *)
LEMMA KeptFinite ==
  ASSUME NEW T, NEW q \in Seq(T), NEW S
  PROVE  /\ Kept(q, S) \subseteq 1..Len(q)
         /\ IsFiniteSet(Kept(q, S))
         /\ Cardinality(Kept(q, S)) \in Nat
  <1>1. Kept(q, S) \subseteq 1..Len(q)
    BY LenProperties DEF Kept
  <1>2. IsFiniteSet(1..Len(q))
    BY CountTo, LenProperties
  <1> QED  BY <1>1, <1>2, FS_Subset, FS_CardinalityType

(* The ranks of the surviving positions are 1, 2, ... without gaps: every  *)
(* place of the shortened queue is taken by exactly one survivor.          *)
LEMMA RankBijective ==
  ASSUME NEW T, NEW q \in Seq(T), NEW S
  PROVE  LET n == Cardinality(Kept(q, S)) IN
         /\ \A i \in Kept(q, S) : Rank(q, S, i) \in 1..n
         /\ \A i, j \in Kept(q, S) : i < j => Rank(q, S, i) < Rank(q, S, j)
         /\ \A k \in 1..n : \E i \in Kept(q, S) : Rank(q, S, i) = k
  <1> DEFINE K == Kept(q, S)
             n == Cardinality(K)
             r == [i \in K |-> Rank(q, S, i)]
  <1>0. K \subseteq 1..Len(q) /\ IsFiniteSet(K) /\ n \in Nat /\ Len(q) \in Nat
    BY KeptFinite, LenProperties
  <1>1. \A i \in K : i \in Int
    BY <1>0
  <1>2. \A i \in K : Rank(q, S, i) \in Nat /\ 1 <= Rank(q, S, i)
                                        /\ Rank(q, S, i) <= n
    <2>1. SUFFICES ASSUME NEW i \in K
                   PROVE  Rank(q, S, i) \in Nat /\ 1 <= Rank(q, S, i)
                                               /\ Rank(q, S, i) <= n
      OBVIOUS
    <2>2. PICK U : U = {j \in K : j <= i}
      OBVIOUS
    <2>3. U \in SUBSET K /\ i \in U
      BY <1>1, <2>2
    <2>4. IsFiniteSet(U) /\ Cardinality(U) <= n
      BY <2>3, <1>0, FS_Subset
    <2>5. Cardinality(U) \in Nat /\ Cardinality(U) # 0
      BY <2>3, <2>4, FS_EmptySet, FS_CardinalityType
    <2>6. Rank(q, S, i) = Cardinality(U)
      BY <2>2 DEF Rank
    <2> QED  BY <2>4, <2>5, <2>6
  <1>3. \A i, j \in K : i < j => Rank(q, S, i) < Rank(q, S, j)
    <2>1. SUFFICES ASSUME NEW i \in K, NEW j \in K, i < j
                   PROVE  Rank(q, S, i) < Rank(q, S, j)
      OBVIOUS
    <2>2. PICK U : U = {l \in K : l <= i}
      OBVIOUS
    <2>3. PICK V : V = {l \in K : l <= j}
      OBVIOUS
    <2>4. i \in Int /\ j \in Int
      BY <1>1
    <2>5. j \in V /\ j \notin U
      BY <2>1, <2>2, <2>3, <2>4
    <2>6. U \subseteq V
      <3>1. SUFFICES ASSUME NEW l \in K, l <= i
                     PROVE  l <= j
        BY <2>2, <2>3
      <3>2. l \in Int
        BY <1>1
      <3> QED  BY <2>1, <2>4, <3>1, <3>2
    <2>7. IsFiniteSet(V)
      BY <1>0, <2>3, FS_Subset
    <2>8. Cardinality(U) <= Cardinality(V) /\ Cardinality(U) # Cardinality(V)
      BY <2>5, <2>6, <2>7, FS_Subset
    <2>9. Rank(q, S, i) = Cardinality(U) /\ Rank(q, S, j) = Cardinality(V)
      BY <2>2, <2>3 DEF Rank
    <2> QED  BY <1>2, <2>8, <2>9
  <1>4. \A k \in 1..n : \E i \in K : Rank(q, S, i) = k
    <2>1. r \in [K -> 1..n]
      BY <1>0, <1>2
    <2>2. \A i, j \in K : r[i] = r[j] => i = j
      <3>1. SUFFICES ASSUME NEW i \in K, NEW j \in K,
                            Rank(q, S, i) = Rank(q, S, j)
                     PROVE  i = j
        OBVIOUS
      <3>2. i \in Int /\ j \in Int /\ Rank(q, S, i) \in Nat
        BY <1>1, <1>2
      <3>3. ~(i < j) /\ ~(j < i)
        BY <1>3, <3>1, <3>2
      <3> QED  BY <3>2, <3>3
    <2>3. \A i \in K : r[i] = Rank(q, S, i)
      OBVIOUS
    <2> HIDE DEF r
    <2>4. r \in Injection(K, 1..n)
      BY <2>1, <2>2 DEF Injection, IsInjective
    <2>5. IsFiniteSet(1..n) /\ Cardinality(1..n) = n
      BY <1>0, CountTo
    <2>6. r \in Surjection(K, 1..n)
      BY <1>0, <2>4, <2>5, FS_Injection
    <2> QED  BY <2>3, <2>6 DEF Surjection
  <1> QED  BY <1>0, <1>2, <1>3, <1>4

(* Deleting S from a queue leaves a queue with exactly the other elements. *)
THEOREM WithoutRange ==
  ASSUME NEW T, NEW q \in Seq(T), NEW S
  PROVE  /\ Without(q, S) \in Seq(T)
         /\ Range(Without(q, S)) = Range(q) \ S
  <1> DEFINE K == Kept(q, S)
             n == Cardinality(K)
             at(k) == CHOOSE i \in K : Rank(q, S, i) = k
  <1>0. K \subseteq 1..Len(q) /\ n \in Nat /\ DOMAIN q = 1..Len(q)
    BY KeptFinite, LenProperties
  <1>1. \A k \in 1..n : at(k) \in K /\ Rank(q, S, at(k)) = k
    BY RankBijective
  <1>2. \A i \in K : Rank(q, S, i) \in 1..n /\ at(Rank(q, S, i)) = i
    <2>1. SUFFICES ASSUME NEW i \in K
                   PROVE  Rank(q, S, i) \in 1..n /\ at(Rank(q, S, i)) = i
      OBVIOUS
    <2>2. Rank(q, S, i) \in 1..n
      BY RankBijective
    <2> DEFINE j == at(Rank(q, S, i))
    <2>3. j \in K /\ Rank(q, S, j) = Rank(q, S, i)
      BY <1>1, <2>2
    <2> HIDE DEF j
    <2>4. ~(i < j) /\ ~(j < i)
      BY <2>2, <2>3, RankBijective
    <2>5. i \in Int /\ j \in Int
      BY <1>0, <2>3
    <2>6. i = j
      BY <2>4, <2>5
    <2> QED  BY <2>2, <2>6 DEF j
  <1>3. \A i \in K : q[i] \in T /\ q[i] \notin S
    BY <1>0, ElementOfSeq DEF Kept
  <1>4. Without(q, S) = [k \in 1..n |-> q[at(k)]]
    BY DEF Without
  <1> HIDE DEF K, at, n
  <1>5. Without(q, S) \in [1..n -> T]
    BY <1>1, <1>3, <1>4
  <1>6. Without(q, S) \in Seq(T)
    BY <1>0, <1>5, IsASeq
  <1>7. \A x \in Range(Without(q, S)) : x \in Range(q) \ S
    <2>1. SUFFICES ASSUME NEW k \in 1..n
                   PROVE  q[at(k)] \in Range(q) \ S
      BY <1>4 DEF Range
    <2> QED  BY <1>0, <1>1, <1>3 DEF Range
  <1>8. \A x \in Range(q) \ S : x \in Range(Without(q, S))
    <2>1. SUFFICES ASSUME NEW i \in DOMAIN q, q[i] \notin S
                   PROVE  q[i] \in Range(Without(q, S))
      BY DEF Range
    <2>2. i \in K
      BY <2>1 DEF K, Kept
    <2>3. PICK k \in 1..n : at(k) = i
      BY <2>2, <1>2
    <2>4. Without(q, S)[k] = q[i] /\ k \in DOMAIN Without(q, S)
      BY <2>3, <1>4
    <2> QED  BY <2>4 DEF Range
  <1> QED  BY <1>6, <1>7, <1>8

(* Deletion introduces no repetition.                                      *)
THEOREM WithoutNoRepeats ==
  ASSUME NEW T, NEW q \in Seq(T), NEW S, NoRepeats(q)
  PROVE  NoRepeats(Without(q, S))
  <1> DEFINE K == Kept(q, S)
             n == Cardinality(K)
             at(k) == CHOOSE i \in K : Rank(q, S, i) = k
  <1>1. \A k \in 1..n : at(k) \in K /\ Rank(q, S, at(k)) = k
    BY RankBijective
  <1>2. Without(q, S) = [k \in 1..n |-> q[at(k)]]
    BY DEF Without
  <1>3. K \subseteq DOMAIN q
    BY DEF Kept
  <1> HIDE DEF K, at, n
  <1>4. SUFFICES ASSUME NEW a \in 1..n, NEW b \in 1..n, q[at(a)] = q[at(b)]
                 PROVE  a = b
    BY <1>2 DEF NoRepeats
  <1>5. at(a) = at(b)
    BY <1>1, <1>3, <1>4 DEF NoRepeats
  <1> QED  BY <1>1, <1>5

(* Deletion does not reorder the elements that stay.                       *)
THEOREM WithoutOrder ==
  ASSUME NEW T, NEW q \in Seq(T), NEW S, NEW a, NEW b,
         Before(Without(q, S), a, b)
  PROVE  Before(q, a, b)
  <1> DEFINE K == Kept(q, S)
             n == Cardinality(K)
             at(k) == CHOOSE i \in K : Rank(q, S, i) = k
  <1>1. \A k \in 1..n : at(k) \in K /\ Rank(q, S, at(k)) = k
    BY RankBijective
  <1>2. Without(q, S) = [k \in 1..n |-> q[at(k)]]
    BY DEF Without
  <1>3. K \subseteq DOMAIN q /\ K \subseteq Int
    BY KeptFinite DEF Kept
  <1>4. \A i, j \in K : i < j => Rank(q, S, i) < Rank(q, S, j)
    BY RankBijective
  <1>5. \A i \in K : Rank(q, S, i) \in Int
    BY RankBijective
  <1> HIDE DEF K, at, n
  <1>6. PICK k \in 1..n, m \in 1..n :
             k < m /\ q[at(k)] = a /\ q[at(m)] = b
    BY <1>2 DEF Before
  <1>7. at(k) < at(m)
    <2>1. at(k) # at(m) /\ ~(at(m) < at(k))
      BY <1>1, <1>4, <1>6
    <2> QED  BY <1>1, <1>3, <2>1
  <1> QED  BY <1>1, <1>3, <1>6, <1>7 DEF Before

(* Deleting what is not there changes nothing.                             *)
LEMMA WithoutNone ==
  ASSUME NEW T, NEW q \in Seq(T), NEW S, Range(q) \cap S = {}
  PROVE  Without(q, S) = q
  <1> DEFINE K == Kept(q, S)
             n == Len(q)
             at(k) == CHOOSE i \in K : Rank(q, S, i) = k
  <1>1. n \in Nat /\ DOMAIN q = 1..n
    BY LenProperties
  <1>2. K = 1..n
    BY <1>1 DEF Kept, Range
  <1>3. Cardinality(K) = n
    BY <1>1, <1>2, CountTo
  <1>4. \A i \in 1..n : Rank(q, S, i) = i
    <2> TAKE i \in 1..n
    <2>1. {j \in Kept(q, S) : j <= i} = 1..i
      BY <1>1, <1>2
    <2>2. i \in Int /\ Cardinality(1..i) = i
      BY <1>1, CountTo
    <2> QED
      BY <2>1, <2>2 DEF Rank
  <1>5. \A k \in 1..n : at(k) = k
    BY <1>2, <1>4
  <1>6. Without(q, S) = [k \in 1..n |-> q[at(k)]]
    BY <1>3 DEF Without
  <1> HIDE DEF at
  <1>7. Without(q, S) = [k \in 1..n |-> q[k]]
    BY <1>5, <1>6
  <1> QED
    BY <1>1, <1>7, LenProperties

(* Deleting one element: those behind it move up by one place.             *)
LEMMA WithoutOne ==
  ASSUME NEW T, NEW q \in Seq(T), NoRepeats(q), NEW k \in 1..Len(q)
  PROVE  LET w == Without(q, {q[k]}) IN
         /\ w \in Seq(T) /\ Len(w) = Len(q) - 1
         /\ \A i \in 1..Len(w) : w[i] = IF i < k THEN q[i] ELSE q[i + 1]
  <1> DEFINE S == {q[k]}
             K == Kept(q, S)
             n == Len(q)
             at(j) == CHOOSE i \in K : Rank(q, S, i) = j
             w == Without(q, S)
  <1>1. n \in Nat /\ DOMAIN q = 1..n /\ k \in 1..n
    BY LenProperties
  <1>2. K = (1..n) \ {k}
    BY <1>1 DEF Kept, NoRepeats
  <1>3. IsFiniteSet(K) /\ Cardinality(K) = n - 1
    <2>1. IsFiniteSet(1..n) /\ Cardinality(1..n) = n
      BY <1>1, CountTo
    <2>2. /\ IsFiniteSet((1..n) \ {k})
          /\ Cardinality((1..n) \ {k}) = IF k \in 1..n THEN n - 1 ELSE n
      BY <2>1, FS_RemoveElement
    <2> QED
      BY <1>1, <1>2, <2>2
  <1> HIDE DEF K, S
  <1>4. \A i \in K : Rank(q, S, i) = IF i < k THEN i ELSE i - 1
    <2> TAKE i \in K
    <2>0. i \in Int /\ i \in 1..n /\ i # k /\ k \in Int
      BY <1>1, <1>2
    <2>1. {j \in K : j <= i} = (1..i) \ {k}
      BY <1>1, <1>2, <2>0
    <2>2. IsFiniteSet(1..i) /\ Cardinality(1..i) = i
      BY <2>0, CountTo
    <2>3. Cardinality((1..i) \ {k}) = IF k \in 1..i THEN i - 1 ELSE i
      BY <2>2, FS_RemoveElement
    <2>4. k \in 1..i <=> ~(i < k)
      BY <1>1, <2>0
    <2> QED
      BY <2>1, <2>3, <2>4 DEF Rank, K
  <1>5. \A j \in 1..(n - 1) : at(j) = IF j < k THEN j ELSE j + 1
    <2> TAKE j \in 1..(n - 1)
    <2> DEFINE i == IF j < k THEN j ELSE j + 1
    <2>0. j \in Int /\ k \in Int
      BY <1>1
    <2>1. i \in K /\ Rank(q, S, i) = j
      <3>1. CASE j < k
        <4>1. i = j /\ j \in K
          BY <3>1, <2>0, <1>1, <1>2
        <4> QED
          BY <4>1, <3>1, <1>4
      <3>2. CASE ~(j < k)
        <4>1. i = j + 1 /\ j + 1 \in K /\ ~(j + 1 < k) /\ (j + 1) - 1 = j
          BY <3>2, <2>0, <1>1, <1>2
        <4> QED
          BY <4>1, <1>4
      <3> QED
        BY <3>1, <3>2
    <2>2. ASSUME NEW l \in K, Rank(q, S, l) = j
          PROVE  l = i
      <3>1. l \in Int /\ l # k
        BY <1>1, <1>2
      <3>2. j = IF l < k THEN l ELSE l - 1
        BY <2>2, <1>4
      <3> QED
        BY <3>1, <3>2, <2>0
    <2> HIDE DEF i
    <2> QED
      BY <2>1, <2>2 DEF i
  <1>6. w = [j \in 1..(n - 1) |-> q[at(j)]]
    BY <1>3 DEF Without, K
  <1>7. w \in Seq(T)
    BY WithoutRange
  <1>8. DOMAIN w = 1..Len(w) /\ Len(w) \in Nat
    BY <1>7, LenProperties
  <1> HIDE DEF at, w
  <1>9. Len(w) = n - 1
    <2>1. 1..Len(w) = 1..(n - 1)
      BY <1>6, <1>8
    <2>2. n - 1 \in Nat
      BY <1>1
    <2>3. Cardinality(1..Len(w)) = Len(w) /\ Cardinality(1..(n - 1)) = n - 1
      <3>1. \A a \in Nat : Cardinality(1..a) = a
        BY CountTo
      <3> QED
        BY <3>1, <2>2, <1>8
    <2> QED
      BY <2>1, <2>3
  <1>10. \A j \in 1..(n - 1) : w[j] = IF j < k THEN q[j] ELSE q[j + 1]
    BY <1>5, <1>6
  <1> QED
    BY <1>7, <1>9, <1>10 DEF w, S

(* Deleting the first element.                                             *)
LEMMA WithoutHead ==
  ASSUME NEW T, NEW q \in Seq(T), NoRepeats(q), q # <<>>
  PROVE  Without(q, {Head(q)}) = Tail(q)
  <1>1. Len(q) \in Nat /\ Len(q) # 0 /\ 1 \in 1..Len(q) /\ Head(q) = q[1]
    BY LenProperties, EmptySeq
  <1> DEFINE w == Without(q, {q[1]})
  <1>2. /\ w \in Seq(T) /\ Len(w) = Len(q) - 1
        /\ \A i \in 1..Len(w) : w[i] = IF i < 1 THEN q[i] ELSE q[i + 1]
    BY <1>1, WithoutOne
  <1>3. /\ Tail(q) \in Seq(T) /\ Len(Tail(q)) = Len(q) - 1
        /\ \A i \in 1..Len(Tail(q)) : Tail(q)[i] = q[i + 1]
    BY HeadTailProperties
  <1> HIDE DEF w
  <1>4. \A i \in 1..Len(w) : w[i] = Tail(q)[i]
    BY <1>1, <1>2, <1>3
  <1>5. w = Tail(q)
    BY <1>2, <1>3, <1>4, SeqEqual
  <1> QED
    BY <1>1, <1>5 DEF w

(* An empty queue has no elements, and only an empty queue has none.       *)
LEMMA EmptyRange ==
  ASSUME NEW T, NEW q \in Seq(T)
  PROVE  Range(q) = {} <=> q = <<>>
  <1>1. Range(q) = {q[i] : i \in 1..Len(q)}
    BY RangeEquality
  <1>2. Len(q) \in Nat /\ (q # <<>> => Len(q) # 0) /\ Len(<<>>) = 0
    BY LenProperties, EmptySeq
  <1>3. CASE q = <<>>
    BY <1>1, <1>2, <1>3
  <1>4. CASE q # <<>>
    <2>1. 1 \in 1..Len(q)
      BY <1>2, <1>4
    <2> QED  BY <1>1, <1>4, <2>1
  <1> QED  BY <1>3, <1>4

(* Joining the tail of a queue.                                            *)
LEMMA AppendFacts ==
  ASSUME NEW T, NEW q \in Seq(T), NEW x \in T
  PROVE  /\ Append(q, x) \in Seq(T) /\ Append(q, x) # <<>>
         /\ Range(Append(q, x)) = Range(q) \cup {x}
         /\ NoRepeats(q) /\ x \notin Range(q) => NoRepeats(Append(q, x))
  <1> DEFINE r == Append(q, x)
  <1>1. /\ r \in Seq(T) /\ r # <<>> /\ Len(r) = Len(q) + 1
        /\ \A i \in 1..Len(q) : r[i] = q[i]
        /\ r[Len(q) + 1] = x
    BY AppendProperties
  <1>2. /\ Len(q) \in Nat /\ DOMAIN q = 1..Len(q)
        /\ Len(r) \in Nat /\ DOMAIN r = 1..Len(r)
    BY <1>1, LenProperties
  <1> HIDE DEF r
  <1>3. \A i \in DOMAIN r : i \in DOMAIN q \/ i = Len(q) + 1
    BY <1>1, <1>2
  <1>4. DOMAIN q \subseteq DOMAIN r /\ Len(q) + 1 \in DOMAIN r
    BY <1>1, <1>2
  <1>5. Range(r) = Range(q) \cup {x}
    BY <1>1, <1>2, <1>3, <1>4 DEF Range
  <1>6. ASSUME NoRepeats(q), x \notin Range(q)
        PROVE  NoRepeats(r)
    <2>1. \A i \in DOMAIN q : q[i] # x
      BY <1>6 DEF Range
    <2> QED  BY <1>1, <1>2, <1>3, <1>6, <2>1 DEF NoRepeats
  <1> QED  BY <1>1, <1>5, <1>6 DEF r

(* Becoming the head of a list.                                            *)
LEMMA ConsFacts ==
  ASSUME NEW T, NEW q \in Seq(T), NEW x \in T
  PROVE  /\ <<x>> \o q \in Seq(T) /\ <<x>> \o q # <<>>
         /\ Head(<<x>> \o q) = x /\ Tail(<<x>> \o q) = q
         /\ Range(<<x>> \o q) = {x} \cup Range(q)
         /\ NoRepeats(q) /\ x \notin Range(q) => NoRepeats(<<x>> \o q)
  <1> DEFINE r == <<x>> \o q
  <1>1. <<x>> \in Seq(T) /\ Len(<<x>>) = 1 /\ <<x>>[1] = x
    OBVIOUS
  <1>2. Range(<<x>>) = {x}
    <2>1. DOMAIN <<x>> = {1}
      OBVIOUS
    <2> QED  BY <1>1, <2>1, Zenon DEF Range
  <1>3. /\ r \in Seq(T) /\ Len(r) = 1 + Len(q)
        /\ \A i \in 1..(1 + Len(q)) : r[i] = IF i <= 1 THEN <<x>>[i] ELSE q[i - 1]
    BY <1>1, ConcatProperties
  <1>4. Range(r) = {x} \cup Range(q)
    <2>1. \A s \in Seq(T) : Range(s \o q) = Range(s) \cup Range(q)
      BY RangeConcatenation
    <2> QED  BY <1>1, <1>2, <2>1, Zenon
  <1>5. /\ Len(q) \in Nat /\ DOMAIN q = 1..Len(q)
        /\ Len(r) \in Nat /\ DOMAIN r = 1..Len(r)
    BY <1>3, LenProperties
  <1> HIDE DEF r
  <1>6. r[1] = x /\ \A i \in 2..Len(r) : r[i] = q[i - 1] /\ i - 1 \in DOMAIN q
    BY <1>1, <1>3, <1>5
  <1>7. r # <<>>
    BY <1>3, <1>5, EmptySeq
  <1>8. Head(r) = x
    BY <1>3, <1>6, <1>7
  <1>9. Tail(r) = q
    <2>1. /\ Tail(r) \in Seq(T) /\ Len(Tail(r)) = Len(r) - 1
          /\ \A i \in 1..Len(Tail(r)) : Tail(r)[i] = r[i + 1]
      BY <1>3, <1>7, HeadTailProperties
    <2>2. Len(Tail(r)) = Len(q)
      BY <1>3, <1>5, <2>1
    <2>3. \A i \in 1..Len(q) : Tail(r)[i] = q[i]
      <3>1. SUFFICES ASSUME NEW i \in 1..Len(q)
                     PROVE  Tail(r)[i] = q[i]
        OBVIOUS
      <3>2. i + 1 \in 2..Len(r) /\ (i + 1) - 1 = i
        BY <1>3, <1>5
      <3>3. Tail(r)[i] = r[i + 1]
        BY <2>1, <2>2
      <3> QED  BY <1>6, <3>2, <3>3
    <2> QED  BY <2>1, <2>2, <2>3, SeqEqual
  <1>10. ASSUME NoRepeats(q), x \notin Range(q)
         PROVE  NoRepeats(r)
    <2>1. SUFFICES ASSUME NEW i \in DOMAIN r, NEW j \in DOMAIN r, r[i] = r[j]
                   PROVE  i = j
      BY DEF NoRepeats
    <2>2. \A k \in DOMAIN q : q[k] # x
      BY <1>10 DEF Range
    <2>3. (i = 1 \/ i \in 2..Len(r)) /\ (j = 1 \/ j \in 2..Len(r))
      BY <1>5
    <2>4. CASE i = 1 \/ j = 1
      BY <1>6, <2>1, <2>2, <2>3, <2>4
    <2>5. CASE i \in 2..Len(r) /\ j \in 2..Len(r)
      <3>1. i - 1 = j - 1
        BY <1>6, <1>10, <2>1, <2>5 DEF NoRepeats
      <3> QED  BY <2>5, <3>1
    <2> QED  BY <2>3, <2>4, <2>5
  <1> QED  BY <1>3, <1>4, <1>7, <1>8, <1>9, <1>10 DEF r

(* Taking the head off a queue.                                            *)
LEMMA TailFacts ==
  ASSUME NEW T, NEW q \in Seq(T), q # <<>>, NoRepeats(q)
  PROVE  /\ Head(q) \in Range(q) /\ Tail(q) \in Seq(T)
         /\ Range(Tail(q)) = Range(q) \ {Head(q)}
         /\ NoRepeats(Tail(q))
  <1> DEFINE r == Tail(q)
  <1>1. /\ r \in Seq(T) /\ Len(r) = Len(q) - 1
        /\ \A i \in 1..Len(r) : r[i] = q[i + 1]
    BY HeadTailProperties
  <1>2. /\ Len(q) \in Nat /\ DOMAIN q = 1..Len(q) /\ Len(q) # 0
        /\ Len(r) \in Nat /\ DOMAIN r = 1..Len(r)
    BY <1>1, LenProperties, EmptySeq
  <1>3. Head(q) = q[1] /\ 1 \in DOMAIN q
    BY <1>2
  <1> HIDE DEF r
  <1>4. \A i \in DOMAIN r : r[i] = q[i + 1] /\ i + 1 \in DOMAIN q /\ i + 1 # 1
    BY <1>1, <1>2
  <1>5. \A j \in DOMAIN q : j # 1 => j - 1 \in DOMAIN r /\ r[j - 1] = q[j]
    <2>1. SUFFICES ASSUME NEW j \in DOMAIN q, j # 1
                   PROVE  j - 1 \in DOMAIN r /\ r[j - 1] = q[j]
      OBVIOUS
    <2>2. j - 1 \in DOMAIN r /\ (j - 1) + 1 = j
      BY <1>1, <1>2, <2>1
    <2> QED  BY <1>4, <2>2
  <1>6. Range(r) \subseteq Range(q) \ {q[1]}
    BY <1>3, <1>4 DEF Range, NoRepeats
  <1>7. Range(q) \ {q[1]} \subseteq Range(r)
    BY <1>5 DEF Range
  <1>8. NoRepeats(r)
    <2>1. SUFFICES ASSUME NEW i \in DOMAIN r, NEW j \in DOMAIN r, r[i] = r[j]
                   PROVE  i = j
      BY DEF NoRepeats
    <2>2. i + 1 = j + 1
      BY <1>4, <2>1 DEF NoRepeats
    <2> QED  BY <1>2, <2>2
  <1>9. Head(q) \in Range(q)
    BY <1>3 DEF Range
  <1> QED  BY <1>1, <1>3, <1>6, <1>7, <1>8, <1>9 DEF r

(* Two queues put together.                                                *)
LEMMA ConcatFacts ==
  ASSUME NEW T, NEW q \in Seq(T), NEW r \in Seq(T)
  PROVE  /\ q \o r \in Seq(T)
         /\ Range(q \o r) = Range(q) \cup Range(r)
         /\ NoRepeats(q) /\ NoRepeats(r) /\ Range(q) \cap Range(r) = {}
              => NoRepeats(q \o r)
  <1> DEFINE c == q \o r
  <1>1. /\ c \in Seq(T) /\ Len(c) = Len(q) + Len(r)
        /\ \A i \in 1..Len(c) : c[i] = IF i <= Len(q) THEN q[i] ELSE r[i - Len(q)]
    BY ConcatProperties
  <1>2. DOMAIN c = 1..Len(c) /\ DOMAIN q = 1..Len(q) /\ DOMAIN r = 1..Len(r)
        /\ Len(q) \in Nat /\ Len(r) \in Nat /\ Len(c) \in Nat
    BY <1>1, LenProperties
  <1>3. Range(c) \subseteq Range(q) \cup Range(r)
    <2> SUFFICES ASSUME NEW i \in 1..Len(c) PROVE c[i] \in Range(q) \cup Range(r)
      BY <1>2 DEF Range
    <2>1. CASE i <= Len(q)
      BY <2>1, <1>1, <1>2 DEF Range
    <2>2. CASE ~(i <= Len(q))
      <3>1. i - Len(q) \in 1..Len(r)
        BY <2>2, <1>1, <1>2
      <3> QED
        BY <3>1, <2>2, <1>1, <1>2 DEF Range
    <2> QED
      BY <2>1, <2>2
  <1>4. Range(q) \subseteq Range(c)
    <2> SUFFICES ASSUME NEW i \in 1..Len(q) PROVE q[i] \in Range(c)
      BY <1>2 DEF Range
    <2>1. i \in 1..Len(c) /\ c[i] = q[i]
      BY <1>1, <1>2
    <2> QED
      BY <2>1, <1>2 DEF Range
  <1>5. Range(r) \subseteq Range(c)
    <2> SUFFICES ASSUME NEW i \in 1..Len(r) PROVE r[i] \in Range(c)
      BY <1>2 DEF Range
    <2>1. i + Len(q) \in 1..Len(c) /\ c[i + Len(q)] = r[i]
      BY <1>1, <1>2
    <2> QED
      BY <2>1, <1>2 DEF Range
  <1>6. ASSUME NoRepeats(q), NoRepeats(r), Range(q) \cap Range(r) = {}
        PROVE  NoRepeats(c)
    <2> SUFFICES ASSUME NEW i \in 1..Len(c), NEW j \in 1..Len(c), c[i] = c[j]
                 PROVE  i = j
      BY <1>2 DEF NoRepeats
    <2>1. CASE i <= Len(q) /\ j <= Len(q)
      BY <2>1, <1>1, <1>2, <1>6 DEF NoRepeats
    <2>2. CASE ~(i <= Len(q)) /\ ~(j <= Len(q))
      <3>1. i - Len(q) \in 1..Len(r) /\ j - Len(q) \in 1..Len(r)
        BY <2>2, <1>1, <1>2
      <3>2. r[i - Len(q)] = r[j - Len(q)]
        BY <2>2, <1>1
      <3>3. i - Len(q) = j - Len(q)
        BY <3>1, <3>2, <1>2, <1>6 DEF NoRepeats
      <3> QED
        BY <3>3, <1>2
    <2>3. CASE i <= Len(q) /\ ~(j <= Len(q))
      <3>1. i \in DOMAIN q /\ j - Len(q) \in DOMAIN r
        BY <2>3, <1>1, <1>2
      <3>2. c[i] \in Range(q) /\ c[j] \in Range(r)
        BY <3>1, <2>3, <1>1 DEF Range
      <3> QED
        BY <3>2, <1>6
    <2>4. CASE ~(i <= Len(q)) /\ j <= Len(q)
      <3>1. j \in DOMAIN q /\ i - Len(q) \in DOMAIN r
        BY <2>4, <1>1, <1>2
      <3>2. c[j] \in Range(q) /\ c[i] \in Range(r)
        BY <3>1, <2>4, <1>1 DEF Range
      <3> QED
        BY <3>2, <1>6
    <2> QED
      BY <2>1, <2>2, <2>3, <2>4
  <1> QED
    BY <1>1, <1>3, <1>4, <1>5, <1>6

(* A queue of one.                                                         *)
LEMMA SingleFacts ==
  ASSUME NEW T, NEW x \in T
  PROVE  /\ <<x>> \in Seq(T) /\ Range(<<x>>) = {x} /\ NoRepeats(<<x>>)
         /\ <<>> \in Seq(T) /\ Range(<<>>) = {} /\ NoRepeats(<<>>)
  <1>1. <<x>> \in Seq(T) /\ DOMAIN <<x>> = {1} /\ <<x>>[1] = x
    OBVIOUS
  <1>2. <<>> \in Seq(T) /\ Len(<<>>) = 0
    OBVIOUS
  <1>3. DOMAIN <<>> = {}
    OBVIOUS
  <1> QED
    BY <1>1, <1>2, <1>3 DEF Range, NoRepeats

-----------------------------------------------------------------------------
(* The order in a queue.                                                   *)

(* Of two elements one comes before the other.                             *)
LEMMA BeforeTotal ==
  ASSUME NEW T, NEW q \in Seq(T), NEW a \in Range(q), NEW b \in Range(q), a # b
  PROVE  Before(q, a, b) \/ Before(q, b, a)
  <1>1. PICK i \in DOMAIN q, j \in DOMAIN q : q[i] = a /\ q[j] = b
    BY DEF Range
  <1>2. i \in Int /\ j \in Int /\ i # j
    BY <1>1, LenProperties
  <1>3. i < j \/ j < i
    BY <1>2
  <1> QED
    BY <1>1, <1>3 DEF Before

(* Not both come before each other, if none is linked twice.               *)
LEMMA BeforeOneWay ==
  ASSUME NEW T, NEW q \in Seq(T), NoRepeats(q), NEW a, NEW b, Before(q, a, b)
  PROVE  a \in Range(q) /\ b \in Range(q) /\ a # b /\ ~Before(q, b, a)
  <1>1. PICK i \in DOMAIN q, j \in DOMAIN q : i < j /\ q[i] = a /\ q[j] = b
    BY DEF Before
  <1>2. DOMAIN q \subseteq Int
    BY LenProperties
  <1>3. a # b
    BY <1>1, <1>2 DEF NoRepeats
  <1>4. ASSUME Before(q, b, a) PROVE FALSE
    <2>1. PICK k \in DOMAIN q, m \in DOMAIN q : k < m /\ q[k] = b /\ q[m] = a
      BY <1>4 DEF Before
    <2>2. k = j /\ m = i
      BY <1>1, <2>1 DEF NoRepeats
    <2> QED
      BY <1>1, <1>2, <2>1, <2>2
  <1> QED
    BY <1>1, <1>3, <1>4 DEF Range

(* Joining a queue behind another.                                         *)
LEMMA BeforeConcat ==
  ASSUME NEW T, NEW q \in Seq(T), NEW r \in Seq(T), NEW a, NEW b
  PROVE  /\ Before(q, a, b) => Before(q \o r, a, b)
         /\ a \in Range(q) /\ b \in Range(r) => Before(q \o r, a, b)
  <1> DEFINE c == q \o r
  <1>1. /\ c \in Seq(T) /\ Len(c) = Len(q) + Len(r)
        /\ \A i \in 1..Len(c) : c[i] = IF i <= Len(q) THEN q[i] ELSE r[i - Len(q)]
    BY ConcatProperties
  <1>2. DOMAIN c = 1..Len(c) /\ DOMAIN q = 1..Len(q) /\ DOMAIN r = 1..Len(r)
        /\ Len(q) \in Nat /\ Len(r) \in Nat /\ Len(c) \in Nat
    BY <1>1, LenProperties
  <1> HIDE DEF c
  <1>3. \A i \in DOMAIN q : i \in DOMAIN c /\ c[i] = q[i]
    BY <1>1, <1>2
  <1>4. \A j \in DOMAIN r : Len(q) + j \in DOMAIN c /\ c[Len(q) + j] = r[j]
    <2> SUFFICES ASSUME NEW j \in DOMAIN r
                 PROVE  Len(q) + j \in DOMAIN c /\ c[Len(q) + j] = r[j]
      OBVIOUS
    <2>1. Len(q) + j \in 1..Len(c) /\ ~(Len(q) + j <= Len(q)) /\ (Len(q) + j) - Len(q) = j
      BY <1>1, <1>2
    <2> QED
      BY <1>1, <1>2, <2>1
  <1>5. \A i \in DOMAIN q, j \in DOMAIN r : i < Len(q) + j
    BY <1>2
  <1>6. Before(q, a, b) => Before(c, a, b)
    BY <1>3 DEF Before
  <1>7. ASSUME a \in Range(q), b \in Range(r) PROVE Before(c, a, b)
    <2>1. PICK i \in DOMAIN q, j \in DOMAIN r : q[i] = a /\ r[j] = b
      BY <1>7 DEF Range
    <2> QED
      BY <1>3, <1>4, <1>5, <2>1 DEF Before
  <1> QED
    BY <1>6, <1>7 DEF c

(* Taking the head off.                                                    *)
LEMMA BeforeTail ==
  ASSUME NEW T, NEW q \in Seq(T), q # <<>>, NoRepeats(q), NEW a, NEW b
  PROVE  /\ Before(q, a, b) => b # Head(q)
         /\ Before(Tail(q), a, b) <=> Before(q, a, b) /\ a # Head(q)
  <1> DEFINE r == Tail(q)
  <1>1. /\ r \in Seq(T) /\ Len(r) = Len(q) - 1
        /\ \A i \in 1..Len(r) : r[i] = q[i + 1]
    BY HeadTailProperties
  <1>2. /\ Len(q) \in Nat /\ DOMAIN q = 1..Len(q) /\ Len(q) # 0
        /\ Len(r) \in Nat /\ DOMAIN r = 1..Len(r)
    BY <1>1, LenProperties, EmptySeq
  <1>3. Head(q) = q[1] /\ 1 \in DOMAIN q
    BY <1>2
  <1> HIDE DEF r
  <1>4. ASSUME NEW i \in DOMAIN r, NEW j \in DOMAIN r, i < j
        PROVE  /\ i + 1 \in DOMAIN q /\ j + 1 \in DOMAIN q /\ i + 1 < j + 1
               /\ i + 1 # 1 /\ r[i] = q[i + 1] /\ r[j] = q[j + 1]
    <2>1. /\ i + 1 \in DOMAIN q /\ j + 1 \in DOMAIN q /\ i + 1 < j + 1 /\ i + 1 # 1
      BY <1>1, <1>2, <1>4
    <2> QED
      BY <1>1, <1>2, <2>1
  <1>5. ASSUME NEW i \in DOMAIN q, NEW j \in DOMAIN q, i < j
        PROVE  /\ j # 1
               /\ i # 1 => /\ i - 1 \in DOMAIN r /\ j - 1 \in DOMAIN r /\ i - 1 < j - 1
                           /\ r[i - 1] = q[i] /\ r[j - 1] = q[j]
    <2>1. i \in Int /\ j \in Int /\ j # 1 /\ j - 1 \in 1..Len(r)
          /\ (j - 1) + 1 = j /\ (i - 1) + 1 = i /\ i - 1 < j - 1
      BY <1>1, <1>2, <1>5
    <2>2. i # 1 => i - 1 \in 1..Len(r)
      BY <1>1, <1>2, <1>5
    <2> QED
      BY <1>1, <1>2, <2>1, <2>2
  <1>6. Before(q, a, b) => b # Head(q)
    BY <1>3, <1>5 DEF Before, NoRepeats
  <1>7. Before(q, a, b) /\ a # Head(q) => Before(r, a, b)
    BY <1>3, <1>5 DEF Before
  <1>8. Before(r, a, b) => Before(q, a, b) /\ a # Head(q)
    <2> SUFFICES ASSUME Before(r, a, b) PROVE Before(q, a, b) /\ a # Head(q)
      OBVIOUS
    <2>1. PICK i \in DOMAIN r, j \in DOMAIN r : i < j /\ r[i] = a /\ r[j] = b
      BY DEF Before
    <2>2. /\ i + 1 \in DOMAIN q /\ j + 1 \in DOMAIN q /\ i + 1 < j + 1
          /\ i + 1 # 1 /\ a = q[i + 1] /\ b = q[j + 1]
      BY <1>4, <2>1
    <2> QED
      BY <1>3, <2>2 DEF Before, NoRepeats
  <1> QED
    BY <1>6, <1>7, <1>8 DEF r

(* Deletion keeps the order of those that stay.                            *)
LEMMA BeforeWithout ==
  ASSUME NEW T, NEW q \in Seq(T), NoRepeats(q), NEW S, NEW a, NEW b,
         Before(q, a, b), a \notin S, b \notin S
  PROVE  Before(Without(q, S), a, b)
  <1> DEFINE w == Without(q, S)
  <1>1. a \in Range(q) /\ b \in Range(q) /\ a # b /\ ~Before(q, b, a)
    BY BeforeOneWay
  <1>2. w \in Seq(T) /\ Range(w) = Range(q) \ S
    BY WithoutRange
  <1>3. Before(w, b, a) => Before(q, b, a)
    BY WithoutOrder
  <1> HIDE DEF w
  <1> QED
    BY <1>1, <1>2, <1>3, BeforeTotal DEF w

-----------------------------------------------------------------------------
(* The memories whose pointers lead into S or nowhere.                     *)
Memory(S, nil) == [S -> [next : S \cup {nil}, prev : S \cup {nil}]]

(* The i-th node behind the head h of the nodes q; the head closes the     *)
(* ring at either end.                                                     *)
Nth(q, h, i) == IF i \in 1..Len(q) THEN q[i] ELSE h

(* The memory m links h and the nodes of q, in this order, into a ring.    *)
Linked(m, h, q) ==
  \A i \in 0..Len(q) : /\ m[Nth(q, h, i)].next = Nth(q, h, i + 1)
                       /\ m[Nth(q, h, i + 1)].prev = Nth(q, h, i)

(* The next pointers alone lead from h through q back to h.                *)
Leads(m, h, q) == \A i \in 0..Len(q) : m[Nth(q, h, i)].next = Nth(q, h, i + 1)

(* q can be the nodes of a list with head h in a memory over S.            *)
Listable(S, h, q) == h \in S /\ q \in Seq(S \ {h}) /\ NoRepeats(q)

-----------------------------------------------------------------------------
(* Induction: a set of naturals which is not empty has a least element.    *)
LEMMA LeastExists ==
  ASSUME NEW D \in SUBSET Nat, D # {}
  PROVE  \E i \in D : \A j \in D : i <= j
  <1> DEFINE T == {0..i : i \in D}
             R == StrictSubsetOrdering(Nat)
  <1>1. \A i \in Nat : 0..i \in FiniteSubsetsOf(Nat)
    <2> TAKE i \in Nat
    <2>1. IsFiniteSet(0..i)
      BY FS_Interval
    <2>2. 0..i \in SUBSET Nat
      OBVIOUS
    <2> QED
      BY <2>1, <2>2 DEF FiniteSubsetsOf
  <1>2. T \subseteq FiniteSubsetsOf(Nat) /\ T # {}
    BY <1>1, Zenon
  <1>3. PICK x \in T : \A y \in T : <<y, x>> \notin R
    <2>1. IsWellFoundedOn(R, FiniteSubsetsOf(Nat))
      BY FS_StrictSubsetOrderingWellFounded
    <2> HIDE DEF T, R
    <2> QED
      BY <2>1, <1>2, WFMin
  <1>4. PICK i \in D : x = 0..i
    BY <1>3
  <1>5. ASSUME NEW j \in D, j < i PROVE FALSE
    <2>1. 0..j \in T /\ 0..j \subseteq 0..i /\ i \notin 0..j /\ i \in 0..i
      BY <1>5
    <2>2. 0..j \in SUBSET Nat /\ 0..i \in SUBSET Nat
      BY <1>5
    <2>3. <<0..j, 0..i>> \in R
      BY <2>1, <2>2 DEF StrictSubsetOrdering
    <2> QED
      BY <1>3, <1>4, <2>1, <2>3
  <1> QED
    BY <1>5

-----------------------------------------------------------------------------
(* The pointers after the assignments.                                     *)

LEMMA SetNext ==
  ASSUME NEW S, NEW nil, NEW m \in Memory(S, nil), NEW x \in S, NEW v \in S \cup {nil}
  PROVE  LET r == [m EXCEPT ![x].next = v] IN
         /\ r \in Memory(S, nil)
         /\ \A y \in S : /\ r[y].next = IF y = x THEN v ELSE m[y].next
                         /\ r[y].prev = m[y].prev
  BY DEF Memory

LEMMA SetPrev ==
  ASSUME NEW S, NEW nil, NEW m \in Memory(S, nil), NEW x \in S, NEW v \in S \cup {nil}
  PROVE  LET r == [m EXCEPT ![x].prev = v] IN
         /\ r \in Memory(S, nil)
         /\ \A y \in S : /\ r[y].prev = IF y = x THEN v ELSE m[y].prev
                         /\ r[y].next = m[y].next
  BY DEF Memory

LEMMA SetNode ==
  ASSUME NEW S, NEW nil, NEW m \in Memory(S, nil), NEW x \in S,
         NEW v \in S \cup {nil}, NEW w \in S \cup {nil}
  PROVE  LET r == [m EXCEPT ![x] = [next |-> v, prev |-> w]] IN
         /\ r \in Memory(S, nil)
         /\ \A y \in S : /\ r[y].next = IF y = x THEN v ELSE m[y].next
                         /\ r[y].prev = IF y = x THEN w ELSE m[y].prev
  BY DEF Memory

LEMMA LinkPointers ==
  ASSUME NEW S, NEW nil, NEW m \in Memory(S, nil),
         NEW new \in S, NEW prv \in S, NEW nxt \in S
  PROVE  LET r == list_link(m, new, prv, nxt) IN
         /\ r \in Memory(S, nil)
         /\ \A y \in S :
              /\ r[y].next = IF y = prv THEN new ELSE IF y = new THEN nxt ELSE m[y].next
              /\ r[y].prev = IF y = new THEN prv ELSE IF y = nxt THEN new ELSE m[y].prev
  <1> DEFINE a == [m EXCEPT ![nxt].prev = new]
             b == [a EXCEPT ![new].next = nxt]
             c == [b EXCEPT ![new].prev = prv]
             d == [c EXCEPT ![prv].next = new]
  <1>1. list_link(m, new, prv, nxt) = d
    BY DEF list_link
  <1>2. /\ a \in Memory(S, nil)
        /\ \A y \in S : /\ a[y].prev = IF y = nxt THEN new ELSE m[y].prev
                        /\ a[y].next = m[y].next
    BY SetPrev
  <1> HIDE DEF a
  <1>3. /\ b \in Memory(S, nil)
        /\ \A y \in S : /\ b[y].next = IF y = new THEN nxt ELSE a[y].next
                        /\ b[y].prev = a[y].prev
    BY <1>2, SetNext
  <1> HIDE DEF b
  <1>4. /\ c \in Memory(S, nil)
        /\ \A y \in S : /\ c[y].prev = IF y = new THEN prv ELSE b[y].prev
                        /\ c[y].next = b[y].next
    BY <1>3, SetPrev
  <1> HIDE DEF c
  <1>5. /\ d \in Memory(S, nil)
        /\ \A y \in S : /\ d[y].next = IF y = prv THEN new ELSE c[y].next
                        /\ d[y].prev = c[y].prev
    BY <1>4, SetNext
  <1> HIDE DEF d
  <1> QED
    BY <1>1, <1>2, <1>3, <1>4, <1>5

LEMMA DelPointers ==
  ASSUME NEW S, NEW nil, NEW m \in Memory(S, nil), NEW x \in S,
         m[x].prev \in S, m[x].next \in S
  PROVE  LET r == list_del(m, x, nil)
             p == m[x].prev
             n == m[x].next IN
         /\ r \in Memory(S, nil)
         /\ \A y \in S :
              /\ r[y].next = IF y = x THEN nil ELSE IF y = p THEN n ELSE m[y].next
              /\ r[y].prev = IF y = x THEN nil ELSE IF y = n THEN p ELSE m[y].prev
  <1> DEFINE p == m[x].prev
             n == m[x].next
             a == [m EXCEPT ![n].prev = p]
             b == [a EXCEPT ![p].next = n]
             c == [b EXCEPT ![x] = [next |-> nil, prev |-> nil]]
  <1>1. list_del(m, x, nil) = c
    BY DEF list_del, Unlinked
  <1>2. /\ a \in Memory(S, nil)
        /\ \A y \in S : /\ a[y].prev = IF y = n THEN p ELSE m[y].prev
                        /\ a[y].next = m[y].next
    BY SetPrev
  <1> HIDE DEF a
  <1>3. /\ b \in Memory(S, nil)
        /\ \A y \in S : /\ b[y].next = IF y = p THEN n ELSE a[y].next
                        /\ b[y].prev = a[y].prev
    BY <1>2, SetNext
  <1> HIDE DEF b
  <1>4. /\ c \in Memory(S, nil)
        /\ \A y \in S : /\ c[y].next = IF y = x THEN nil ELSE b[y].next
                        /\ c[y].prev = IF y = x THEN nil ELSE b[y].prev
    <2>1. nil \in S \cup {nil}
      OBVIOUS
    <2> QED
      BY <1>3, <2>1 DEF Memory
  <1> HIDE DEF c
  <1> QED
    BY <1>1, <1>2, <1>3, <1>4

-----------------------------------------------------------------------------
(* Rings as sequences.                                                     *)

LEMMA NthFacts ==
  ASSUME NEW S, NEW h, NEW q, Listable(S, h, q)
  PROVE  /\ Len(q) \in Nat /\ DOMAIN q = 1..Len(q)
         /\ \A i \in Int : Nth(q, h, i) \in S
         /\ Nth(q, h, 0) = h /\ Nth(q, h, Len(q) + 1) = h
         /\ \A i \in 1..Len(q) : Nth(q, h, i) = q[i] /\ q[i] # h
         /\ \A i, j \in 0..Len(q) : Nth(q, h, i) = Nth(q, h, j) => i = j
         /\ \A i, j \in 1..(Len(q) + 1) : Nth(q, h, i) = Nth(q, h, j) => i = j
         /\ \A x \in Range(q) : \E i \in 1..Len(q) : q[i] = x
         /\ Range(q) \subseteq S \ {h}
  <1>1. Len(q) \in Nat /\ DOMAIN q = 1..Len(q) /\ \A i \in 1..Len(q) : q[i] \in S \ {h}
    BY LenProperties, ElementOfSeq DEF Listable
  <1>2. Nth(q, h, 0) = h /\ Nth(q, h, Len(q) + 1) = h
    BY <1>1 DEF Nth
  <1>3. \A i \in 1..Len(q) : Nth(q, h, i) = q[i] /\ q[i] # h
    BY <1>1 DEF Nth
  <1>4. \A i, j \in 1..Len(q) : q[i] = q[j] => i = j
    BY <1>1 DEF Listable, NoRepeats
  <1>5. \A i, j \in 0..Len(q) : Nth(q, h, i) = Nth(q, h, j) => i = j
    BY <1>1, <1>4 DEF Nth
  <1>6. \A i, j \in 1..(Len(q) + 1) : Nth(q, h, i) = Nth(q, h, j) => i = j
    BY <1>1, <1>4 DEF Nth
  <1>7. \A i \in Int : Nth(q, h, i) \in S
    BY <1>1 DEF Nth, Listable
  <1> QED
    BY <1>1, <1>2, <1>3, <1>5, <1>6, <1>7 DEF Range

(* A ring depends on its own nodes only.                                   *)
LEMMA LinkedFrame ==
  ASSUME NEW S, NEW h, NEW q, Listable(S, h, q), NEW m, NEW r, Linked(m, h, q),
         \A x \in Range(q) \cup {h} : r[x].next = m[x].next /\ r[x].prev = m[x].prev
  PROVE  Linked(r, h, q)
  <1>1. Len(q) \in Nat /\ DOMAIN q = 1..Len(q)
    BY NthFacts
  <1>2. \A i \in Int : Nth(q, h, i) \in Range(q) \cup {h}
    BY <1>1 DEF Nth, Range
  <1>3. \A i \in 0..Len(q) : i \in Int /\ i + 1 \in Int
    BY <1>1
  <1> QED
    BY <1>2, <1>3 DEF Linked

(* The head alone.                                                         *)
LEMMA LinkedInit ==
  ASSUME NEW S, NEW nil, NEW m \in Memory(S, nil), NEW h \in S
  PROVE  LET r == INIT_LIST_HEAD(m, h) IN
         /\ r \in Memory(S, nil)
         /\ Linked(r, h, <<>>) /\ Listable(S, h, <<>>)
         /\ \A y \in S \ {h} : r[y] = m[y]
  <1> DEFINE r == INIT_LIST_HEAD(m, h)
  <1>1. /\ r \in Memory(S, nil) /\ r[h].next = h /\ r[h].prev = h
        /\ \A y \in S \ {h} : r[y] = m[y]
    BY DEF INIT_LIST_HEAD, Memory
  <1>2. <<>> \in Seq(S \ {h}) /\ NoRepeats(<<>>) /\ Len(<<>>) = 0
    BY EmptySeq DEF NoRepeats
  <1>3. \A i \in Int : Nth(<<>>, h, i) = h
    BY <1>2 DEF Nth
  <1> HIDE DEF r
  <1>4. Linked(r, h, <<>>)
    BY <1>1, <1>2, <1>3 DEF Linked
  <1> QED
    BY <1>1, <1>2, <1>4 DEF r, Listable

(* A node linked in behind the k-th.                                       *)
LEMMA LinkedAt ==
  ASSUME NEW S, NEW nil, NEW m \in Memory(S, nil), NEW h, NEW q,
         Listable(S, h, q), Linked(m, h, q), NEW k \in 0..Len(q),
         NEW new \in S \ {h}, new \notin Range(q),
         NEW w, Listable(S, h, w), Len(w) = Len(q) + 1,
         \A i \in 1..Len(w) :
           w[i] = IF i <= k THEN q[i] ELSE IF i = k + 1 THEN new ELSE q[i - 1]
  PROVE  Linked(list_link(m, new, Nth(q, h, k), Nth(q, h, k + 1)), h, w)
  <1> DEFINE N(i) == Nth(q, h, i)
             W(i) == Nth(w, h, i)
             n == Len(q)
             r == list_link(m, new, N(k), N(k + 1))
  <1>1. /\ n \in Nat /\ k \in Nat /\ k <= n
        /\ \A i \in Int : N(i) \in S
        /\ \A i, j \in 0..n : N(i) = N(j) => i = j
        /\ \A i, j \in 1..(n + 1) : N(i) = N(j) => i = j
        /\ N(0) = h /\ N(n + 1) = h /\ \A i \in 1..n : N(i) = q[i]
    BY NthFacts
  <1>2. /\ W(0) = h /\ W(n + 2) = h /\ \A i \in 1..(n + 1) : W(i) = w[i]
    BY <1>1, NthFacts DEF Nth
  <1>3. \A i \in 0..(n + 2) :
          W(i) = IF i <= k THEN N(i) ELSE IF i = k + 1 THEN new ELSE N(i - 1)
    <2> SUFFICES ASSUME NEW i \in 0..(n + 2)
                 PROVE  W(i) = IF i <= k THEN N(i) ELSE IF i = k + 1 THEN new ELSE N(i - 1)
      OBVIOUS
    <2> HIDE DEF N, W
    <2>1. CASE i = 0
      BY <2>1, <1>1, <1>2
    <2>2. CASE i = n + 2
      <3>1. ~(i <= k) /\ i # k + 1 /\ i - 1 = n + 1
        BY <2>2, <1>1
      <3> QED
        BY <3>1, <2>2, <1>1, <1>2
    <2>3. CASE i \in 1..(n + 1)
      <3>1. W(i) = IF i <= k THEN q[i] ELSE IF i = k + 1 THEN new ELSE q[i - 1]
        BY <2>3, <1>2
      <3>2. i <= k => i \in 1..n
        BY <2>3, <1>1
      <3>3. ~(i <= k) /\ i # k + 1 => i - 1 \in 1..n
        BY <2>3, <1>1
      <3> QED
        BY <3>1, <3>2, <3>3, <1>1
    <2> QED
      BY <2>1, <2>2, <2>3, <1>1
  <1>4. \A i \in 0..(n + 1) : N(i) # new
    <2>1. \A i \in 1..n : q[i] \in Range(q)
      BY NthFacts DEF Range
    <2> HIDE DEF N
    <2> QED
      BY <1>1, <2>1
  <1>5. \A y \in S :
          /\ r[y].next = IF y = N(k) THEN new ELSE IF y = new THEN N(k + 1) ELSE m[y].next
          /\ r[y].prev = IF y = new THEN N(k) ELSE IF y = N(k + 1) THEN new ELSE m[y].prev
    <2>1. N(k) \in S /\ N(k + 1) \in S
      BY <1>1
    <2> HIDE DEF N
    <2> QED
      BY <2>1, LinkPointers
  <1>6. \A i \in 0..n : m[N(i)].next = N(i + 1) /\ m[N(i + 1)].prev = N(i)
    BY DEF Linked
  <1> HIDE DEF N, W, r
  <1>7. ASSUME NEW i \in 0..(n + 1)
        PROVE  r[W(i)].next = W(i + 1) /\ r[W(i + 1)].prev = W(i)
    <2>0. i \in Nat /\ N(i) \in S /\ N(i + 1) \in S /\ N(i - 1) \in S /\ k + 1 \in 0..(n + 1)
          /\ N(k) # new /\ N(k + 1) # new /\ N(k) \in S /\ N(k + 1) \in S
      BY <1>1, <1>4
    <2>1. CASE i < k
      <3>1. /\ i \in 0..n /\ i # k /\ k \in 0..n /\ i + 1 \in 1..(n + 1) /\ i + 1 # k + 1
            /\ k + 1 \in 1..(n + 1) /\ i + 1 <= k /\ i <= k /\ i + 1 \in 0..(n + 2)
            /\ i \in 0..(n + 2) /\ i + 1 \in 0..(n + 1)
        BY <2>1, <1>1
      <3>2. W(i) = N(i) /\ W(i + 1) = N(i + 1)
        BY <3>1, <1>3
      <3>3. N(i) # N(k) /\ N(i) # new /\ N(i + 1) # N(k + 1) /\ N(i + 1) # new
        BY <3>1, <1>1, <1>4
      <3> QED
        BY <2>0, <3>1, <3>2, <3>3, <1>5, <1>6
    <2>2. CASE i = k
      <3>1. W(i) = N(k) /\ W(i + 1) = new
        BY <2>2, <1>1, <1>3
      <3> QED
        BY <2>0, <3>1, <1>5
    <2>3. CASE i = k + 1
      <3>1. W(i) = new /\ W(i + 1) = N(k + 1)
        <4>1. k + 1 \in 0..(n + 2) /\ k + 2 \in 0..(n + 2) /\ ~(k + 1 <= k) /\ ~(k + 2 <= k)
              /\ k + 2 # k + 1 /\ (k + 2) - 1 = k + 1 /\ i + 1 = k + 2
          BY <2>3, <1>1
        <4> QED
          BY <4>1, <2>3, <1>3
      <3> QED
        BY <2>0, <3>1, <1>5
    <2>4. CASE i > k + 1
      <3> DEFINE j == i - 1
      <3>1. /\ j \in 0..n /\ j + 1 = i /\ j # k /\ k \in 0..n /\ j + 1 \in 1..(n + 1)
            /\ j + 1 # k + 1 /\ k + 1 \in 1..(n + 1) /\ j \in 0..(n + 1) /\ i \in 0..(n + 1)
            /\ ~(i <= k) /\ i # k + 1 /\ ~(i + 1 <= k) /\ i + 1 # k + 1 /\ (i + 1) - 1 = i
            /\ i \in 0..(n + 2) /\ i + 1 \in 0..(n + 2)
        BY <2>4, <1>1
      <3>2. W(i) = N(j) /\ W(i + 1) = N(j + 1)
        BY <3>1, <1>3
      <3> HIDE DEF j
      <3>3. N(j) # N(k) /\ N(j) # new
        BY <3>1, <1>1, <1>4
      <3>4. N(i) # N(k + 1) /\ N(i) # new
        BY <3>1, <1>1, <1>4
      <3>5. N(j) \in S
        BY <3>1, <1>1
      <3> QED
        BY <2>0, <3>1, <3>2, <3>3, <3>4, <3>5, <1>5, <1>6
    <2> QED
      BY <2>0, <1>1, <2>1, <2>2, <2>3, <2>4
  <1>8. Len(w) = n + 1
    OBVIOUS
  <1> QED
    BY <1>7, <1>8 DEF Linked, W, r, N

(* The node at the k-th place taken out.                                   *)
LEMMA LinkedDel ==
  ASSUME NEW S, NEW nil, NEW m \in Memory(S, nil), NEW h, NEW q,
         Listable(S, h, q), Linked(m, h, q), NEW k \in 1..Len(q),
         NEW w, Listable(S, h, w), Len(w) = Len(q) - 1,
         \A i \in 1..Len(w) : w[i] = IF i < k THEN q[i] ELSE q[i + 1]
  PROVE  /\ m[q[k]].prev \in S /\ m[q[k]].next \in S
         /\ m[q[k]].prev = Nth(q, h, k - 1) /\ m[q[k]].next = Nth(q, h, k + 1)
         /\ Linked(list_del(m, q[k], nil), h, w)
  <1> DEFINE N(i) == Nth(q, h, i)
             W(i) == Nth(w, h, i)
             n == Len(q)
             r == list_del(m, q[k], nil)
  <1>1. /\ n \in Nat /\ k \in Nat /\ k <= n /\ 1 <= k
        /\ \A i \in Int : N(i) \in S
        /\ \A i, j \in 0..n : N(i) = N(j) => i = j
        /\ \A i, j \in 1..(n + 1) : N(i) = N(j) => i = j
        /\ N(0) = h /\ N(n + 1) = h /\ \A i \in 1..n : N(i) = q[i]
    BY NthFacts
  <1>2. /\ W(0) = h /\ W(n) = h /\ \A i \in 1..(n - 1) : W(i) = w[i]
    BY <1>1, NthFacts DEF Nth
  <1>3. \A i \in 0..n : W(i) = IF i < k THEN N(i) ELSE N(i + 1)
    <2> SUFFICES ASSUME NEW i \in 0..n
                 PROVE  W(i) = IF i < k THEN N(i) ELSE N(i + 1)
      OBVIOUS
    <2> HIDE DEF N, W
    <2>1. CASE i = 0
      BY <2>1, <1>1, <1>2
    <2>2. CASE i = n
      <3>1. ~(i < k) /\ i + 1 = n + 1
        BY <2>2, <1>1
      <3> QED
        BY <3>1, <2>2, <1>1, <1>2
    <2>3. CASE i \in 1..(n - 1)
      <3>1. W(i) = IF i < k THEN q[i] ELSE q[i + 1]
        BY <2>3, <1>2
      <3>2. i \in 1..n /\ i + 1 \in 1..n
        BY <2>3, <1>1
      <3> QED
        BY <3>1, <3>2, <1>1
    <2> QED
      BY <2>1, <2>2, <2>3, <1>1
  <1>4. \A i \in 0..n : m[N(i)].next = N(i + 1) /\ m[N(i + 1)].prev = N(i)
    BY DEF Linked
  <1> HIDE DEF N
  <1>5. m[N(k)].next = N(k + 1) /\ m[N(k)].prev = N(k - 1) /\ N(k) = q[k]
        /\ N(k) \in S /\ N(k + 1) \in S /\ N(k - 1) \in S
    <2>1. k \in 0..n /\ k - 1 \in 0..n /\ (k - 1) + 1 = k /\ k + 1 \in Int /\ k \in 1..n
      BY <1>1
    <2> QED
      BY <2>1, <1>1, <1>4
  <1>6. \A y \in S :
          /\ r[y].next = IF y = N(k) THEN nil ELSE IF y = N(k - 1) THEN N(k + 1) ELSE m[y].next
          /\ r[y].prev = IF y = N(k) THEN nil ELSE IF y = N(k + 1) THEN N(k - 1) ELSE m[y].prev
    BY <1>5, DelPointers
  <1> HIDE DEF W, r
  <1>7. ASSUME NEW i \in 0..(n - 1)
        PROVE  r[W(i)].next = W(i + 1) /\ r[W(i + 1)].prev = W(i)
    <2>1. CASE i + 1 < k
      <3>1. /\ i \in 0..n /\ i + 1 \in 0..n /\ i < k /\ k - 1 \in 0..n /\ k \in 0..n
            /\ i # k /\ i # k - 1 /\ i + 1 # k /\ i + 1 # k + 1 /\ i + 1 \in 1..(n + 1)
            /\ k \in 1..(n + 1) /\ k + 1 \in 1..(n + 1) /\ i \in Int /\ i + 1 \in Int
        BY <2>1, <1>1
      <3>2. W(i) = N(i) /\ W(i + 1) = N(i + 1)
        BY <2>1, <3>1, <1>3
      <3>3. N(i) # N(k) /\ N(i) # N(k - 1)
        BY <3>1, <1>1
      <3>4. N(i + 1) # N(k) /\ N(i + 1) # N(k + 1)
        BY <3>1, <1>1
      <3>5. N(i) \in S /\ N(i + 1) \in S
        BY <3>1, <1>1
      <3> QED
        BY <3>1, <3>2, <3>3, <3>4, <3>5, <1>4, <1>6
    <2>2. CASE i + 1 = k
      <3>1. /\ i \in 0..n /\ i + 1 \in 0..n /\ i < k /\ ~(i + 1 < k) /\ (i + 1) + 1 = k + 1
            /\ i = k - 1 /\ k - 1 \in 0..n /\ k \in 0..n /\ k - 1 # k /\ k + 1 # k
            /\ k \in 1..(n + 1) /\ k + 1 \in 1..(n + 1)
        BY <2>2, <1>1
      <3>2. W(i) = N(k - 1) /\ W(i + 1) = N(k + 1)
        BY <3>1, <1>3
      <3>3. N(k - 1) # N(k) /\ N(k + 1) # N(k)
        BY <3>1, <1>1
      <3> QED
        BY <3>2, <3>3, <1>5, <1>6
    <2>3. CASE i + 1 > k
      <3> DEFINE j == i + 1
      <3>1. /\ i \in 0..n /\ i + 1 \in 0..n /\ ~(i < k) /\ ~(i + 1 < k)
            /\ j \in 0..n /\ j # k /\ j # k - 1 /\ k - 1 \in 0..n /\ k \in 0..n
            /\ j + 1 \in 1..(n + 1) /\ k \in 1..(n + 1) /\ k + 1 \in 1..(n + 1)
            /\ j + 1 # k /\ j + 1 # k + 1 /\ j \in Int /\ j + 1 \in Int
        BY <2>3, <1>1
      <3>2. W(i) = N(j) /\ W(i + 1) = N(j + 1)
        BY <3>1, <1>3
      <3> HIDE DEF j
      <3>3. N(j) # N(k) /\ N(j) # N(k - 1)
        BY <3>1, <1>1
      <3>4. N(j + 1) # N(k) /\ N(j + 1) # N(k + 1)
        BY <3>1, <1>1
      <3>5. N(j) \in S /\ N(j + 1) \in S
        BY <3>1, <1>1
      <3> QED
        BY <3>1, <3>2, <3>3, <3>4, <3>5, <1>4, <1>6
    <2> QED
      BY <1>1, <2>1, <2>2, <2>3
  <1>8. Len(w) = n - 1
    OBVIOUS
  <1>9. Linked(r, h, w)
    BY <1>7, <1>8 DEF Linked, W
  <1> QED
    BY <1>5, <1>9 DEF r, N

-----------------------------------------------------------------------------
(* The functions of list.h on rings.                                       *)

LEMMA AddLinked ==
  ASSUME NEW S, NEW nil, NEW m \in Memory(S, nil), NEW h, NEW q,
         Listable(S, h, q), Linked(m, h, q), NEW new \in S \ {h}, new \notin Range(q)
  PROVE  LET r == list_add(m, new, h) IN
         /\ r \in Memory(S, nil)
         /\ Listable(S, h, <<new>> \o q) /\ Linked(r, h, <<new>> \o q)
         /\ \A y \in S \ (Range(q) \cup {h, new}) :
              r[y].next = m[y].next /\ r[y].prev = m[y].prev
  <1> DEFINE one == <<new>>
             w == one \o q
             r == list_link(m, new, Nth(q, h, 0), Nth(q, h, 1))
  <1>1. q \in Seq(S \ {h}) /\ h \in S /\ NoRepeats(q)
    BY DEF Listable
  <1>2. one \in Seq(S \ {h}) /\ Len(one) = 1 /\ one[1] = new
    OBVIOUS
  <1>3. w \in Seq(S \ {h}) /\ NoRepeats(w)
    BY <1>1, ConsFacts
  <1> HIDE DEF one
  <1>4. /\ Len(w) = 1 + Len(q)
        /\ \A i \in 1..(1 + Len(q)) : w[i] = IF i <= 1 THEN one[i] ELSE q[i - 1]
    <2>1. /\ Len(w) = Len(one) + Len(q)
          /\ \A i \in 1..(Len(one) + Len(q)) :
               w[i] = IF i <= Len(one) THEN one[i] ELSE q[i - Len(one)]
      BY <1>1, <1>2, ConcatProperties, Zenon
    <2> HIDE DEF w
    <2> QED
      BY <1>2, <2>1
  <1> HIDE DEF w
  <1>5. /\ Len(q) \in Nat /\ Nth(q, h, 0) = h /\ Nth(q, h, 1) \in S
        /\ Nth(q, h, 1) \in Range(q) \cup {h}
    <2>1. /\ Len(q) \in Nat /\ Nth(q, h, 0) = h /\ DOMAIN q = 1..Len(q)
          /\ \A i \in Int : Nth(q, h, i) \in S
      BY NthFacts
    <2>2. Nth(q, h, 1) \in Range(q) \cup {h}
      BY <2>1 DEF Nth, Range
    <2> QED
      BY <2>1, <2>2
  <1>6. m[h].next = Nth(q, h, 1)
    BY <1>5 DEF Linked
  <1>7. list_add(m, new, h) = r
    BY <1>5, <1>6 DEF list_add
  <1>8. \A i \in 1..Len(w) : w[i] = IF i <= 0 THEN q[i] ELSE IF i = 0 + 1 THEN new ELSE q[i - 1]
    BY <1>2, <1>4, <1>5
  <1>9. Listable(S, h, w)
    BY <1>1, <1>3 DEF Listable
  <1>10. Linked(r, h, w)
    <2>1. Len(w) = Len(q) + 1 /\ 0 \in 0..Len(q) /\ 0 + 1 = 1
      BY <1>4, <1>5
    <2>2. Linked(list_link(m, new, Nth(q, h, 0), Nth(q, h, 0 + 1)), h, w)
      BY <2>1, <1>8, <1>9, LinkedAt
    <2> QED
      BY <2>1, <2>2
  <1>11. /\ r \in Memory(S, nil)
         /\ \A y \in S \ (Range(q) \cup {h, new}) :
              r[y].next = m[y].next /\ r[y].prev = m[y].prev
    BY <1>1, <1>5, LinkPointers
  <1> QED
    BY <1>7, <1>9, <1>10, <1>11, Zenon DEF w, one

LEMMA AddTailLinked ==
  ASSUME NEW S, NEW nil, NEW m \in Memory(S, nil), NEW h, NEW q,
         Listable(S, h, q), Linked(m, h, q), NEW new \in S \ {h}, new \notin Range(q)
  PROVE  LET r == list_add_tail(m, new, h) IN
         /\ r \in Memory(S, nil)
         /\ Listable(S, h, Append(q, new)) /\ Linked(r, h, Append(q, new))
         /\ \A y \in S \ (Range(q) \cup {h, new}) :
              r[y].next = m[y].next /\ r[y].prev = m[y].prev
  <1> DEFINE w == Append(q, new)
             n == Len(q)
             r == list_link(m, new, Nth(q, h, n), Nth(q, h, n + 1))
  <1>1. q \in Seq(S \ {h}) /\ h \in S /\ NoRepeats(q)
    BY DEF Listable
  <1>2. w \in Seq(S \ {h}) /\ NoRepeats(w)
    BY <1>1, AppendFacts
  <1>3. Len(w) = n + 1 /\ (\A i \in 1..n : w[i] = q[i]) /\ w[n + 1] = new
    BY <1>1, AppendProperties
  <1> HIDE DEF w
  <1>4. /\ n \in Nat /\ Nth(q, h, n + 1) = h /\ Nth(q, h, n) \in S
        /\ Nth(q, h, n) \in Range(q) \cup {h}
    <2>1. /\ n \in Nat /\ Nth(q, h, n + 1) = h /\ DOMAIN q = 1..n
          /\ \A i \in Int : Nth(q, h, i) \in S
      BY NthFacts
    <2>2. Nth(q, h, n) \in Range(q) \cup {h}
      BY <2>1 DEF Nth, Range
    <2> QED
      BY <2>1, <2>2
  <1>5. m[h].prev = Nth(q, h, n)
    BY <1>4 DEF Linked
  <1>6. list_add_tail(m, new, h) = r
    BY <1>4, <1>5 DEF list_add_tail
  <1>7. \A i \in 1..Len(w) : w[i] = IF i <= n THEN q[i] ELSE IF i = n + 1 THEN new ELSE q[i - 1]
    BY <1>3, <1>4
  <1>8. Listable(S, h, w)
    BY <1>1, <1>2 DEF Listable
  <1>9. Linked(r, h, w)
    <2>1. n \in 0..Len(q)
      BY <1>4
    <2> QED
      BY <2>1, <1>3, <1>7, <1>8, LinkedAt
  <1>10. /\ r \in Memory(S, nil)
         /\ \A y \in S \ (Range(q) \cup {h, new}) :
              r[y].next = m[y].next /\ r[y].prev = m[y].prev
    BY <1>1, <1>4, LinkPointers
  <1> QED
    BY <1>6, <1>8, <1>9, <1>10 DEF w

LEMMA DelLinked ==
  ASSUME NEW S, NEW nil, nil \notin S, NEW m \in Memory(S, nil), NEW h, NEW q,
         Listable(S, h, q), Linked(m, h, q), NEW p \in Range(q),
         NEW r, r = list_safe_del(m, p, nil)
  PROVE  LET w == Without(q, {p}) IN
         /\ p \in S \ {h} /\ m[p].next \in S /\ m[p].prev \in S
         /\ r \in Memory(S, nil) /\ r[p].next = nil /\ r[p].prev = nil
         /\ Listable(S, h, w) /\ Linked(r, h, w)
         /\ \A y \in S \ (Range(q) \cup {h}) :
              r[y].next = m[y].next /\ r[y].prev = m[y].prev
  <1> DEFINE w == Without(q, {p})
  <1>1. q \in Seq(S \ {h}) /\ h \in S /\ NoRepeats(q)
    BY DEF Listable
  <1>2. PICK k \in 1..Len(q) : q[k] = p
    BY NthFacts
  <1>3. /\ w \in Seq(S \ {h}) /\ Len(w) = Len(q) - 1
        /\ \A i \in 1..Len(w) : w[i] = IF i < k THEN q[i] ELSE q[i + 1]
    BY <1>1, <1>2, WithoutOne
  <1>4. Listable(S, h, w)
    <2>1. NoRepeats(w)
      BY <1>1, WithoutNoRepeats
    <2> QED
      BY <1>1, <1>3, <2>1 DEF Listable
  <1> HIDE DEF w
  <1>5. /\ m[q[k]].prev \in S /\ m[q[k]].next \in S
        /\ m[q[k]].prev = Nth(q, h, k - 1) /\ m[q[k]].next = Nth(q, h, k + 1)
        /\ Linked(list_del(m, q[k], nil), h, w)
    BY <1>3, <1>4, LinkedDel
  <1>6. p \in S \ {h}
    BY NthFacts
  <1>7. /\ m[p].prev \in Range(q) \cup {h} /\ m[p].next \in Range(q) \cup {h}
        /\ m[p].prev \in S /\ m[p].next \in S
    <2>1. DOMAIN q = 1..Len(q)
      BY NthFacts
    <2>2. \A i : Nth(q, h, i) \in Range(q) \cup {h}
      BY <2>1 DEF Nth, Range
    <2> QED
      BY <1>2, <1>5, <2>2
  <1>8. r = list_del(m, p, nil)
    <2>1. m[p] # Unlinked(nil)
      BY <1>7 DEF Unlinked
    <2> QED
      BY <2>1 DEF list_safe_del
  <1>9. /\ r \in Memory(S, nil)
        /\ \A y \in S \ (Range(q) \cup {h}) :
              r[y].next = m[y].next /\ r[y].prev = m[y].prev
        /\ r[p].next = nil /\ r[p].prev = nil
    <2> DEFINE d == list_del(m, p, nil)
    <2>1. /\ d \in Memory(S, nil)
          /\ \A y \in S \ (Range(q) \cup {h}) :
                d[y].next = m[y].next /\ d[y].prev = m[y].prev
          /\ d[p].next = nil /\ d[p].prev = nil
      BY <1>6, <1>7, DelPointers
    <2> HIDE DEF d
    <2> QED
      BY <2>1, <1>8 DEF d
  <1> QED
    BY <1>2, <1>4, <1>5, <1>6, <1>7, <1>8, <1>9 DEF w

(* A ring is empty when its head leads to itself; else the head leads to   *)
(* the first node.                                                         *)
LEMMA EmptyLinked ==
  ASSUME NEW S, NEW m, NEW h, NEW q, Listable(S, h, q), Linked(m, h, q)
  PROVE  /\ list_empty(m, h) <=> q = <<>>
         /\ q # <<>> => m[h].next = Head(q) /\ Head(q) \in Range(q)
         /\ m[h].next \in S /\ m[h].prev \in S
         /\ \A x \in Range(q) : m[x].next \in S /\ m[x].prev \in S
  <1>1. /\ Len(q) \in Nat /\ DOMAIN q = 1..Len(q) /\ Nth(q, h, 0) = h
        /\ Nth(q, h, Len(q) + 1) = h
        /\ \A i \in Int : Nth(q, h, i) \in S
        /\ \A i \in 1..Len(q) : Nth(q, h, i) = q[i] /\ q[i] # h
    BY NthFacts
  <1>2. /\ \A i \in 0..Len(q) : m[Nth(q, h, i)].next = Nth(q, h, i + 1)
        /\ \A i \in 0..Len(q) : m[Nth(q, h, i + 1)].prev = Nth(q, h, i)
    BY DEF Linked
  <1>3. m[h].next = Nth(q, h, 1) /\ m[h].prev = Nth(q, h, Len(q))
    BY <1>1, <1>2
  <1>4. q = <<>> <=> Len(q) = 0
    BY EmptySeq, LenProperties DEF Listable
  <1>5. q # <<>> => Head(q) = q[1] /\ 1 \in DOMAIN q
    BY <1>1, <1>4 DEF Listable
  <1>6. ASSUME NEW x \in Range(q)
        PROVE  m[x].next \in S /\ m[x].prev \in S
    <2>1. PICK i \in 1..Len(q) : q[i] = x
      BY NthFacts
    <2>2. i \in 0..Len(q) /\ i - 1 \in 0..Len(q) /\ (i - 1) + 1 = i /\ i + 1 \in Int /\ i - 1 \in Int
      BY <1>1
    <2>3. m[x].next = Nth(q, h, i + 1) /\ m[x].prev = Nth(q, h, i - 1)
      BY <1>1, <1>2, <2>1, <2>2
    <2> QED
      BY <1>1, <2>2, <2>3
  <1>7. q = <<>> => m[h].next = h
    BY <1>1, <1>3, <1>4
  <1>8. q # <<>> => m[h].next = Head(q) /\ m[h].next # h /\ Head(q) \in Range(q)
    BY <1>1, <1>3, <1>5 DEF Range
  <1> QED
    BY <1>1, <1>3, <1>6, <1>7, <1>8 DEF list_empty

(* A traversal reads the nodes in their order, and follows only the next   *)
(* pointers.                                                               *)
LEMMA ContentsLeads ==
  ASSUME NEW S, IsFiniteSet(S), NEW m, DOMAIN m = S, NEW h, NEW q,
         Listable(S, h, q), Leads(m, h, q)
  PROVE  Contents(m, h) = q
  <1> DEFINE n == Len(q)
             I == 0..Cardinality(DOMAIN m)
             Walks(f) == f = [i \in I |-> IF i = 0 THEN m[h].next
                                         ELSE IF f[i - 1] = h THEN h ELSE m[f[i - 1]].next]
             walk == [i \in I |-> Nth(q, h, i + 1)]
             at == CHOOSE f : Walks(f)
             stop == CHOOSE i \in I : at[i] = h /\ \A j \in 0..(i - 1) : at[j] # h
  <1>1. /\ n \in Nat /\ DOMAIN q = 1..n /\ Nth(q, h, 0) = h /\ Nth(q, h, n + 1) = h
        /\ \A i \in 1..n : Nth(q, h, i) = q[i] /\ q[i] # h
    BY NthFacts
  <1>2. Cardinality(DOMAIN m) \in Nat /\ n \in I
    <2>1. q \in [1..n -> S]
      BY <1>1 DEF Listable
    <2>2. q \in Injection(1..n, S)
      BY <1>1, <2>1 DEF Listable, NoRepeats, Injection, IsInjective
    <2>3. Cardinality(1..n) <= Cardinality(S)
      BY <2>2, FS_Injection
    <2>4. Cardinality(1..n) = n
      BY <1>1, CountTo
    <2>5. Cardinality(S) \in Nat
      BY FS_CardinalityType
    <2> QED
      BY <1>1, <2>3, <2>4, <2>5
  <1>3. /\ \A i \in 0..n : m[Nth(q, h, i)].next = Nth(q, h, i + 1)
        /\ \A i \in Nat : i > n => Nth(q, h, i) = h
    BY <1>1 DEF Leads, Nth
  <1>4. Walks(walk)
    <2>1. ASSUME NEW i \in I
          PROVE  walk[i] = IF i = 0 THEN m[h].next
                           ELSE IF walk[i - 1] = h THEN h ELSE m[walk[i - 1]].next
      <3>1. CASE i = 0
        <4>1. 0 \in 0..n /\ 0 + 1 = 1
          BY <1>1
        <4> QED
          BY <4>1, <3>1, <1>1, <1>3
      <3>2. CASE i # 0
        <4>1. i \in Nat /\ i - 1 \in I /\ (i - 1) + 1 = i /\ walk[i - 1] = Nth(q, h, i)
          BY <3>2, <1>2
        <4>2. CASE i <= n
          <5>1. i \in 1..n /\ i \in 0..n
            BY <4>1, <4>2, <3>2, <1>1
          <5> QED
            BY <5>1, <4>1, <3>2, <1>1, <1>3
        <4>3. CASE i > n
          <5>1. i + 1 > n /\ i + 1 \in Nat
            BY <4>1, <4>3, <1>1
          <5> QED
            BY <5>1, <4>1, <4>3, <3>2, <1>3
        <4> QED
          BY <4>1, <4>2, <4>3, <1>1
      <3> QED
        BY <3>1, <3>2
    <2> QED
      BY <2>1
  <1>5. Walks(at)
    BY <1>4
  <1>6. at = walk
    <2> DEFINE D == {i \in I : at[i] # walk[i]}
    <2>1. D \in SUBSET Nat
      BY <1>2
    <2>2. ASSUME D # {} PROVE FALSE
      <3>1. PICK i \in D : \A j \in D : i <= j
        BY <2>1, <2>2, LeastExists
      <3>2. CASE i = 0
        BY <3>1, <3>2, <1>4, <1>5
      <3>3. CASE i # 0
        <4>1. i - 1 \in I /\ ~(i <= i - 1) /\ i \in I
          BY <3>1, <3>3, <1>2
        <4>2. at[i - 1] = walk[i - 1]
          BY <4>1, <3>1
        <4> HIDE DEF at, walk
        <4> QED
          BY <4>1, <4>2, <3>1, <3>3, <1>4, <1>5
      <3> QED
        BY <3>2, <3>3
    <2> HIDE DEF walk, at
    <2>3. DOMAIN at = I /\ DOMAIN walk = I
      BY <1>4, <1>5
    <2>4. \A i \in I : at[i] = walk[i]
      BY <2>2
    <2>5. at = [i \in I |-> at[i]] /\ walk = [i \in I |-> walk[i]]
      BY <1>4, <1>5
    <2> QED
      BY <2>4, <2>5
  <1>7. \A i \in I : at[i] = Nth(q, h, i + 1)
    BY <1>6
  <1> HIDE DEF at, walk
  <1>8. stop = n
    <2>1. at[n] = h /\ \A j \in 0..(n - 1) : at[j] # h
      <3>1. at[n] = h
        BY <1>1, <1>2, <1>7
      <3>2. ASSUME NEW j \in 0..(n - 1) PROVE at[j] # h
        <4>1. j + 1 \in 1..n /\ j \in I
          BY <1>1, <1>2
        <4> QED
          BY <4>1, <1>1, <1>7
      <3> QED
        BY <3>1, <3>2
    <2>2. ASSUME NEW i \in I, at[i] = h, \A j \in 0..(i - 1) : at[j] # h
          PROVE  i = n
      <3>0. i \in Int /\ n \in Int
        BY <1>1, <1>2
      <3>1. ~(i < n)
        <4>1. i < n => i \in 0..(n - 1)
          BY <1>1, <1>2
        <4> QED
          BY <4>1, <2>1, <2>2
      <3>2. ~(n < i)
        <4>1. n < i => n \in 0..(i - 1)
          BY <1>1, <1>2
        <4> QED
          BY <4>1, <2>1, <2>2
      <3> HIDE DEF n, I
      <3> QED
        BY <3>0, <3>1, <3>2
    <2> QED
      BY <1>2, <2>1, <2>2
  <1>9. Contents(m, h) = [i \in 1..stop |-> at[i - 1]]
    BY DEF Contents, at
  <1> HIDE DEF stop
  <1>10. \A i \in 1..n : at[i - 1] = q[i]
    <2> TAKE i \in 1..n
    <2>1. i - 1 \in I /\ (i - 1) + 1 = i
      BY <1>1, <1>2
    <2> QED
      BY <2>1, <1>1, <1>7
  <1>11. Contents(m, h) = [i \in 1..n |-> q[i]]
    BY <1>8, <1>9, <1>10
  <1>12. q = [i \in 1..n |-> q[i]]
    BY <1>1 DEF Listable
  <1> QED
    BY <1>11, <1>12

LEMMA ContentsLinked ==
  ASSUME NEW S, IsFiniteSet(S), NEW m, DOMAIN m = S, NEW h, NEW q,
         Listable(S, h, q), Linked(m, h, q)
  PROVE  Contents(m, h) = q
  BY ContentsLeads DEF Linked, Leads

LEMMA LeadsFrame ==
  ASSUME NEW S, NEW h, NEW q, Listable(S, h, q), NEW m, NEW r, Leads(m, h, q),
         \A x \in Range(q) \cup {h} : r[x].next = m[x].next
  PROVE  Leads(r, h, q)
  <1>1. Len(q) \in Nat /\ DOMAIN q = 1..Len(q)
    BY NthFacts
  <1>2. \A i \in Int : Nth(q, h, i) \in Range(q) \cup {h}
    BY <1>1 DEF Nth, Range
  <1>3. \A i \in 0..Len(q) : i \in Int
    BY <1>1
  <1> QED
    BY <1>2, <1>3 DEF Leads

(* The nodes behind the first one.                                         *)
LEMMA ListableTail ==
  ASSUME NEW S, NEW h, NEW q, Listable(S, h, q), q # <<>>
  PROVE  Listable(S, h, Tail(q))
  BY TailFacts DEF Listable

(* From m to r, the head of the nodes q is led past the first one, which   *)
(* leaves w.                                                               *)
Past(m, r, h, q, w) ==
  /\ q # <<>> /\ w = Tail(q) /\ r[h].next = Nth(q, h, 2)
  /\ \A y \in Range(q) : r[y].next = m[y].next

LEMMA LeadsTail ==
  ASSUME NEW S, NEW h, NEW q, Listable(S, h, q),
         NEW m, NEW r, NEW w, Leads(m, h, q), Past(m, r, h, q, w)
  PROVE  Leads(r, h, w)
  <1> DEFINE n == Len(q)
  <1> USE DEF Past
  <1>1. /\ n \in Nat /\ DOMAIN q = 1..n /\ q \in Seq(S \ {h}) /\ Nth(q, h, n + 1) = h
        /\ \A i \in 1..n : Nth(q, h, i) = q[i]
    BY NthFacts DEF Listable
  <1>2. Len(w) = n - 1 /\ n >= 1 /\ \A i \in 1..(n - 1) : w[i] = q[i + 1]
    BY <1>1, EmptySeq, HeadTailProperties
  <1>3. Nth(w, h, 0) = h
    BY <1>2 DEF Nth
  <1>4. ASSUME NEW i \in 1..n PROVE Nth(w, h, i) = Nth(q, h, i + 1)
    <2>1. CASE i = n
      BY <2>1, <1>1, <1>2 DEF Nth
    <2>2. CASE i # n
      <3>1. n \in Nat
        BY <1>1
      <3> HIDE DEF n
      <3>2. i \in 1..(n - 1) /\ i + 1 \in 1..n
        BY <2>2, <3>1
      <3> QED
        BY <3>2, <1>1, <1>2 DEF Nth
    <2> QED
      BY <2>1, <2>2
  <1>5. Nth(w, h, 0) = h /\ \A i \in 1..n : Nth(w, h, i) = Nth(q, h, i + 1)
    BY <1>3, <1>4
  <1>6. Leads(r, h, w)
    <2> SUFFICES ASSUME NEW i \in 0..(n - 1)
                 PROVE  r[Nth(w, h, i)].next = Nth(w, h, i + 1)
      BY <1>2 DEF Leads
    <2>0. i + 1 \in 1..n /\ i \in Int /\ (i + 1) + 1 = i + 2
      BY <1>1
    <2>1. CASE i = 0
      <3>1. 1 \in 1..n /\ 1 + 1 = 2 /\ 0 + 1 = 1
        BY <1>1, <1>2
      <3>2. Nth(w, h, 1) = Nth(q, h, 2)
        BY <3>1, <1>5
      <3> QED
        BY <2>1, <3>1, <3>2, <1>5
    <2>2. CASE i # 0
      <3>1. i \in 1..n /\ i + 1 \in 0..n /\ i + 1 \in 1..n
        BY <2>0, <2>2
      <3>2. Nth(w, h, i) = q[i + 1] /\ q[i + 1] \in Range(q)
        BY <3>1, <1>1, <1>5 DEF Range
      <3>3. m[Nth(q, h, i + 1)].next = Nth(q, h, (i + 1) + 1)
        BY <3>1 DEF Leads
      <3>4. Nth(w, h, i + 1) = Nth(q, h, (i + 1) + 1)
        BY <2>0, <1>5
      <3> QED
        BY <3>1, <3>2, <3>3, <3>4, <1>1
    <2> QED
      BY <2>1, <2>2
  <1> QED
    BY <1>6

(* The neighbours of a node of a ring are in the ring, and point back.     *)
LEMMA Neighbours ==
  ASSUME NEW S, NEW m, NEW h, NEW q, Listable(S, h, q), Linked(m, h, q),
         NEW x \in Range(q) \cup {h}
  PROVE  /\ m[x].next \in Range(q) \cup {h} /\ m[m[x].next].prev = x
         /\ m[x].prev \in Range(q) \cup {h} /\ m[m[x].prev].next = x
  <1>1. /\ Len(q) \in Nat /\ DOMAIN q = 1..Len(q)
        /\ Nth(q, h, 0) = h /\ Nth(q, h, Len(q) + 1) = h
        /\ \A i \in 1..Len(q) : Nth(q, h, i) = q[i]
    BY NthFacts
  <1>2. \A i \in Int : Nth(q, h, i) \in Range(q) \cup {h}
    BY <1>1 DEF Nth, Range
  <1>3. \E i \in 0..Len(q) : x = Nth(q, h, i)
    <2>1. CASE x = h
      <3>1. 0 \in 0..Len(q)
        BY <1>1
      <3> QED
        BY <3>1, <2>1, <1>1
    <2>2. CASE x \in Range(q)
      <3>1. PICK i \in 1..Len(q) : x = q[i]
        BY <2>2, <1>1 DEF Range
      <3>2. i \in 0..Len(q)
        OBVIOUS
      <3> QED
        BY <3>1, <3>2, <1>1
    <2> QED
      BY <2>1, <2>2
  <1>4. \E i \in 0..Len(q) : x = Nth(q, h, i + 1)
    <2>1. CASE x = h
      <3>1. Len(q) \in 0..Len(q)
        BY <1>1
      <3> QED
        BY <3>1, <2>1, <1>1
    <2>2. CASE x \in Range(q)
      <3>1. PICK i \in 1..Len(q) : x = q[i]
        BY <2>2, <1>1 DEF Range
      <3>2. i - 1 \in 0..Len(q) /\ (i - 1) + 1 = i
        BY <1>1
      <3> QED
        BY <3>1, <3>2, <1>1
    <2> QED
      BY <2>1, <2>2
  <1>5. \A i \in 0..Len(q) : i \in Int /\ i + 1 \in Int
    BY <1>1
  <1> QED
    BY <1>2, <1>3, <1>4, <1>5 DEF Linked
=============================================================================
