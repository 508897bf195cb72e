---------------------------- MODULE FamilyProofs ----------------------------
(***************************************************************************)
(* Proofs about the process tree, for any number of processes and of       *)
(* namespaces: the pointers of the rings say what p_parent says, and the   *)
(* recursion of TERMPROCESS over the rings kills the process and all its   *)
(* descendants, and nobody else.                                           *)
(***************************************************************************)
EXTENDS Family, ListProofs

(* The nodes by which the processes of k are linked.                       *)
Sibs(k) == [i \in DOMAIN k |-> p_sib(k[i])]

(* K is the family: the pointers of m and the parents of parent agree with *)
(* the children K has for each of the processes A.                         *)
Agrees(m, parent, A, K) ==
  /\ m \in Memory(Nodes, NULL)
  /\ parent \in [Pcbs -> Pcbs \cup {NULL}]
  /\ A \subseteq Pcbs
  /\ K \in [Pcbs -> Seq(Pcbs)]
  /\ \A p \in A : NoRepeats(K[p]) /\ Linked(m, p_child(p), Sibs(K[p]))
  /\ \A p \in Pcbs \ A : K[p] = <<>>
  /\ \A p, c \in Pcbs : c \in Range(K[p]) <=> parent[c] = p
  /\ \A c \in Pcbs : parent[c] # NULL => c \in A /\ parent[c] \in A
  /\ \A c \in Pcbs : parent[c] = NULL =>
       m[p_sib(c)].next = NULL /\ m[p_sib(c)].prev = NULL

-----------------------------------------------------------------------------
(* Nodes and the lists of them.                                            *)

LEMMA NodeFacts ==
  /\ IsFiniteSet(Nodes) /\ NULL \notin Nodes
  /\ \A p \in Pcbs : p_child(p) \in Nodes /\ p_sib(p) \in Nodes
  /\ \A p : p_child(p)[1] = p /\ p_sib(p)[1] = p
  /\ \A p, q : /\ p_child(p) # p_sib(q)
               /\ p_child(p) = p_child(q) => p = q
               /\ p_sib(p) = p_sib(q) => p = q
  <1>1. IsFiniteSet({"p_child", "p_sib"})
    <2>1. {"p_child", "p_sib"} = {"p_child"} \cup {"p_sib"}
      OBVIOUS
    <2>2. IsFiniteSet({"p_child"})
      BY FS_Singleton
    <2>3. IsFiniteSet({"p_child"} \cup {"p_sib"})
      BY <2>2, FS_AddElement
    <2> QED
      BY <2>1, <2>3
  <1>2. IsFiniteSet(Pcbs \X {"p_child", "p_sib"})
    BY <1>1, FS_Product, FamilyAssumption
  <1>3. Nodes \subseteq Pcbs \X {"p_child", "p_sib"}
    BY DEF Nodes, p_child, p_sib
  <1>4. IsFiniteSet(Nodes)
    BY <1>2, <1>3, FS_Subset
  <1> QED
    BY <1>4, FamilyAssumption DEF Nodes, p_child, p_sib

LEMMA SibsFacts ==
  ASSUME NEW p \in Pcbs, NEW k \in Seq(Pcbs), NoRepeats(k)
  PROVE  /\ Listable(Nodes, p_child(p), Sibs(k))
         /\ DOMAIN Sibs(k) = DOMAIN k /\ Len(Sibs(k)) = Len(k)
         /\ Range(Sibs(k)) = {p_sib(c) : c \in Range(k)}
         /\ Sibs(k) = <<>> <=> k = <<>>
         /\ [i \in DOMAIN Sibs(k) |-> Sibs(k)[i][1]] = k
  <1>1. /\ Len(k) \in Nat /\ DOMAIN k = 1..Len(k) /\ k \in [1..Len(k) -> Pcbs]
        /\ k = [i \in 1..Len(k) |-> k[i]]
    OBVIOUS
  <1>2. /\ Sibs(k) \in [1..Len(k) -> Nodes \ {p_child(p)}]
        /\ \A i \in 1..Len(k) : Sibs(k)[i] = p_sib(k[i])
    BY <1>1, NodeFacts DEF Sibs
  <1>3. Sibs(k) \in Seq(Nodes \ {p_child(p)})
    BY <1>1, <1>2
  <1>4. DOMAIN Sibs(k) = 1..Len(k) /\ Len(Sibs(k)) = Len(k)
    BY <1>1, <1>2, <1>3
  <1>5. NoRepeats(Sibs(k))
    BY <1>1, <1>2, <1>4, NodeFacts DEF NoRepeats
  <1>6. Range(Sibs(k)) = {p_sib(c) : c \in Range(k)}
    BY <1>1, <1>2, <1>4 DEF Range
  <1>7. Sibs(k) = <<>> <=> k = <<>>
    BY <1>1, <1>3, <1>4
  <1>8. [i \in DOMAIN Sibs(k) |-> Sibs(k)[i][1]] = k
    <2>1. \A i \in 1..Len(k) : Sibs(k)[i][1] = k[i]
      BY <1>2, NodeFacts
    <2> QED
      BY <2>1, <1>1, <1>4
  <1> QED
    BY <1>1, <1>3, <1>4, <1>5, <1>6, <1>7, <1>8, NodeFacts DEF Listable

(* Without takes the elements at the positions which are kept.             *)
Position(G, j) == CHOOSE i \in G : Cardinality({l \in G : l <= i}) = j

LEMMA WithoutAt ==
  ASSUME NEW q, NEW S
  PROVE  Without(q, S) =
           [j \in 1..Cardinality(Kept(q, S)) |-> q[Position(Kept(q, S), j)]]
  BY DEF Without, Rank, Position

(* A child comes last, a child goes.                                       *)
LEMMA SibsChange ==
  ASSUME NEW k \in Seq(Pcbs), NEW c \in Pcbs
  PROVE  /\ Sibs(Append(k, c)) = Append(Sibs(k), p_sib(c))
         /\ Sibs(Without(k, {c})) = Without(Sibs(k), {p_sib(c)})
  <1>1. /\ Len(k) \in Nat /\ DOMAIN k = 1..Len(k)
        /\ Sibs(k) \in Seq(Nodes) /\ Len(Sibs(k)) = Len(k) /\ DOMAIN Sibs(k) = DOMAIN k
        /\ \A i \in DOMAIN k : Sibs(k)[i] = p_sib(k[i])
    BY NodeFacts DEF Sibs
  <1>2. Sibs(Append(k, c)) = Append(Sibs(k), p_sib(c))
    <2> DEFINE a == Append(k, c)
               b == Append(Sibs(k), p_sib(c))
    <2>1. /\ DOMAIN a = 1..(Len(k) + 1) /\ DOMAIN b = 1..(Len(k) + 1)
          /\ \A i \in 1..(Len(k) + 1) : a[i] = IF i <= Len(k) THEN k[i] ELSE c
          /\ \A i \in 1..(Len(k) + 1) : b[i] = IF i <= Len(k) THEN Sibs(k)[i] ELSE p_sib(c)
          /\ b \in Seq(Nodes)
      BY <1>1, NodeFacts
    <2>2. \A i \in 1..(Len(k) + 1) : b[i] = p_sib(a[i])
      BY <2>1, <1>1
    <2> HIDE DEF a, b
    <2>3. b = [i \in 1..(Len(k) + 1) |-> b[i]]
      BY <2>1
    <2>4. Sibs(a) = b
      BY <2>1, <2>2, <2>3 DEF Sibs
    <2> QED
      BY <2>4 DEF a, b
  <1>3. Sibs(Without(k, {c})) = Without(Sibs(k), {p_sib(c)})
    <2> DEFINE s == Sibs(k)
               d == p_sib(c)
               G == Kept(k, {c})
    <2>1. Kept(s, {d}) = G
      BY <1>1, NodeFacts DEF Kept
    <2> DEFINE at(j) == Position(G, j)
               N == 1..Cardinality(G)
    <2>3. \A j \in N : at(j) \in DOMAIN k
      <3> TAKE j \in N
      <3>1. \E i \in G : Rank(k, {c}, i) = j
        BY RankBijective
      <3> QED
        BY <3>1 DEF Kept, Rank, Position
    <2>4. Without(k, {c}) = [j \in N |-> k[at(j)]]
      BY WithoutAt
    <2>5. Without(s, {d}) = [j \in N |-> s[at(j)]]
      BY <2>1, WithoutAt
    <2>6. \A j \in N : s[at(j)] = p_sib(k[at(j)])
      BY <2>3, <1>1
    <2> HIDE DEF at, N, G
    <2> DEFINE w == Without(k, {c})
    <2>7. DOMAIN w = N /\ \A j \in N : w[j] = k[at(j)]
      BY <2>4
    <2> HIDE DEF w
    <2>8. Sibs(w) = [j \in N |-> p_sib(w[j])]
      BY <2>7 DEF Sibs
    <2> HIDE DEF s, d
    <2>9. \A j \in N : p_sib(w[j]) = s[at(j)]
      BY <2>6, <2>7
    <2>10. Sibs(w) = [j \in N |-> s[at(j)]]
      BY <2>8, <2>9
    <2> QED
      BY <2>5, <2>10 DEF s, d, w
  <1> QED
    BY <1>2, <1>3

-----------------------------------------------------------------------------
(* The family and its rings.                                               *)

KidsOf(m, p) == LET ring == Contents(m, p_child(p))
                IN  [i \in DOMAIN ring |-> ring[i][1]]

(* The ring of p holds the children of p.                                  *)
RingOf(m, parent, K, p) ==
  /\ p \in Pcbs /\ K[p] \in Seq(Pcbs) /\ NoRepeats(K[p])
  /\ p_child(p) \in Nodes /\ Listable(Nodes, p_child(p), Sibs(K[p]))
  /\ Linked(m, p_child(p), Sibs(K[p]))
  /\ Range(Sibs(K[p])) = {p_sib(c) : c \in {d \in Pcbs : parent[d] = p}}
  /\ KidsOf(m, p) = K[p]
  /\ list_empty(m, p_child(p)) <=> K[p] = <<>>
  /\ K[p] # <<>> => /\ m[p_child(p)].next = p_sib(Head(K[p]))
                    /\ Head(K[p]) \in Pcbs /\ parent[Head(K[p])] = p

LEMMA RingFacts ==
  ASSUME NEW m, NEW parent, NEW A, NEW K, Agrees(m, parent, A, K), NEW p \in A
  PROVE  RingOf(m, parent, K, p)
  <1> DEFINE h == p_child(p)
             q == Sibs(K[p])
  <1>1. /\ p \in Pcbs /\ K[p] \in Seq(Pcbs) /\ NoRepeats(K[p])
        /\ h \in Nodes /\ Linked(m, h, q) /\ m \in Memory(Nodes, NULL)
    BY NodeFacts DEF Agrees
  <1>2. /\ Listable(Nodes, h, q) /\ (q = <<>> <=> K[p] = <<>>)
        /\ Range(q) = {p_sib(c) : c \in Range(K[p])}
        /\ [i \in DOMAIN q |-> q[i][1]] = K[p]
        /\ DOMAIN q = DOMAIN K[p]
    BY <1>1, SibsFacts
  <1>3. Range(K[p]) = {d \in Pcbs : parent[d] = p}
    <2>1. Range(K[p]) \subseteq Pcbs
      BY <1>1 DEF Range
    <2> QED
      BY <2>1, <1>1 DEF Agrees
  <1>4. DOMAIN m = Nodes
    BY <1>1 DEF Memory
  <1>5. Contents(m, h) = q
    BY <1>1, <1>2, <1>4, NodeFacts, ContentsLinked
  <1>6. /\ list_empty(m, h) <=> q = <<>>
        /\ q # <<>> => m[h].next = Head(q)
    BY <1>1, <1>2, EmptyLinked
  <1>7. ASSUME K[p] # <<>>
        PROVE  /\ Head(q) = p_sib(Head(K[p]))
               /\ Head(K[p]) \in Pcbs /\ parent[Head(K[p])] = p
    <2>1. 1 \in DOMAIN K[p] /\ Head(K[p]) = K[p][1]
      BY <1>1, <1>7
    <2>2. Head(q) = q[1]
      OBVIOUS
    <2>3. q[1] = p_sib(K[p][1])
      BY <2>1 DEF Sibs
    <2>4. K[p][1] \in Range(K[p])
      BY <2>1 DEF Range
    <2> QED
      BY <2>1, <2>2, <2>3, <2>4, <1>3
  <1> HIDE DEF h, q
  <1>8. KidsOf(m, p) = K[p]
    BY <1>2, <1>5 DEF KidsOf, h
  <1> QED
    BY <1>1, <1>2, <1>3, <1>6, <1>7, <1>8 DEF h, q, RingOf

(* What a traversal of the rings passes is the family.                     *)
LEMMA FamilySeen ==
  ASSUME NEW m, NEW parent, NEW A, NEW K, Agrees(m, parent, A, K)
  PROVE  [p \in Pcbs |-> IF p \in A THEN KidsOf(m, p) ELSE <<>>] = K
  <1>1. \A p \in Pcbs : K[p] = IF p \in A THEN KidsOf(m, p) ELSE <<>>
    <2>1. \A p \in A : RingOf(m, parent, K, p)
      BY RingFacts
    <2> QED
      BY <2>1 DEF Agrees, RingOf
  <1>2. K = [p \in Pcbs |-> K[p]]
    BY DEF Agrees
  <1> QED
    BY <1>1, <1>2

(* A process with no parent and no children may leave.                     *)
LEMMA BuryAgrees ==
  ASSUME NEW m, NEW parent, NEW A, NEW K, Agrees(m, parent, A, K),
         NEW p \in A, parent[p] = NULL, K[p] = <<>>
  PROVE  Agrees(m, parent, A \ {p}, K)
  <1>1. Range(<<>>) = {}
    BY DEF Range
  <1>2. \A c \in Pcbs : parent[c] # p
    BY <1>1, RingFacts DEF Agrees, RingOf
  <1> QED
    BY <1>2 DEF Agrees

(* removeChild and outChild: c leaves the ring of its parent.              *)
LEMMA DetachAgrees ==
  ASSUME NEW m, NEW parent, NEW A, NEW K, Agrees(m, parent, A, K),
         NEW c \in Pcbs, NEW p, p = parent[c], p # NULL
  PROVE  /\ p \in A /\ ~list_empty(m, p_child(p))
         /\ Agrees(list_del(m, p_sib(c), NULL), [parent EXCEPT ![c] = NULL], A,
                   [K EXCEPT ![p] = Without(@, {c})])
  <1> DEFINE r == list_del(m, p_sib(c), NULL)
             par == [parent EXCEPT ![c] = NULL]
             k == Without(K[p], {c})
             L == [K EXCEPT ![p] = k]
             h == p_child(p)
             q == Sibs(K[p])
  <1>1. /\ p \in A /\ p \in Pcbs /\ m \in Memory(Nodes, NULL) /\ NULL \notin Pcbs
        /\ parent \in [Pcbs -> Pcbs \cup {NULL}] /\ A \subseteq Pcbs
        /\ K \in [Pcbs -> Seq(Pcbs)]
    BY FamilyAssumption DEF Agrees
  <1>0. \A x \in A : RingOf(m, parent, K, x)
    BY RingFacts
  <1>2. /\ K[p] \in Seq(Pcbs) /\ NoRepeats(K[p])
        /\ h \in Nodes /\ Listable(Nodes, h, q) /\ Linked(m, h, q)
        /\ Range(q) = {p_sib(d) : d \in {e \in Pcbs : parent[e] = p}}
        /\ list_empty(m, h) <=> K[p] = <<>>
    BY <1>0, <1>1 DEF RingOf
  <1>3. c \in Range(K[p]) /\ p_sib(c) \in Range(q)
    BY <1>1, <1>2 DEF Agrees
  <1>4. K[p] # <<>>
    BY <1>3 DEF Range
  <1>5. r = list_safe_del(m, p_sib(c), NULL)
    <2>1. m[p_sib(c)].next \in Nodes
      BY <1>2, <1>3, EmptyLinked
    <2> QED
      BY <2>1, NodeFacts DEF list_safe_del, Unlinked
  <1>6. /\ r \in Memory(Nodes, NULL)
        /\ r[p_sib(c)].next = NULL /\ r[p_sib(c)].prev = NULL
        /\ Linked(r, h, Without(q, {p_sib(c)}))
        /\ \A y \in Nodes \ (Range(q) \cup {h}) :
             r[y].next = m[y].next /\ r[y].prev = m[y].prev
    <2> HIDE DEF q, h, r
    <2>1. /\ NULL \notin Nodes /\ m \in Memory(Nodes, NULL)
          /\ Listable(Nodes, h, q) /\ Linked(m, h, q) /\ p_sib(c) \in Range(q)
      BY <1>1, <1>2, <1>3, NodeFacts
    <2> QED
      BY <2>1, <1>5, DelLinked
  <1>7. Without(q, {p_sib(c)}) = Sibs(k)
    BY <1>2, SibsChange
  <1>8. k \in Seq(Pcbs) /\ NoRepeats(k) /\ Range(k) = Range(K[p]) \ {c}
    BY <1>2, WithoutRange, WithoutNoRepeats
  <1> HIDE DEF q, h, r, k
  <1>9. /\ L \in [Pcbs -> Seq(Pcbs)] /\ par \in [Pcbs -> Pcbs \cup {NULL}]
        /\ L[p] = k /\ \A x \in Pcbs : x # p => L[x] = K[x]
        /\ par[c] = NULL /\ \A x \in Pcbs : x # c => par[x] = parent[x]
    BY <1>1, <1>8
  <1> HIDE DEF L, par
  <1>10. ASSUME NEW x \in A PROVE NoRepeats(L[x]) /\ Linked(r, p_child(x), Sibs(L[x]))
    <2>1. CASE x = p
      BY <2>1, <1>6, <1>7, <1>8, <1>9 DEF h
    <2>2. CASE x # p
      <3> DEFINE s == Sibs(K[x])
      <3>1. /\ NoRepeats(K[x]) /\ x \in Pcbs
            /\ Listable(Nodes, p_child(x), s) /\ Linked(m, p_child(x), s)
            /\ Range(s) = {p_sib(d) : d \in {e \in Pcbs : parent[e] = x}}
        BY <1>0 DEF RingOf
      <3>2. \A y \in Range(s) \cup {p_child(x)} : y \in Nodes /\ y \notin Range(q) \cup {h}
        BY <3>1, <2>2, <1>2, NodeFacts DEF h
      <3> HIDE DEF s
      <3>3. Linked(r, p_child(x), s)
        BY <3>1, <3>2, <1>6, LinkedFrame
      <3> QED
        BY <3>1, <3>3, <2>2, <1>9 DEF s
    <2> QED
      BY <2>1, <2>2
  <1>11. ASSUME NEW x \in Pcbs, NEW d \in Pcbs PROVE d \in Range(L[x]) <=> par[d] = x
    <2>1. CASE x = p
      BY <2>1, <1>8, <1>9, <1>1 DEF Agrees
    <2>2. CASE x # p
      BY <2>2, <1>9, <1>1 DEF Agrees
    <2> QED
      BY <2>1, <2>2
  <1>12. ASSUME NEW d \in Pcbs, par[d] = NULL
         PROVE  r[p_sib(d)].next = NULL /\ r[p_sib(d)].prev = NULL
    <2>1. CASE d = c
      BY <2>1, <1>6
    <2>2. CASE d # c
      <3>1. parent[d] = NULL
        BY <2>2, <1>9, <1>12
      <3>2. p_sib(d) \in Nodes \ (Range(q) \cup {h})
        BY <3>1, <1>1, <1>2, NodeFacts DEF h
      <3> QED
        BY <3>1, <3>2, <1>6 DEF Agrees
    <2> QED
      BY <2>1, <2>2
  <1>13. Agrees(r, par, A, L)
    <2>1. \A x \in Pcbs \ A : L[x] = <<>>
      BY <1>1, <1>9 DEF Agrees
    <2>2. \A d \in Pcbs : par[d] # NULL => d \in A /\ par[d] \in A
      BY <1>9 DEF Agrees
    <2> QED
      BY <2>1, <2>2, <1>1, <1>6, <1>9, <1>10, <1>11, <1>12 DEF Agrees
  <1> QED
    BY <1>1, <1>2, <1>4, <1>13 DEF h, r, k, L, par

(* CREATEPROCESS: new is the youngest child of p.                          *)
LEMMA BearAgrees ==
  ASSUME NEW m, NEW parent, NEW A, NEW K, Agrees(m, parent, A, K),
         NEW p \in A, NEW new \in Pcbs \ A
  PROVE  Agrees(insertChild(resetPcb(m, new), p, new), [parent EXCEPT ![new] = p],
                A \cup {new}, [K EXCEPT ![p] = Append(@, new)])
  <1> DEFINE a == INIT_LIST_HEAD(m, p_child(new))
             b == [a EXCEPT ![p_sib(new)] = [next |-> NULL, prev |-> NULL]]
             r == list_add_tail(b, p_sib(new), p_child(p))
             par == [parent EXCEPT ![new] = p]
             L == [K EXCEPT ![p] = Append(K[p], new)]
             h == p_child(p)
             q == Sibs(K[p])
  <1>1. /\ m \in Memory(Nodes, NULL) /\ NULL \notin Pcbs
        /\ parent \in [Pcbs -> Pcbs \cup {NULL}] /\ A \subseteq Pcbs
        /\ K \in [Pcbs -> Seq(Pcbs)]
        /\ p \in Pcbs /\ new \in Pcbs /\ p # new
        /\ \A x \in Pcbs \ A : K[x] = <<>>
        /\ \A x, d \in Pcbs : d \in Range(K[x]) <=> parent[d] = x
        /\ \A d \in Pcbs : parent[d] # NULL => d \in A /\ parent[d] \in A
    BY FamilyAssumption DEF Agrees
  <1>2. \A x \in A : RingOf(m, parent, K, x)
    BY RingFacts
  <1>3. /\ a \in Memory(Nodes, NULL) /\ Linked(a, p_child(new), <<>>)
        /\ \A y \in Nodes \ {p_child(new)} : a[y] = m[y]
    <2>1. p_child(new) \in Nodes
      BY <1>1, NodeFacts
    <2> QED
      BY <1>1, <2>1, LinkedInit
  <1> HIDE DEF a
  <1>4. /\ b \in Memory(Nodes, NULL)
        /\ b[p_sib(new)].next = NULL /\ b[p_sib(new)].prev = NULL
        /\ \A y \in Nodes \ {p_sib(new)} :
             b[y].next = a[y].next /\ b[y].prev = a[y].prev
    <2>1. p_sib(new) \in Nodes
      BY <1>1, NodeFacts
    <2> QED
      BY <1>3, <2>1 DEF Memory
  <1> HIDE DEF b
  <1>5. \A y \in Nodes \ {p_sib(new), p_child(new)} :
          b[y].next = m[y].next /\ b[y].prev = m[y].prev
    BY <1>3, <1>4
  <1>6. ASSUME NEW x \in A
        PROVE  /\ Listable(Nodes, p_child(x), Sibs(K[x])) /\ Linked(b, p_child(x), Sibs(K[x]))
               /\ Range(Sibs(K[x])) = {p_sib(d) : d \in {e \in Pcbs : parent[e] = x}}
               /\ p_sib(new) \notin Range(Sibs(K[x])) \cup {p_child(x)}
               /\ p_child(new) \notin Range(Sibs(K[x])) \cup {p_child(x)}
               /\ Range(Sibs(K[x])) \cup {p_child(x)} \subseteq Nodes
               /\ NoRepeats(K[x]) /\ K[x] \in Seq(Pcbs)
    <2> DEFINE s == Sibs(K[x])
    <2>1. /\ Listable(Nodes, p_child(x), s) /\ Linked(m, p_child(x), s)
          /\ Range(s) = {p_sib(d) : d \in {e \in Pcbs : parent[e] = x}}
          /\ NoRepeats(K[x]) /\ K[x] \in Seq(Pcbs)
      BY <1>2 DEF RingOf
    <2>2. /\ p_sib(new) \notin Range(s) \cup {p_child(x)}
          /\ p_child(new) \notin Range(s) \cup {p_child(x)}
          /\ Range(s) \cup {p_child(x)} \subseteq Nodes
      BY <2>1, <1>1, NodeFacts
    <2> HIDE DEF s
    <2>3. Linked(b, p_child(x), s)
      BY <2>1, <2>2, <1>5, LinkedFrame
    <2> QED
      BY <2>1, <2>2, <2>3 DEF s
  <1>7. /\ r \in Memory(Nodes, NULL)
        /\ Linked(r, h, Append(q, p_sib(new)))
        /\ \A y \in Nodes \ (Range(q) \cup {h, p_sib(new)}) :
             r[y].next = b[y].next /\ r[y].prev = b[y].prev
    <2>1. /\ Listable(Nodes, h, q) /\ Linked(b, h, q)
          /\ p_sib(new) \in Nodes \ {h} /\ p_sib(new) \notin Range(q)
      BY <1>1, <1>6, NodeFacts
    <2>2. r = list_add_tail(b, p_sib(new), h)
      OBVIOUS
    <2> HIDE DEF q, h, r
    <2>3. LET l == list_add_tail(b, p_sib(new), h) IN
          /\ l \in Memory(Nodes, NULL)
          /\ Linked(l, h, Append(q, p_sib(new)))
          /\ \A y \in Nodes \ (Range(q) \cup {h, p_sib(new)}) :
               l[y].next = b[y].next /\ l[y].prev = b[y].prev
      BY <2>1, <1>4, AddTailLinked
    <2> QED
      BY <2>2, <2>3
  <1>8. Append(q, p_sib(new)) = Sibs(Append(K[p], new))
    BY <1>1, SibsChange
  <1>9. /\ Append(K[p], new) \in Seq(Pcbs) /\ NoRepeats(Append(K[p], new))
        /\ Range(Append(K[p], new)) = Range(K[p]) \cup {new}
    <2>1. new \notin Range(K[p])
      BY <1>1
    <2> QED
      BY <2>1, <1>1, <1>6, AppendFacts
  <1> HIDE DEF q, h, r
  <1>10. /\ L \in [Pcbs -> Seq(Pcbs)] /\ par \in [Pcbs -> Pcbs \cup {NULL}]
         /\ L[p] = Append(K[p], new) /\ \A x \in Pcbs : x # p => L[x] = K[x]
         /\ par[new] = p /\ \A x \in Pcbs : x # new => par[x] = parent[x]
    BY <1>1, <1>9
  <1> HIDE DEF L, par
  <1>11. ASSUME NEW x \in A \cup {new}
         PROVE  NoRepeats(L[x]) /\ Linked(r, p_child(x), Sibs(L[x]))
    <2>1. CASE x = p
      BY <2>1, <1>7, <1>8, <1>9, <1>10 DEF h
    <2>2. CASE x = new
      <3>1. L[x] = <<>> /\ Sibs(<<>>) = <<>>
        BY <2>2, <1>1, <1>10 DEF Sibs
      <3>2. p_child(new) \in Nodes \ (Range(q) \cup {h, p_sib(new)})
        BY <1>1, <1>6, NodeFacts DEF q, h
      <3>3. r[p_child(new)].next = a[p_child(new)].next /\ r[p_child(new)].prev = a[p_child(new)].prev
        BY <3>2, <1>4, <1>7
      <3>4. Listable(Nodes, p_child(new), <<>>) /\ NoRepeats(<<>>) /\ Range(<<>>) = {}
        BY <3>2 DEF Listable, NoRepeats, Range
      <3>5. Linked(r, p_child(new), <<>>)
        BY <3>3, <3>4, <1>3, LinkedFrame
      <3> QED
        BY <3>1, <3>4, <3>5, <2>2
    <2>3. CASE x # p /\ x # new
      <3> DEFINE s == Sibs(K[x])
      <3>1. x \in A /\ x \in Pcbs
        BY <2>3, <1>1
      <3>2. /\ Listable(Nodes, p_child(x), s) /\ Linked(b, p_child(x), s)
            /\ Range(s) = {p_sib(d) : d \in {e \in Pcbs : parent[e] = x}}
            /\ p_sib(new) \notin Range(s) \cup {p_child(x)}
            /\ Range(s) \cup {p_child(x)} \subseteq Nodes
            /\ NoRepeats(K[x])
        BY <3>1, <1>6
      <3>3. Range(q) = {p_sib(d) : d \in {e \in Pcbs : parent[e] = p}}
        BY <1>6 DEF q
      <3>4. \A y \in Range(s) \cup {p_child(x)} : y \in Nodes \ (Range(q) \cup {h, p_sib(new)})
        BY <3>1, <3>2, <3>3, <2>3, NodeFacts DEF h
      <3> HIDE DEF s
      <3>5. Linked(r, p_child(x), s)
        BY <3>2, <3>4, <1>7, LinkedFrame
      <3> QED
        BY <3>1, <3>2, <3>5, <2>3, <1>10 DEF s
    <2> QED
      BY <2>1, <2>2, <2>3
  <1>12. ASSUME NEW x \in Pcbs, NEW d \in Pcbs PROVE d \in Range(L[x]) <=> par[d] = x
    <2>0. d \in Range(K[x]) <=> parent[d] = x
      BY <1>1
    <2>1. CASE x = p
      <3>1. d \in Range(L[x]) <=> d \in Range(K[p]) \/ d = new
        BY <2>1, <1>9, <1>10
      <3>2. par[d] = x <=> parent[d] = p \/ d = new
        <4>1. CASE d = new
          BY <2>1, <4>1, <1>10
        <4>2. CASE d # new
          BY <2>1, <4>2, <1>10
        <4> QED
          BY <4>1, <4>2
      <3> QED
        BY <2>0, <2>1, <3>1, <3>2
    <2>2. CASE x # p
      <3>1. L[x] = K[x]
        BY <2>2, <1>10
      <3>2. CASE d = new
        <4>1. par[d] # x
          BY <2>2, <3>2, <1>10
        <4>2. parent[new] # x
          BY <1>1
        <4> QED
          BY <2>0, <3>1, <3>2, <4>1, <4>2
      <3>3. CASE d # new
        BY <2>0, <3>1, <3>3, <1>10
      <3> QED
        BY <3>2, <3>3
    <2> QED
      BY <2>1, <2>2
  <1>13. ASSUME NEW d \in Pcbs, par[d] = NULL
         PROVE  r[p_sib(d)].next = NULL /\ r[p_sib(d)].prev = NULL
    <2>1. d # new /\ parent[d] = NULL
      BY <1>13, <1>10, <1>1
    <2>2. Range(q) = {p_sib(e) : e \in {f \in Pcbs : parent[f] = p}}
      BY <1>6 DEF q
    <2>3. p_sib(d) \in Nodes \ (Range(q) \cup {h, p_sib(new), p_child(new)})
      BY <2>1, <2>2, <1>1, NodeFacts DEF h
    <2>4. m[p_sib(d)].next = NULL /\ m[p_sib(d)].prev = NULL
      BY <2>1 DEF Agrees
    <2> QED
      BY <2>3, <2>4, <1>5, <1>7
  <1>14. Agrees(r, par, A \cup {new}, L)
    <2>1. \A x \in Pcbs \ (A \cup {new}) : L[x] = <<>>
      BY <1>1, <1>10
    <2>2. \A d \in Pcbs : par[d] # NULL => d \in A \cup {new} /\ par[d] \in A \cup {new}
      BY <1>1, <1>10
    <2>3. A \cup {new} \subseteq Pcbs
      BY <1>1
    <2> QED
      BY <2>1, <2>2, <2>3, <1>7, <1>10, <1>11, <1>12, <1>13 DEF Agrees
  <1> QED
    BY <1>14 DEF r, b, a, par, L, h, insertChild, resetPcb, Unlinked

-----------------------------------------------------------------------------
(* Descendants.                                                            *)

(* p and its descendants, for any parents: Progeny of ProcFamily.          *)
Closed(parent, p, S) == p \in S /\ \A c \in Pcbs : parent[c] \in S => c \in S

Line(parent, p) ==
  {q \in Pcbs : \A S \in SUBSET Pcbs : Closed(parent, p, S) => q \in S}

LEMMA LineFacts ==
  ASSUME NEW parent, NEW p \in Pcbs
  PROVE  /\ Line(parent, p) \in SUBSET Pcbs /\ Closed(parent, p, Line(parent, p))
         /\ \A S \in SUBSET Pcbs : Closed(parent, p, S) => Line(parent, p) \subseteq S
         /\ IsFiniteSet(Line(parent, p)) /\ Cardinality(Line(parent, p)) \in Nat
  <1>1. /\ Line(parent, p) \in SUBSET Pcbs
        /\ \A S \in SUBSET Pcbs : Closed(parent, p, S) => Line(parent, p) \subseteq S
    BY DEF Line
  <1>2. Closed(parent, p, Line(parent, p))
    BY DEF Line, Closed
  <1>3. IsFiniteSet(Line(parent, p)) /\ Cardinality(Line(parent, p)) \in Nat
    BY <1>1, FamilyAssumption, FS_Subset, FS_CardinalityType
  <1> QED
    BY <1>1, <1>2, <1>3

(* The parent of a descendant is p or a descendant.                        *)
LEMMA LineUp ==
  ASSUME NEW parent, NEW p \in Pcbs, NEW x \in Line(parent, p), x # p
  PROVE  parent[x] \in Line(parent, p)
  <1> DEFINE S == Line(parent, p) \ {x}
  <1> SUFFICES ASSUME parent[x] \notin Line(parent, p) PROVE FALSE
    OBVIOUS
  <1>1. Line(parent, p) \in SUBSET Pcbs /\ Closed(parent, p, Line(parent, p))
    BY LineFacts
  <1>2. S \in SUBSET Pcbs /\ Closed(parent, p, S)
    BY <1>1 DEF Closed
  <1>3. Line(parent, p) \subseteq S
    BY <1>2, LineFacts
  <1> QED
    BY <1>3

(* Nothing above p matters.                                                *)
LEMMA LineCut ==
  ASSUME NEW parent \in [Pcbs -> Pcbs \cup {NULL}], NEW p \in Pcbs
  PROVE  Line([parent EXCEPT ![p] = NULL], p) = Line(parent, p)
  <1> DEFINE par == [parent EXCEPT ![p] = NULL]
  <1>1. \A S \in SUBSET Pcbs : Closed(par, p, S) <=> Closed(parent, p, S)
    BY FamilyAssumption DEF Closed
  <1> QED
    BY <1>1 DEF Line

LEMMA LineLeaf ==
  ASSUME NEW parent, NEW p \in Pcbs, \A c \in Pcbs : parent[c] # p
  PROVE  Line(parent, p) = {p}
  <1>1. {p} \in SUBSET Pcbs /\ Closed(parent, p, {p})
    BY DEF Closed
  <1>2. Line(parent, p) \subseteq {p} /\ p \in Line(parent, p)
    BY <1>1, LineFacts DEF Closed
  <1> QED
    BY <1>2

(* Once a child c of p is cut off, its descendants E and those of p, F,    *)
(* have nothing in common, and what becomes of E makes no difference to F. *)
Split(parent, p, c, par, E, F, rest) ==
  /\ parent \in [Pcbs -> Pcbs \cup {NULL}] /\ p \in Pcbs /\ c \in Pcbs
  /\ parent[p] = NULL /\ parent[c] = p
  /\ par = [parent EXCEPT ![c] = NULL]
  /\ E = Line(par, c) /\ F = Line(par, p)
  /\ rest = [x \in Pcbs |-> IF x \in E THEN NULL ELSE par[x]]

LEMMA LineSplit ==
  ASSUME NEW parent, NEW p, NEW c, NEW par, NEW E, NEW F, NEW rest,
         Split(parent, p, c, par, E, F, rest)
  PROVE  /\ E \in SUBSET Pcbs /\ F \in SUBSET Pcbs /\ c \in E /\ p \in F
         /\ E \cup F = Line(parent, p) /\ E \cap F = {}
         /\ Line(rest, p) = F
  <1> USE DEF Split
  <1>1. /\ NULL \notin Pcbs /\ par \in [Pcbs -> Pcbs \cup {NULL}] /\ c # p
        /\ par[c] = NULL /\ par[p] = NULL
        /\ \A x \in Pcbs : x # c => par[x] = parent[x]
    BY FamilyAssumption
  <1>2. /\ E \in SUBSET Pcbs /\ c \in E /\ \A x \in Pcbs : par[x] \in E => x \in E
        /\ F \in SUBSET Pcbs /\ p \in F /\ \A x \in Pcbs : par[x] \in F => x \in F
    <2>1. E \in SUBSET Pcbs /\ Closed(par, c, E)
      BY LineFacts
    <2>2. F \in SUBSET Pcbs /\ Closed(par, p, F)
      BY LineFacts
    <2> QED
      BY <2>1, <2>2 DEF Closed
  <1> DEFINE D == Line(parent, p)
             G == Line(rest, p)
  <1>3. D \in SUBSET Pcbs /\ p \in D /\ \A x \in Pcbs : parent[x] \in D => x \in D
    BY LineFacts DEF Closed
  <1>4. D \subseteq E \cup F
    <2>1. E \cup F \in SUBSET Pcbs /\ Closed(parent, p, E \cup F)
      BY <1>1, <1>2 DEF Closed
    <2> QED
      BY <2>1, LineFacts
  <1>5. F \subseteq D
    <2>1. Closed(par, p, D)
      BY <1>1, <1>3 DEF Closed
    <2> QED
      BY <2>1, <1>3, LineFacts
  <1>6. E \subseteq D
    <2>1. Closed(par, c, D)
      BY <1>1, <1>3 DEF Closed
    <2> QED
      BY <2>1, <1>3, LineFacts
  <1>7. E \cap F = {}
    <2>1. E \ F \in SUBSET Pcbs
      BY <1>2
    <2>2. c \notin F
      BY <1>1, <1>2, LineUp
    <2>3. p \notin E
      BY <1>1, <1>2, LineUp
    <2>4. ASSUME NEW x \in Pcbs, par[x] \in E \ F, x \in F PROVE FALSE
      <3>1. x \in E /\ x # p
        BY <2>3, <2>4, <1>2
      <3> QED
        BY <2>4, <3>1, LineUp
    <2>5. Closed(par, c, E \ F)
      BY <1>2, <2>2, <2>4 DEF Closed
    <2>6. E \subseteq E \ F
      BY <2>1, <2>5, LineFacts
    <2> QED
      BY <2>6
  <1>8. /\ G \in SUBSET Pcbs /\ p \in G /\ \A x \in Pcbs : rest[x] \in G => x \in G
        /\ \A x \in Pcbs : rest[x] = IF x \in E THEN NULL ELSE par[x]
    <2>1. p \in Pcbs /\ \A x \in Pcbs : rest[x] = IF x \in E THEN NULL ELSE par[x]
      OBVIOUS
    <2> HIDE DEF Split
    <2>2. G \in SUBSET Pcbs /\ Closed(rest, p, G)
      BY <2>1, LineFacts
    <2> HIDE DEF G
    <2> QED
      BY <2>1, <2>2 DEF Closed
  <1>9. G \subseteq F
    <2>1. Closed(rest, p, F)
      BY <1>1, <1>2, <1>8 DEF Closed
    <2>2. F \in SUBSET Pcbs
      BY <1>2
    <2> QED
      BY <2>1, <2>2, LineFacts
  <1>10. F \subseteq G
    <2>1. G \cup E \in SUBSET Pcbs /\ Closed(par, p, G \cup E)
      BY <1>1, <1>2, <1>8 DEF Closed
    <2>2. F \subseteq G \cup E
      BY <2>1, LineFacts
    <2> QED
      BY <2>2, <1>7
  <1> QED
    BY <1>2, <1>4, <1>5, <1>6, <1>7, <1>9, <1>10

-----------------------------------------------------------------------------
(* The recursion of __terminateProcess.                                    *)

(* What is left to do without children, and with one, when g does it for   *)
(* fewer descendants.                                                      *)
Buried(v, q) == [v EXCEPT !.free = <<q>> \o @]
First(v, q) == v.sibs[p_child(q)].next[1]

Leaves == [x \in Worlds \X Pcbs |-> Buried(x[1], x[2])]

Again(n, g) ==
  [x \in Worlds \X Pcbs |->
     LET v == x[1]
         q == x[2]
     IN  IF n = 0 \/ list_empty(v.sibs, p_child(q)) THEN Buried(v, q)
         ELSE g[<<g[<<outChild(v, First(v, q)), First(v, q)>>], q>>]]

(* The function Terminate defines is there, and obeys its definition.      *)
LEMMA TerminateRecursion ==
  \E t : /\ t[0] = Leaves
         /\ \A n \in 1..Cardinality(Pcbs) : t[n] = Again(n, t[n - 1])
         /\ \A w, p : Terminate(w, p) = t[Cardinality(Pcbs)][<<w, p>>]
  <1> DEFINE N == Cardinality(Pcbs)
             Runs(M, f) == f = [n \in 0..M |-> IF n = 0 THEN Leaves ELSE Again(n, f[n - 1])]
             Body(n, g) == [x \in Worlds \X Pcbs |->
                              LET v == x[1]
                                  q == x[2]
                                  c == v.sibs[p_child(q)].next[1]
                              IN  IF n = 0 \/ list_empty(v.sibs, p_child(q))
                                  THEN [v EXCEPT !.free = <<q>> \o @]
                                  ELSE g[<<g[<<outChild(v, c), c>>], q>>]]
             Full(f) == f = [n \in 0..N |-> Body(n, f[n - 1])]
             t == CHOOSE f : Full(f)
  <1>1. N \in Nat
    BY FamilyAssumption, FS_CardinalityType
  <1> HIDE DEF N
  <1>2. \A M \in Nat : \E f : Runs(M, f)
    <2> DEFINE Bad == {M \in Nat : ~ \E f : Runs(M, f)}
    <2> SUFFICES ASSUME Bad # {} PROVE FALSE
      OBVIOUS
    <2>1. PICK M \in Bad : \A j \in Bad : M <= j
      <3>1. Bad \in SUBSET Nat
        OBVIOUS
      <3> HIDE DEF Bad
      <3> QED
        BY <3>1, LeastExists
    <2>2. CASE M = 0
      <3> DEFINE f == [n \in 0..0 |-> Leaves]
      <3>1. f = [n \in 0..0 |-> IF n = 0 THEN Leaves ELSE Again(n, f[n - 1])]
        OBVIOUS
      <3> QED
        BY <3>1, <2>1, <2>2
    <2>3. CASE M # 0
      <3>1. M \in Nat /\ M - 1 \in Nat /\ M - 1 \notin Bad
        <4>1. M \in Nat
          BY <2>1
        <4>2. M - 1 \in Nat /\ ~(M <= M - 1)
          BY <4>1, <2>3
        <4> HIDE DEF Bad
        <4> QED
          BY <4>1, <4>2, <2>1
      <3>2. PICK g : Runs(M - 1, g)
        BY <3>1
      <3> DEFINE f == [n \in 0..M |-> IF n = M THEN Again(M, g[M - 1]) ELSE g[n]]
      <3>3. \A n \in 0..(M - 1) : g[n] = IF n = 0 THEN Leaves ELSE Again(n, g[n - 1])
        BY <3>2
      <3>4. ASSUME NEW n \in 0..M
            PROVE  f[n] = IF n = 0 THEN Leaves ELSE Again(n, f[n - 1])
        <4>1. CASE n = M
          <5>1. n # 0 /\ n - 1 = M - 1 /\ M - 1 \in 0..M /\ M - 1 # M
            BY <4>1, <3>1, <2>3
          <5>2. f[M - 1] = g[M - 1] /\ f[M] = Again(M, g[M - 1])
            BY <5>1, <3>1
          <5> HIDE DEF f
          <5> QED
            BY <5>1, <5>2, <4>1
        <4>2. CASE n # M
          <5>1. n \in 0..(M - 1)
            BY <4>2, <3>1
          <5>2. f[n] = g[n]
            BY <4>2
          <5>3. n # 0 => n - 1 \in 0..M /\ n - 1 # M
            BY <5>1, <3>1
          <5>4. n # 0 => f[n - 1] = g[n - 1]
            BY <5>3
          <5> HIDE DEF f
          <5> QED
            BY <5>1, <5>2, <5>4, <3>3
        <4> QED
          BY <4>1, <4>2
      <3>5. f = [n \in 0..M |-> f[n]]
        OBVIOUS
      <3> HIDE DEF f
      <3>6. Runs(M, f)
        BY <3>4, <3>5
      <3> QED
        BY <3>6, <2>1
    <2> QED
      BY <2>2, <2>3
  <1>3. \A g : Body(0, g) = Leaves
    BY DEF Leaves, Buried
  <1>4. \A g, n : Body(n, g) = Again(n, g)
    BY DEF Again, Buried, First
  <1> HIDE DEF Body
  <1>5. \A f : Runs(N, f) => Full(f)
    BY <1>3, <1>4
  <1>6. Full(t)
    <2>1. \E f : Runs(N, f)
      BY <1>1, <1>2
    <2> HIDE DEF Runs, Full
    <2>2. \E f : Full(f)
      BY <2>1, <1>5
    <2> QED
      BY <2>2
  <1>7. \A w, p : Terminate(w, p) = t[N][<<w, p>>]
    BY DEF Terminate, Body, N
  <1> HIDE DEF t
  <1>8. t[0] = Leaves
    BY <1>1, <1>3, <1>6
  <1>9. \A n \in 1..N : t[n] = Again(n, t[n - 1])
    BY <1>1, <1>4, <1>6
  <1> QED
    BY <1>7, <1>8, <1>9 DEF N

(* p, without a parent, is to be terminated with no more than n            *)
(* descendants, in the world w with the family K; and the world v when     *)
(* this is done.                                                           *)
Living(w) == Pcbs \ Range(w.free)

Doomed(w, p, K, n) ==
  /\ w \in Worlds /\ NoRepeats(w.free)
  /\ Agrees(w.sibs, w.parent, Living(w), K)
  /\ p \in Living(w) /\ w.parent[p] = NULL
  /\ Cardinality(Line(w.parent, p)) <= n + 1

Orphaned(parent, D) == [q \in Pcbs |-> IF q \in D THEN NULL ELSE parent[q]]
Childless(K, D) == [q \in Pcbs |-> IF q \in D THEN <<>> ELSE K[q]]

Done(w, p, K, v) ==
  /\ v \in Worlds /\ NoRepeats(v.free)
  /\ Range(v.free) = Range(w.free) \cup Line(w.parent, p)
  /\ v.parent = Orphaned(w.parent, Line(w.parent, p))
  /\ Agrees(v.sibs, v.parent, Living(v), Childless(K, Line(w.parent, p)))

LEMMA WorldFacts ==
  ASSUME NEW w \in Worlds
  PROVE  /\ w.sibs \in Memory(Nodes, NULL)
         /\ w.parent \in [Pcbs -> Pcbs \cup {NULL}]
         /\ w.free \in Seq(Pcbs)
  BY DEF Worlds, Memory

(* A process without children.                                             *)
LEMMA LeafStep ==
  ASSUME NEW w, NEW p, NEW K, NEW n, Doomed(w, p, K, n), K[p] = <<>>
  PROVE  Done(w, p, K, Buried(w, p))
  <1> DEFINE v == Buried(w, p)
             A == Living(w)
  <1>1. /\ w \in Worlds /\ NoRepeats(w.free) /\ Agrees(w.sibs, w.parent, A, K)
        /\ p \in A /\ w.parent[p] = NULL
        /\ p \in Pcbs /\ p \notin Range(w.free)
    BY DEF Doomed, Living
  <1>2. /\ w.free \in Seq(Pcbs) /\ w.parent \in [Pcbs -> Pcbs \cup {NULL}]
        /\ K \in [Pcbs -> Seq(Pcbs)]
    BY <1>1, WorldFacts DEF Agrees
  <1>3. /\ <<p>> \o w.free \in Seq(Pcbs) /\ NoRepeats(<<p>> \o w.free)
        /\ Range(<<p>> \o w.free) = {p} \cup Range(w.free)
    BY <1>1, <1>2, ConsFacts
  <1>4. /\ v \in Worlds /\ v.free = <<p>> \o w.free
        /\ v.parent = w.parent /\ v.sibs = w.sibs
    BY <1>1, <1>3 DEF Buried, Worlds
  <1> HIDE DEF v
  <1>5. Line(w.parent, p) = {p}
    <2>1. Range(<<>>) = {}
      BY DEF Range
    <2>2. \A c \in Pcbs : w.parent[c] # p
      BY <2>1, <1>1 DEF Agrees
    <2> QED
      BY <2>2, <1>1, LineLeaf
  <1>6. w.parent = Orphaned(w.parent, {p})
    BY <1>1, <1>2 DEF Orphaned
  <1>7. K = Childless(K, {p})
    BY <1>2 DEF Childless
  <1>8. Living(v) = A \ {p}
    BY <1>3, <1>4 DEF Living
  <1>9. Agrees(w.sibs, w.parent, A \ {p}, K)
    <2> HIDE DEF A
    <2> QED
      BY <1>1, BuryAgrees
  <1>10. Done(w, p, K, v)
    BY <1>3, <1>4, <1>5, <1>6, <1>7, <1>8, <1>9 DEF Done
  <1> QED
    BY <1>10 DEF v

(* outChild on the first child, or on any process with a parent.           *)
Leaving(w, K, c, p, u) ==
  /\ w \in Worlds /\ Agrees(w.sibs, w.parent, Living(w), K)
  /\ c \in Pcbs /\ p = w.parent[c] /\ p # NULL
  /\ u = outChild(w, c)

LEMMA OutChildStep ==
  ASSUME NEW w, NEW K, NEW c, NEW p, NEW u, Leaving(w, K, c, p, u)
  PROVE  /\ u \in Worlds /\ u.free = w.free /\ p \in Living(w)
         /\ u.parent = [w.parent EXCEPT ![c] = NULL]
         /\ Agrees(u.sibs, u.parent, Living(w), [K EXCEPT ![p] = Without(@, {c})])
  <1>1. /\ p \in Living(w) /\ ~list_empty(w.sibs, p_child(p))
        /\ Agrees(list_del(w.sibs, p_sib(c), NULL), [w.parent EXCEPT ![c] = NULL],
                  Living(w), [K EXCEPT ![p] = Without(@, {c})])
    BY DetachAgrees DEF Leaving
  <1>2. u = [w EXCEPT !.sibs = list_del(w.sibs, p_sib(c), NULL), !.parent[c] = NULL]
    BY <1>1 DEF outChild, Leaving
  <1>3. /\ list_del(w.sibs, p_sib(c), NULL) \in Memory(Nodes, NULL)
        /\ [w.parent EXCEPT ![c] = NULL] \in [Pcbs -> Pcbs \cup {NULL}]
    BY <1>1 DEF Agrees
  <1>4. /\ u.sibs = list_del(w.sibs, p_sib(c), NULL)
        /\ u.parent = [w.parent EXCEPT ![c] = NULL] /\ u.free = w.free
        /\ u \in Worlds
    BY <1>2, <1>3 DEF Worlds, Memory, Leaving
  <1> QED
    BY <1>1, <1>4

LEMMA ChildStep ==
  ASSUME NEW w, NEW p, NEW K, NEW n \in Nat, Doomed(w, p, K, n), K[p] # <<>>
  PROVE  LET c == First(w, p)
             u == outChild(w, c)
             L == [K EXCEPT ![p] = Without(@, {c})]
             M == Childless(L, Line(u.parent, c)) IN
         /\ ~list_empty(w.sibs, p_child(p)) /\ c \in Pcbs
         /\ n - 1 \in Nat /\ Doomed(u, c, L, n - 1)
         /\ \A x : Done(u, c, L, x) =>
              /\ Doomed(x, p, M, n - 1)
              /\ \A v : Done(x, p, M, v) => Done(w, p, K, v)
  <1> DEFINE c == First(w, p)
             u == outChild(w, c)
             L == [K EXCEPT ![p] = Without(@, {c})]
             par == [w.parent EXCEPT ![c] = NULL]
             D == Line(w.parent, p)
             E == Line(par, c)
             F == Line(par, p)
             rest == [x \in Pcbs |-> IF x \in E THEN NULL ELSE par[x]]
             M == Childless(L, E)
  <1>1. /\ w \in Worlds /\ NoRepeats(w.free) /\ Agrees(w.sibs, w.parent, Living(w), K)
        /\ p \in Living(w) /\ w.parent[p] = NULL /\ Cardinality(D) <= n + 1
        /\ p \in Pcbs /\ p # NULL /\ p \notin Range(w.free)
        /\ K \in [Pcbs -> Seq(Pcbs)]
        /\ w.parent \in [Pcbs -> Pcbs \cup {NULL}]
    BY WorldFacts, FamilyAssumption DEF Doomed, Living, Agrees
  <1>2. c \in Pcbs /\ w.parent[c] = p /\ ~list_empty(w.sibs, p_child(p))
    <2>1. RingOf(w.sibs, w.parent, K, p)
      BY <1>1, RingFacts
    <2>2. /\ w.sibs[p_child(p)].next = p_sib(Head(K[p]))
          /\ Head(K[p]) \in Pcbs /\ w.parent[Head(K[p])] = p
          /\ ~list_empty(w.sibs, p_child(p))
      BY <2>1 DEF RingOf
    <2>3. c = Head(K[p])
      BY <2>2, NodeFacts DEF First
    <2> QED
      BY <2>2, <2>3
  <1> HIDE DEF c
  <1>3. /\ u \in Worlds /\ u.free = w.free /\ u.parent = par
        /\ Agrees(u.sibs, par, Living(w), L)
    <2> HIDE DEF u
    <2>1. Leaving(w, K, c, p, u)
      BY <1>1, <1>2 DEF Leaving, u
    <2>2. /\ u \in Worlds /\ u.free = w.free /\ p \in Living(w)
          /\ u.parent = [w.parent EXCEPT ![c] = NULL]
          /\ Agrees(u.sibs, u.parent, Living(w), [K EXCEPT ![p] = Without(@, {c})])
      BY <2>1, OutChildStep
    <2> HIDE DEF L
    <2>3. L = [K EXCEPT ![p] = Without(@, {c})]
      BY DEF L
    <2> QED
      BY <2>2, <2>3
  <1> HIDE DEF u
  <1>4. /\ E \in SUBSET Pcbs /\ F \in SUBSET Pcbs /\ c \in E /\ p \in F
        /\ E \cup F = D /\ E \cap F = {} /\ Line(rest, p) = F
    <2> HIDE DEF par, E, F, rest
    <2>1. Split(w.parent, p, c, par, E, F, rest)
      BY <1>1, <1>2 DEF Split, par, E, F, rest
    <2> QED
      BY <2>1, LineSplit DEF D
  <1>5. /\ n - 1 \in Nat /\ Cardinality(E) <= (n - 1) + 1 /\ Cardinality(F) <= (n - 1) + 1
    <2>1. IsFiniteSet(E) /\ IsFiniteSet(F)
      BY <1>4, FamilyAssumption, FS_Subset
    <2>2. /\ Cardinality(E) \in Nat /\ Cardinality(E) # 0
          /\ Cardinality(F) \in Nat /\ Cardinality(F) # 0
      BY <1>4, <2>1, FS_CardinalityType, FS_EmptySet
    <2>3. Cardinality(E \cup F) = Cardinality(E) + Cardinality(F) - Cardinality(E \cap F)
      BY <2>1, FS_Union
    <2>4. Cardinality(E \cap F) = 0
      BY <1>4, FS_EmptySet
    <2> HIDE DEF E, F, D
    <2>5. Cardinality(E \cup F) = Cardinality(D)
      BY <1>4, Zenon
    <2>6. Cardinality(E) + Cardinality(F) <= n + 1
      BY <2>2, <2>3, <2>4, <2>5, <1>1
    <2> QED
      BY <2>2, <2>6
  <1>6. /\ par \in [Pcbs -> Pcbs \cup {NULL}] /\ par[c] = NULL /\ par[p] = NULL
        /\ \A x \in Pcbs : x # c => par[x] = w.parent[x]
    BY <1>1, <1>2
  <1>7. c \in Living(w)
    BY <1>1, <1>2 DEF Agrees
  <1> HIDE DEF par, E, F, D, L
  <1>8. Doomed(u, c, L, n - 1)
    BY <1>1, <1>3, <1>5, <1>6, <1>7 DEF Doomed, Living, E
  <1>9. ASSUME NEW x, Done(u, c, L, x)
        PROVE  /\ Doomed(x, p, M, n - 1)
               /\ \A v : Done(x, p, M, v) => Done(w, p, K, v)
    <2>1. /\ x \in Worlds /\ NoRepeats(x.free)
          /\ Range(x.free) = Range(w.free) \cup E
          /\ x.parent = Orphaned(par, E)
          /\ Agrees(x.sibs, x.parent, Living(x), M)
      BY <1>3, <1>9 DEF Done, E
    <2>2. x.parent = rest
      BY <2>1 DEF Orphaned
    <2>3. p \in Living(x) /\ x.parent[p] = NULL
      BY <1>1, <1>4, <1>6, <2>1, <2>2 DEF Living
    <2>4. Line(x.parent, p) = F
      BY <1>4, <2>2
    <2>5. Doomed(x, p, M, n - 1)
      BY <2>1, <2>3, <2>4, <1>5 DEF Doomed
    <2>6. ASSUME NEW v, Done(x, p, M, v) PROVE Done(w, p, K, v)
      <3>1. /\ v \in Worlds /\ NoRepeats(v.free)
            /\ Range(v.free) = Range(x.free) \cup F
            /\ v.parent = Orphaned(x.parent, F)
            /\ Agrees(v.sibs, v.parent, Living(v), Childless(M, F))
        BY <2>4, <2>6 DEF Done
      <3>2. Range(v.free) = Range(w.free) \cup D
        BY <3>1, <2>1, <1>4
      <3>3. Orphaned(rest, F) = Orphaned(w.parent, D)
        <4>1. \A y \in Pcbs : Orphaned(rest, F)[y] = Orphaned(w.parent, D)[y]
          BY <1>4, <1>6 DEF Orphaned
        <4> QED
          BY <4>1 DEF Orphaned
      <3>4. Childless(M, F) = Childless(K, D)
        <4>1. \A y \in Pcbs : y # p => L[y] = K[y]
          BY <1>1 DEF L
        <4>2. \A y \in Pcbs : Childless(M, F)[y] = Childless(K, D)[y]
          BY <1>4, <4>1 DEF Childless
        <4> QED
          BY <4>2 DEF Childless
      <3> QED
        BY <3>1, <3>2, <3>3, <3>4, <2>2 DEF Done, D
    <2> QED
      BY <2>5, <2>6
  <1> HIDE DEF M
  <1>10. M = Childless(L, Line(u.parent, c))
    BY <1>3 DEF M, E
  <1> QED
    BY <1>2, <1>5, <1>8, <1>9, <1>10 DEF u, c, L

(* For every world and every process: after the call the process and its   *)
(* descendants are free, and all else is as it was.                        *)
LEMMA TerminateDone ==
  ASSUME NEW w, NEW p, NEW K, Doomed(w, p, K, Cardinality(Pcbs))
  PROVE  Done(w, p, K, Terminate(w, p))
  <1> DEFINE N == Cardinality(Pcbs)
  <1>1. N \in Nat
    BY FamilyAssumption, FS_CardinalityType
  <1>2. PICK t : /\ t[0] = Leaves
                 /\ \A n \in 1..N : t[n] = Again(n, t[n - 1])
                 /\ \A x, q : Terminate(x, q) = t[N][<<x, q>>]
    <2>1. \E t : /\ t[0] = Leaves
                 /\ \A n \in 1..N : t[n] = Again(n, t[n - 1])
                 /\ \A x, q : Terminate(x, q) = t[N][<<x, q>>]
      BY TerminateRecursion, Zenon
    <2> QED
      BY <2>1, Zenon
  <1> HIDE DEF N
  <1> DEFINE Works(n) == \A x, q, G : Doomed(x, q, G, n) => Done(x, q, G, t[n][<<x, q>>])
             Bad == {n \in 0..N : ~Works(n)}
  <1>3. \A x, q, G, n : Doomed(x, q, G, n) => x \in Worlds /\ q \in Pcbs
                                              /\ Agrees(x.sibs, x.parent, Living(x), G)
                                              /\ q \in Living(x)
    BY DEF Doomed, Living
  <1>4. ASSUME NEW x, NEW q, NEW G, NEW n, Doomed(x, q, G, n)
        PROVE  list_empty(x.sibs, p_child(q)) <=> G[q] = <<>>
    <2>1. RingOf(x.sibs, x.parent, G, q)
      BY <1>3, <1>4, RingFacts
    <2> QED
      BY <2>1 DEF RingOf
  <1>5. Works(0)
    <2> SUFFICES ASSUME NEW x, NEW q, NEW G, Doomed(x, q, G, 0)
                 PROVE  Done(x, q, G, t[0][<<x, q>>])
      OBVIOUS
    <2>1. x \in Worlds /\ q \in Pcbs
      BY <1>3
    <2>2. t[0][<<x, q>>] = Buried(x, q)
      BY <1>2, <2>1 DEF Leaves
    <2>3. G[q] = <<>>
      <3>1. CASE G[q] # <<>>
        <4>1. 0 \in Nat /\ ~(0 - 1 \in Nat)
          OBVIOUS
        <4>2. 0 - 1 \in Nat
          BY <3>1, <4>1, ChildStep
        <4> QED
          BY <4>1, <4>2
      <3> QED
        BY <3>1
    <2> QED
      BY <2>2, <2>3, LeafStep
  <1>6. ASSUME NEW n \in 1..N, Works(n - 1) PROVE Works(n)
    <2> SUFFICES ASSUME NEW x, NEW q, NEW G, Doomed(x, q, G, n)
                 PROVE  Done(x, q, G, t[n][<<x, q>>])
      OBVIOUS
    <2> DEFINE g == t[n - 1]
               c == First(x, q)
               u == outChild(x, c)
    <2>1. x \in Worlds /\ q \in Pcbs /\ n \in Nat /\ n # 0
      BY <1>1, <1>3
    <2>2. t[n][<<x, q>>] = IF list_empty(x.sibs, p_child(q)) THEN Buried(x, q)
                       ELSE g[<<g[<<u, c>>], q>>]
      <3>1. t[n] = Again(n, g)
        BY <1>2
      <3> HIDE DEF g
      <3>2. Again(n, g)[<<x, q>>] = IF list_empty(x.sibs, p_child(q)) THEN Buried(x, q)
                                ELSE g[<<g[<<u, c>>], q>>]
        BY <2>1 DEF Again
      <3> QED
        BY <3>1, <3>2
    <2>3. CASE G[q] = <<>>
      BY <2>2, <2>3, <1>4, LeafStep
    <2>4. CASE G[q] # <<>>
      <3> DEFINE L == [G EXCEPT ![q] = Without(@, {c})]
                 M == Childless(L, Line(u.parent, c))
                 y == g[<<u, c>>]
                 v == g[<<y, q>>]
      <3>1. /\ ~list_empty(x.sibs, p_child(q)) /\ Doomed(u, c, L, n - 1)
            /\ \A z : Done(u, c, L, z) =>
                 /\ Doomed(z, q, M, n - 1)
                 /\ \A s : Done(z, q, M, s) => Done(x, q, G, s)
        BY <2>1, <2>4, ChildStep
      <3>2. t[n][<<x, q>>] = v
        BY <2>2, <3>1
      <3> HIDE DEF g, c, u, L, M
      <3>3. \A z, r, H : Doomed(z, r, H, n - 1) => Done(z, r, H, g[<<z, r>>])
        BY <1>6 DEF g
      <3>4. Done(u, c, L, y)
        BY <3>1, <3>3
      <3> HIDE DEF y
      <3>5. Doomed(y, q, M, n - 1)
        BY <3>1, <3>4
      <3>6. Done(y, q, M, v)
        BY <3>3, <3>5
      <3> HIDE DEF v
      <3> QED
        BY <3>1, <3>2, <3>4, <3>6
    <2> QED
      BY <2>3, <2>4
  <1> HIDE DEF Works
  <1>7. Bad = {}
    <2> SUFFICES ASSUME Bad # {} PROVE FALSE
      OBVIOUS
    <2>1. PICK n \in Bad : \A j \in Bad : n <= j
      <3>1. Bad \in SUBSET Nat
        BY <1>1
      <3> HIDE DEF Bad
      <3> QED
        BY <3>1, LeastExists
    <2>2. n \in 0..N /\ ~Works(n)
      BY <2>1
    <2>3. n # 0
      BY <2>2, <1>5
    <2>4. n \in 1..N /\ n - 1 \in 0..N /\ ~(n <= n - 1)
      BY <2>2, <2>3, <1>1
    <2>5. n - 1 \notin Bad
      <3> HIDE DEF Bad
      <3> QED
        BY <2>1, <2>4
    <2>6. Works(n - 1)
      BY <2>4, <2>5
    <2> QED
      BY <2>2, <2>4, <2>6, <1>6
  <1>8. Works(N)
    BY <1>1, <1>7
  <1> QED
    BY <1>2, <1>8 DEF Works, N

-----------------------------------------------------------------------------
(* The states.                                                             *)

(* The family a traversal of the rings shows.                              *)
Kin == [p \in Pcbs |-> IF p \in Alive THEN Children(p) ELSE <<>>]

IInv ==
  /\ pcbFree \in Seq(Pcbs) /\ NoRepeats(pcbFree)
  /\ Agrees(sibs, p_parent, Alive, Kin)

LEMMA SeenKin ==
  ASSUME NEW K, Agrees(sibs, p_parent, Alive, K)
  PROVE  Kin = K
  <1>1. [p \in Pcbs |-> IF p \in Alive THEN KidsOf(sibs, p) ELSE <<>>] = K
    BY FamilySeen
  <1> QED
    BY <1>1 DEF Kin, Children, KidsOf

LEMMA SeenKinNext ==
  ASSUME NEW K, Agrees(sibs', p_parent', Alive', K)
  PROVE  Kin' = K
  <1>1. [p \in Pcbs |-> IF p \in Alive' THEN KidsOf(sibs', p) ELSE <<>>] = K
    BY FamilySeen
  <1> QED
    BY <1>1 DEF Kin, Children, KidsOf

(* The arguments of the refinement.                                        *)
LEMMA Seen ==
  /\ PF!Init <=> /\ \E root \in Pcbs : Alive = {root}
                 /\ Kin = [p \in Pcbs |-> <<>>]
                 /\ p_parent = [p \in Pcbs |-> NULL]
  /\ \A p : PF!Progeny(p) = Line(p_parent, p)
  /\ Alive' = Alive /\ Kin' = Kin /\ p_parent' = p_parent => UNCHANGED PF!vars
  <1>1. PF!Init <=> /\ \E root \in Pcbs : Alive = {root}
                    /\ Kin = [p \in Pcbs |-> <<>>]
                    /\ p_parent = [p \in Pcbs |-> NULL]
    BY DEF PF!Init, Kin
  <1>2. \A p : PF!Progeny(p) = Line(p_parent, p)
    BY DEF PF!Progeny, Line, Closed
  <1>3. Alive' = Alive /\ Kin' = Kin /\ p_parent' = p_parent => UNCHANGED PF!vars
    BY DEF PF!vars, Kin
  <1> QED
    BY <1>1, <1>2, <1>3

LEMMA InitStep ==
  ASSUME Init
  PROVE  IInv /\ PF!Init
  <1> DEFINE N == Cardinality(Pcbs)
             m == [n \in Nodes |-> Unlinked(NULL)]
             K == [p \in Pcbs |-> <<>>]
  <1>1. PICK table \in [1..N -> Pcbs] :
          /\ NoRepeats(table) /\ pcbFree = Tail(table)
          /\ sibs = resetPcb(m, Head(table))
    BY DEF Init
  <1> DEFINE root == Head(table)
  <1>2. N \in Nat /\ N # 0
    BY FamilyAssumption, FS_CardinalityType, FS_EmptySet
  <1>3. /\ table \in Seq(Pcbs) /\ table # <<>> /\ Range(table) = Pcbs
    <2>1. table \in Injection(1..N, Pcbs)
      BY <1>1 DEF NoRepeats, Injection, IsInjective
    <2>2. Cardinality(1..N) = N
      BY <1>2, FS_Interval
    <2>3. table \in Surjection(1..N, Pcbs)
      BY <2>1, <2>2, FamilyAssumption, FS_Injection
    <2>4. Range(table) = Pcbs
      BY <2>3, <1>1 DEF Surjection, Range
    <2> QED
      BY <2>4, <1>1, <1>2
  <1>4. /\ root \in Pcbs /\ pcbFree \in Seq(Pcbs) /\ NoRepeats(pcbFree)
        /\ Alive = {root}
    <2>1. /\ root \in Range(table) /\ Tail(table) \in Seq(Pcbs)
          /\ Range(Tail(table)) = Range(table) \ {root} /\ NoRepeats(Tail(table))
      BY <1>1, <1>3, TailFacts
    <2> QED
      BY <2>1, <1>1, <1>3 DEF Alive
  <1> HIDE DEF root
  <1>5. m \in Memory(Nodes, NULL)
    BY DEF Memory, Unlinked
  <1>6. /\ sibs \in Memory(Nodes, NULL) /\ Linked(sibs, p_child(root), <<>>)
        /\ \A p \in Pcbs : sibs[p_sib(p)].next = NULL /\ sibs[p_sib(p)].prev = NULL
    <2> DEFINE h == p_child(root)
               a == INIT_LIST_HEAD(m, h)
               d == p_sib(root)
    <2>1. h \in Nodes /\ d \in Nodes /\ h # d
      BY <1>4, NodeFacts
    <2>2. /\ a \in Memory(Nodes, NULL) /\ Linked(a, h, <<>>) /\ Listable(Nodes, h, <<>>)
          /\ \A y \in Nodes \ {h} : a[y] = m[y]
      <3> HIDE DEF m
      <3> QED
        BY <2>1, <1>5, LinkedInit
    <2>3. sibs = [a EXCEPT ![d] = Unlinked(NULL)]
      BY <1>1 DEF resetPcb, root
    <2> HIDE DEF a, h, d
    <2>4. /\ sibs \in Memory(Nodes, NULL)
          /\ \A y \in Nodes \ {d} : sibs[y] = a[y]
          /\ sibs[d] = Unlinked(NULL)
      BY <2>1, <2>2, <2>3 DEF Memory, Unlinked
    <2>5. Range(<<>>) = {}
      BY DEF Range
    <2>6. Linked(sibs, h, <<>>)
      BY <2>1, <2>2, <2>4, <2>5, LinkedFrame
    <2>7. ASSUME NEW p \in Pcbs
          PROVE  sibs[p_sib(p)].next = NULL /\ sibs[p_sib(p)].prev = NULL
      <3>1. p_sib(p) \in Nodes \ {h}
        BY NodeFacts DEF h
      <3>2. sibs[p_sib(p)] = Unlinked(NULL)
        BY <3>1, <2>2, <2>4
      <3> QED
        BY <3>2 DEF Unlinked
    <2> QED
      BY <2>4, <2>6, <2>7 DEF h
  <1>7. p_parent = [p \in Pcbs |-> NULL]
    BY DEF Init
  <1>8. Agrees(sibs, p_parent, Alive, K)
    <2>1. NoRepeats(<<>>) /\ Range(<<>>) = {} /\ <<>> \in Seq(Pcbs) /\ Sibs(<<>>) = <<>>
      BY DEF NoRepeats, Range, Sibs
    <2>2. NULL \notin Pcbs
      BY FamilyAssumption
    <2>3. K \in [Pcbs -> Seq(Pcbs)] /\ \A p \in Pcbs : K[p] = <<>>
      BY <2>1
    <2> HIDE DEF K, m
    <2> QED
      BY <2>1, <2>2, <2>3, <1>4, <1>6, <1>7 DEF Agrees
  <1>9. Kin = K
    BY <1>8, SeenKin
  <1> QED
    BY <1>4, <1>7, <1>8, <1>9, Seen DEF IInv

(* A state which agrees with a family K satisfies the invariant.           *)
LEMMA AgreesNext ==
  ASSUME NEW K, Agrees(sibs', p_parent', Alive', K),
         pcbFree' \in Seq(Pcbs), NoRepeats(pcbFree')
  PROVE  IInv' /\ Kin' = K
  BY SeenKinNext DEF IInv

LEMMA CreateStep ==
  ASSUME IInv, NEW p \in Pcbs, NEW nsd, createProcess(p, nsd)
  PROVE  /\ IInv' /\ PF!Next
         /\ Head(pcbFree) \in Pcbs \ Alive
         /\ p_parent' = [p_parent EXCEPT ![Head(pcbFree)] = p]
  <1> DEFINE new == Head(pcbFree)
             L == [Kin EXCEPT ![p] = Append(@, new)]
  <1>1. /\ p \in Alive /\ pcbFree # <<>> /\ pcbFree' = Tail(pcbFree)
        /\ sibs' = insertChild(resetPcb(sibs, new), p, new)
        /\ p_parent' = [p_parent EXCEPT ![new] = p]
    BY DEF createProcess
  <1>2. /\ pcbFree \in Seq(Pcbs) /\ NoRepeats(pcbFree)
        /\ Agrees(sibs, p_parent, Alive, Kin)
    BY DEF IInv
  <1>3. /\ new \in Range(pcbFree) /\ Tail(pcbFree) \in Seq(Pcbs)
        /\ Range(Tail(pcbFree)) = Range(pcbFree) \ {new} /\ NoRepeats(Tail(pcbFree))
    BY <1>1, <1>2, TailFacts
  <1>4. new \in Pcbs \ Alive /\ Alive' = Alive \cup {new}
    <2>1. Range(pcbFree) \subseteq Pcbs
      BY <1>2 DEF Range
    <2> QED
      BY <2>1, <1>1, <1>3 DEF Alive
  <1> HIDE DEF new
  <1>5. Agrees(sibs', p_parent', Alive', L)
    BY <1>1, <1>2, <1>4, BearAgrees
  <1>6. IInv' /\ Kin' = L
    BY <1>1, <1>3, <1>5, AgreesNext
  <1>7. ASSUME NEW x \in Pcbs, x = new PROVE PF!Create(p, x)
    <2>1. Kin' = [Kin EXCEPT ![p] = Append(@, x)]
      BY <1>6, <1>7
    <2> QED
      BY <2>1, <1>1, <1>4, <1>7 DEF PF!Create, Kin
  <1>8. PF!Next
    <2>1. \E x \in Pcbs : x = new
      BY <1>4
    <2>2. \E x \in Pcbs : PF!Create(p, x)
      BY <2>1, <1>7
    <2> QED
      BY <2>2 DEF PF!Next
  <1> QED
    BY <1>1, <1>4, <1>6, <1>8 DEF new

LEMMA TerminateStep ==
  ASSUME IInv, NEW p \in Pcbs, terminateProcess(p)
  PROVE  IInv' /\ PF!Next
  <1> DEFINE N == Cardinality(Pcbs)
             w == [sibs |-> sibs, parent |-> p_parent, free |-> pcbFree]
             u == outChild(w, p)
             v == Terminate(u, p)
             D == Line(p_parent, p)
             L == [q \in Pcbs |-> Without(Kin[q], {p})]
  <1>1. /\ p \in Alive /\ sibs' = v.sibs /\ p_parent' = v.parent /\ pcbFree' = v.free
    BY DEF terminateProcess
  <1> HIDE DEF v
  <1>2. /\ pcbFree \in Seq(Pcbs) /\ NoRepeats(pcbFree)
        /\ Agrees(sibs, p_parent, Alive, Kin)
        /\ p_parent \in [Pcbs -> Pcbs \cup {NULL}] /\ Kin \in [Pcbs -> Seq(Pcbs)]
        /\ NULL \notin Pcbs
    BY FamilyAssumption DEF IInv, Agrees
  <1>3. /\ w \in Worlds /\ w.free = pcbFree /\ w.sibs = sibs /\ w.parent = p_parent
        /\ Living(w) = Alive
    BY <1>2 DEF Worlds, Agrees, Memory, Living, Alive
  <1> HIDE DEF w
  <1>4. ASSUME NEW q \in Pcbs, p_parent[p] # q PROVE Without(Kin[q], {p}) = Kin[q]
    <2>1. Kin[q] \in Seq(Pcbs) /\ p \notin Range(Kin[q])
      BY <1>2, <1>4 DEF Agrees
    <2>2. Range(Kin[q]) \cap {p} = {}
      BY <2>1
    <2> QED
      BY <2>1, <2>2, WithoutNone
  <1>5. /\ u \in Worlds /\ u.free = pcbFree
        /\ u.parent = [p_parent EXCEPT ![p] = NULL]
        /\ Agrees(u.sibs, u.parent, Alive, L)
    <2>1. CASE p_parent[p] = NULL
      <3>1. u = w
        BY <2>1, <1>3 DEF outChild
      <3>2. p_parent = [p_parent EXCEPT ![p] = NULL]
        BY <2>1, <1>2
      <3>3. \A q \in Pcbs : L[q] = Kin[q]
        BY <2>1, <1>2, <1>4
      <3>4. L = Kin
        BY <3>3, <1>2
      <3> HIDE DEF u, L
      <3> QED
        BY <3>1, <3>2, <3>4, <1>2, <1>3
    <2>2. CASE p_parent[p] # NULL
      <3> DEFINE h == p_parent[p]
      <3>1. Leaving(w, Kin, p, h, u)
        BY <2>2, <1>2, <1>3 DEF Leaving
      <3>2. /\ u \in Worlds /\ u.free = w.free /\ h \in Living(w)
            /\ u.parent = [w.parent EXCEPT ![p] = NULL]
            /\ Agrees(u.sibs, u.parent, Living(w), [Kin EXCEPT ![h] = Without(@, {p})])
        <4> HIDE DEF u, h
        <4> QED
          BY <3>1, OutChildStep
      <3>3. L = [Kin EXCEPT ![h] = Without(@, {p})]
        <4>1. \A q \in Pcbs : L[q] = [Kin EXCEPT ![h] = Without(@, {p})][q]
          BY <1>2, <1>4
        <4> QED
          BY <4>1, <1>2
      <3> HIDE DEF u, L, h
      <3> QED
        BY <3>2, <3>3, <1>3
    <2> QED
      BY <2>1, <2>2
  <1> HIDE DEF u
  <1>6. Line(u.parent, p) = D
    BY <1>2, <1>5, LineCut
  <1> HIDE DEF L
  <1>7. Doomed(u, p, L, N)
    <2>1. Cardinality(D) <= N + 1
      <3>1. D \in SUBSET Pcbs /\ Cardinality(D) \in Nat
        BY LineFacts
      <3>2. Cardinality(D) <= N /\ N \in Nat
        BY <3>1, FamilyAssumption, FS_Subset, FS_CardinalityType
      <3> HIDE DEF N, D
      <3> QED
        BY <3>1, <3>2
    <2>2. Living(u) = Alive
      BY <1>5 DEF Living, Alive
    <2>3. u.parent[p] = NULL
      BY <1>2, <1>5
    <2> HIDE DEF D, N
    <2> QED
      BY <2>1, <2>2, <2>3, <1>1, <1>2, <1>5, <1>6 DEF Doomed
  <1>8. Done(u, p, L, v)
    BY <1>7, TerminateDone DEF v, N
  <1>9. /\ v.free \in Seq(Pcbs) /\ NoRepeats(v.free)
        /\ Range(v.free) = Range(pcbFree) \cup D
        /\ v.parent = Orphaned(u.parent, D)
        /\ Agrees(v.sibs, v.parent, Living(v), Childless(L, D))
    BY <1>5, <1>6, <1>8, WorldFacts DEF Done
  <1>10. Alive' = Living(v) /\ Alive' = Alive \ D
    BY <1>1, <1>9 DEF Alive, Living
  <1>11. IInv' /\ Kin' = Childless(L, D)
    <2>1. /\ Agrees(sibs', p_parent', Alive', Childless(L, D))
          /\ pcbFree' \in Seq(Pcbs) /\ NoRepeats(pcbFree')
      BY <1>1, <1>9, <1>10
    <2> QED
      BY <2>1, AgreesNext
  <1>12. PF!Terminate(p)
    <2>1. PF!Progeny(p) = D
      BY Seen
    <2>2. p \in D
      BY LineFacts DEF Closed
    <2>3. p_parent' = [q \in Pcbs |-> IF q \in D THEN NULL ELSE p_parent[q]]
      <3>1. \A q \in Pcbs : q \notin D => u.parent[q] = p_parent[q]
        BY <1>2, <1>5, <2>2
      <3> HIDE DEF D
      <3> QED
        BY <3>1, <1>1, <1>9 DEF Orphaned
    <2>4. Kin' = [q \in Pcbs |-> IF q \in D THEN <<>> ELSE Without(Kin[q], {p})]
      BY <1>11 DEF Childless, L
    <2>5. \A q, S : PF!Without(q, S) = Without(q, S)
      BY Zenon DEF PF!Without, PF!Kept, PF!Rank, PF!Cardinality, Cardinality,
                   Without, Kept, Rank
    <2> HIDE DEF D
    <2> QED
      BY <1>1, <1>10, <2>1, <2>3, <2>4, <2>5 DEF PF!Terminate, Kin
  <1>13. PF!Next
    BY <1>12 DEF PF!Next
  <1> QED
    BY <1>11, <1>13

LEMMA NextStep ==
  ASSUME IInv, [Next]_vars
  PROVE  IInv' /\ [PF!Next]_(PF!vars)
  <1>1. ASSUME NEW p \in Pcbs, NEW nsd, createProcess(p, nsd)
        PROVE  IInv' /\ [PF!Next]_(PF!vars)
    BY <1>1, CreateStep
  <1>2. ASSUME NEW p \in Pcbs, terminateProcess(p)
        PROVE  IInv' /\ [PF!Next]_(PF!vars)
    BY <1>2, TerminateStep
  <1>3. CASE UNCHANGED <<pcbFree, sibs, p_parent>>
    <2>1. Alive' = Alive
      BY <1>3 DEF Alive
    <2>2. Agrees(sibs', p_parent', Alive', Kin)
      BY <2>1, <1>3 DEF IInv
    <2>3. IInv' /\ Kin' = Kin
      BY <2>2, <1>3, AgreesNext DEF IInv
    <2> QED
      BY <2>1, <2>3, <1>3, Seen
  <1> QED
    BY <1>1, <1>2, <1>3 DEF Next, vars, allocNamespace

-----------------------------------------------------------------------------
(* What the invariant says.                                                *)

LEMMA KinFacts ==
  ASSUME IInv
  PROVE  /\ \A p \in Alive : /\ p \in Pcbs /\ Children(p) = Kin[p]
                             /\ Children(p) \in Seq(Pcbs) /\ NoRepeats(Children(p))
         /\ \A p \in Alive, c \in Pcbs : c \in Range(Children(p)) <=> p_parent[c] = p
         /\ \A c \in Pcbs : p_parent[c] # NULL => c \in Alive /\ p_parent[c] \in Alive
  <1>1. Agrees(sibs, p_parent, Alive, Kin)
    BY DEF IInv
  <1>2. \A p \in Alive : p \in Pcbs /\ Children(p) = Kin[p]
    BY DEF Kin, Alive
  <1> QED
    BY <1>1, <1>2 DEF Agrees

LEMMA LinkedTree ==
  ASSUME IInv
  PROVE  TreeLinked
  <1>1. \A p \in Alive : NoRepeats(Children(p)) /\ Range(Children(p)) \subseteq Alive
    <2> TAKE p \in Alive
    <2>1. /\ NoRepeats(Children(p)) /\ Range(Children(p)) \subseteq Pcbs
          /\ p # NULL
      BY KinFacts, FamilyAssumption DEF Range
    <2> QED
      BY <2>1, KinFacts
  <1>2. \A p \in Alive, c \in Alive : c \in Range(Children(p)) <=> p_parent[c] = p
    BY KinFacts
  <1>3. ASSUME NEW p \in Pcbs PROVE sibs[p_sib(p)] # Unlinked(NULL) <=> p_parent[p] # NULL
    <2>1. /\ Agrees(sibs, p_parent, Alive, Kin) /\ sibs \in Memory(Nodes, NULL)
          /\ p_sib(p) \in Nodes /\ NULL \notin Nodes
      BY NodeFacts DEF IInv, Agrees
    <2>2. CASE p_parent[p] = NULL
      <3>1. sibs[p_sib(p)].next = NULL /\ sibs[p_sib(p)].prev = NULL
        BY <2>1, <2>2 DEF Agrees
      <3>2. sibs[p_sib(p)] = Unlinked(NULL)
        BY <3>1, <2>1 DEF Memory, Unlinked
      <3> QED
        BY <3>2, <2>2
    <2>3. CASE p_parent[p] # NULL
      <3> DEFINE q == p_parent[p]
      <3>1. q \in Alive
        BY <2>3, KinFacts
      <3>2. RingOf(sibs, p_parent, Kin, q)
        <4> HIDE DEF q
        <4> QED
          BY <2>1, <3>1, RingFacts
      <3>3. p_sib(p) \in Range(Sibs(Kin[q]))
        BY <3>2 DEF RingOf
      <3>4. /\ Listable(Nodes, p_child(q), Sibs(Kin[q]))
            /\ Linked(sibs, p_child(q), Sibs(Kin[q]))
        BY <3>2 DEF RingOf
      <3> HIDE DEF q
      <3>5. sibs[p_sib(p)].next \in Nodes
        BY <3>3, <3>4, EmptyLinked
      <3>6. Unlinked(NULL).next = NULL
        BY DEF Unlinked
      <3> QED
        BY <3>5, <3>6, <2>1, <2>3
    <2> QED
      BY <2>2, <2>3
  <1> QED
    BY <1>1, <1>2, <1>3 DEF TreeLinked

LEMMA ViewsAgree ==
  ASSUME IInv
  PROVE  SameView
  <1> SUFFICES ASSUME NEW p \in Alive, NEW c \in Alive, p_parent[c] = p
               PROVE  c \in Range(getChildren(p)) <=> getProcessID(c) = p
    BY DEF SameView
  <1> DEFINE S == {d \in Pcbs : namespaces[d] # namespaces[p]}
  <1>1. c \in Pcbs /\ p \in Pcbs /\ p # NULL
    BY FamilyAssumption DEF Alive
  <1>2. Children(p) \in Seq(Pcbs) /\ c \in Range(Children(p))
    BY <1>1, KinFacts
  <1>3. Range(getChildren(p)) = Range(Children(p)) \ S
    BY <1>2, WithoutRange DEF getChildren
  <1>4. getProcessID(c) = p <=> namespaces[c] = namespaces[p]
    BY <1>1 DEF getProcessID
  <1> QED
    BY <1>1, <1>2, <1>3, <1>4

(* Only the new process, which has no descendants yet, gets a namespace.   *)
LEMMA SpaceStep ==
  ASSUME IInv, [Next]_vars, NEW q \in Alive
  PROVE  namespaces'[q] = namespaces[q]
  <1>1. CASE namespaces' = namespaces
    BY <1>1
  <1>2. ASSUME NEW p \in Pcbs, NEW nsd, createProcess(p, nsd)
        PROVE  namespaces'[q] = namespaces[q]
    <2> DEFINE new == Head(pcbFree)
               parent == [p_parent EXCEPT ![new] = p]
               ns == IF nsd # NULL THEN nsd ELSE namespaces[p]
    <2>1. /\ new \in Pcbs \ Alive /\ p \in Alive
          /\ p_parent \in [Pcbs -> Pcbs \cup {NULL}]
          /\ q \in Pcbs /\ NULL \notin Pcbs
      BY <1>2, CreateStep, FamilyAssumption DEF createProcess, IInv, Agrees, Alive
    <2> HIDE DEF new
    <2>2. ASSUME NEW x \in Pcbs, parent[x] = new PROVE FALSE
      <3>1. x # new
        BY <2>1, <2>2
      <3>2. p_parent[x] = new
        BY <2>1, <2>2, <3>1
      <3> QED
        BY <3>2, <2>1, KinFacts
    <2> HIDE DEF parent
    <2>3. Below(parent, {new}) = {}
      <3> SUFFICES ASSUME NEW x \in Below(parent, {new}) PROVE FALSE
        OBVIOUS
      <3>1. PICK n \in 1..Cardinality(Pcbs) : \E path \in [0..n -> Pcbs] :
              /\ path[0] = x /\ path[n] \in {new}
              /\ \A i \in 1..n : path[i] = parent[path[i - 1]]
        BY DEF Below
      <3>2. PICK path \in [0..n -> Pcbs] :
              /\ path[n] = new /\ path[n] = parent[path[n - 1]]
        <4>1. Cardinality(Pcbs) \in Nat
          BY FamilyAssumption, FS_CardinalityType
        <4>2. n \in 1..n
          BY <4>1
        <4> QED
          BY <3>1, <4>2
      <3>3. path[n - 1] \in Pcbs
        <4>1. Cardinality(Pcbs) \in Nat
          BY FamilyAssumption, FS_CardinalityType
        <4>2. n - 1 \in 0..n
          BY <4>1
        <4> QED
          BY <4>2
      <3> QED
        BY <2>2, <3>2, <3>3
    <2>4. addNamespace(new, ns, parent)
      BY <1>2 DEF createProcess, new, parent
    <2>5. q # new
      BY <2>1
    <2> HIDE DEF ns
    <2> QED
      BY <2>1, <2>3, <2>4, <2>5 DEF addNamespace
  <1> QED
    BY <1>1, <1>2 DEF Next, vars, terminateProcess, allocNamespace

-----------------------------------------------------------------------------

(* The rings of p_child and p_sib and the parents of p_parent describe one *)
(* family in every state, before and after each system call.               *)
THEOREM FamilyHolds == Spec => []IInv
  <1>1. Init => IInv
    BY InitStep
  <1>2. IInv /\ [Next]_vars => IInv'
    BY NextStep
  <1> QED
    BY <1>1, <1>2, PTL DEF Spec

(* A process is in the ring of its parent, once, and in no other, and a    *)
(* freed pcb in none: removeChild and outChild always find it there.       *)
THEOREM TreeLinkedAlways == Spec => []TreeLinked
  BY FamilyHolds, LinkedTree, PTL

(* GETCHILDREN of the parent lists a child just when GETPROCESSID of the   *)
(* child names the parent.                                                 *)
THEOREM SameViewAlways == Spec => []SameView
  BY FamilyHolds, ViewsAgree, PTL

(* No system call moves a process to another namespace: all that           *)
(* setAllChildNamespace ever reaches is a process just created.            *)
THEOREM KeepSpaceAlways == Spec => KeepSpace
  <1>1. IInv /\ [Next]_vars =>
          [\A p \in Alive : p \in Alive' => namespaces'[p] = namespaces[p]]_vars
    BY SpaceStep
  <1> QED
    BY <1>1, FamilyHolds, PTL DEF Spec, KeepSpace

(* The recursion of __terminateProcess over the rings implements the death *)
(* of a process with all its descendants, and nobody else's, and           *)
(* CREATEPROCESS the birth of a youngest child.                            *)
THEOREM ImplementsFamilyAlways == Spec => ImplementsFamily
  <1>1. Init => PF!Init
    BY InitStep
  <1>2. IInv /\ [Next]_vars => [PF!Next]_(PF!vars)
    BY NextStep
  <1> QED
    BY <1>1, <1>2, FamilyHolds, PTL DEF Spec, ImplementsFamily, PF!Spec

=============================================================================
