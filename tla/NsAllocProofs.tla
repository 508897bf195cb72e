--------------------------- MODULE NsAllocProofs ----------------------------
(***************************************************************************)
(* Proofs about allocNamespace, access by access, for any number of        *)
(* processes and descriptors, as long as no two processes have been        *)
(* between the test of the free list and the write which unlinks at once.  *)
(*                                                                         *)
(* Of the free list only the next pointers lead anywhere: a process which  *)
(* was killed between the two writes that unlink leaves a prev pointer     *)
(* which disagrees.  What the next call needs is that the first            *)
(* descriptor points back to the head, and that is restored before the     *)
(* descriptor becomes the first.                                           *)
(***************************************************************************)
EXTENDS NsAlloc, ListProofs

Nodes == Spaces \cup {nsFree, nsList}
Labels == {"idle", "first", "links", "back", "forth", "clear next", "clear prev"}

(* The memory mm holds the free list F and the used list U; the            *)
(* descriptors kn were returned.                                           *)
Holds(mm, kn, F, U) ==
  /\ mm \in Memory(Nodes, NULL)
  /\ F \in Seq(Spaces) /\ NoRepeats(F) /\ Leads(mm, nsFree, F)
  /\ F # <<>> => mm[F[1]].prev = nsFree
  /\ U \in Seq(Spaces) /\ NoRepeats(U) /\ Linked(mm, nsList, U)
  /\ kn \subseteq Spaces /\ Range(U) \subseteq kn /\ Range(F) \cap kn = {}
  /\ \A s \in kn \ Range(U) : mm[s] = Unlinked(NULL)

(* What the process in the window knows of the free list is true.          *)
Looks(F) ==
  /\ \A p, q \in Window : p = q
  /\ \A p \in Window :
       /\ F # <<>>
       /\ pc[p] # "first" => ns[p] = F[1]
       /\ pc[p] \in {"back", "forth"} => prv[p] = nsFree /\ nxt[p] = Nth(F, nsFree, 2)
       /\ pc[p] = "forth" => m[nxt[p]].prev = nsFree

(* A process which is clearing the pointers of a descriptor has it for     *)
(* itself, and so has one to which it was returned.                        *)
Owns(F) ==
  /\ \A p \in Procs : pc[p] = "idle" => ns[p] = NULL \/ ns[p] \in known
  /\ \A p \in Unlinking : ns[p] \in Spaces \ (known \cup Range(F))
  /\ \A p \in Unlinking : pc[p] = "clear prev" => m[ns[p]].next = NULL
  /\ \A p, q \in Procs \ Window : ns[p] = ns[q] /\ ns[p] # NULL => p = q

TypeOK ==
  /\ pc \in [Procs -> Labels]
  /\ ns \in [Procs -> Spaces \cup {NULL}]
  /\ prv \in [Procs -> Nodes \cup {NULL}]
  /\ nxt \in [Procs -> Nodes \cup {NULL}]

Pooled(F, U) == Holds(m, known, F, U) /\ TypeOK /\ Looks(F) /\ Owns(F)

Sound == Pooled(Free, Used)

IInv == met \in BOOLEAN /\ (~met => Sound)

-----------------------------------------------------------------------------
(* Memories which hold the two lists.                                      *)

LEMMA NodeFacts ==
  /\ Spaces \subseteq Nodes /\ nsFree \in Nodes /\ nsList \in Nodes
  /\ nsFree \notin Spaces /\ nsList \notin Spaces /\ nsFree # nsList
  /\ NULL \notin Nodes /\ IsFiniteSet(Nodes)
  <1>1. IsFiniteSet(Spaces \cup {nsFree})
    BY NsAllocAssumption, FS_AddElement
  <1>2. IsFiniteSet((Spaces \cup {nsFree}) \cup {nsList})
    BY <1>1, FS_AddElement
  <1> QED
    BY <1>2, NsAllocAssumption DEF Nodes

LEMMA SeqListable ==
  ASSUME NEW h \in {nsFree, nsList}, NEW q \in Seq(Spaces), NoRepeats(q)
  PROVE  Listable(Nodes, h, q) /\ Range(q) \subseteq Spaces
  <1>1. Spaces \subseteq Nodes \ {h} /\ h \in Nodes
    BY NodeFacts
  <1>2. Len(q) \in Nat /\ DOMAIN q = 1..Len(q) /\ \A i \in 1..Len(q) : q[i] \in Spaces
    BY LenProperties, ElementOfSeq
  <1>3. q \in Seq(Nodes \ {h})
    BY <1>1, <1>2, IsASeq, LenProperties
  <1> QED
    BY <1>1, <1>2, <1>3 DEF Listable, Range

LEMMA HoldsFacts ==
  ASSUME NEW mm, NEW kn, NEW F, NEW U, Holds(mm, kn, F, U)
  PROVE  /\ Listable(Nodes, nsFree, F) /\ Range(F) \subseteq Spaces
         /\ Listable(Nodes, nsList, U) /\ Range(U) \subseteq Spaces
         /\ Contents(mm, nsFree) = F /\ Contents(mm, nsList) = U
         /\ Range(F) \cap Range(U) = {}
         /\ F # <<>> => F[1] \in Range(F)
         /\ mm[nsFree].next = Nth(F, nsFree, 1)
         /\ list_empty(mm, nsFree) <=> F = <<>>
  <1>1. /\ Listable(Nodes, nsFree, F) /\ Range(F) \subseteq Spaces
        /\ Listable(Nodes, nsList, U) /\ Range(U) \subseteq Spaces
    BY SeqListable DEF Holds
  <1>2. DOMAIN mm = Nodes
    BY DEF Holds, Memory
  <1>3. Contents(mm, nsFree) = F
    BY <1>1, <1>2, NodeFacts, ContentsLeads DEF Holds
  <1>4. Contents(mm, nsList) = U
    BY <1>1, <1>2, NodeFacts, ContentsLinked DEF Holds
  <1>5. Len(F) \in Nat /\ DOMAIN F = 1..Len(F) /\ (F = <<>> <=> Len(F) = 0)
    BY LenProperties, EmptySeq DEF Holds
  <1>6. F # <<>> => 1 \in DOMAIN F /\ F[1] \in Range(F)
    BY <1>5 DEF Range
  <1>7. mm[nsFree].next = Nth(F, nsFree, 1)
    <2>1. 0 \in 0..Len(F) /\ 0 + 1 = 1 /\ Nth(F, nsFree, 0) = nsFree
      BY <1>5 DEF Nth
    <2> QED
      BY <2>1 DEF Holds, Leads
  <1>8. list_empty(mm, nsFree) <=> F = <<>>
    <2>1. CASE F = <<>>
      BY <2>1, <1>5, <1>7 DEF Nth, list_empty
    <2>2. CASE F # <<>>
      BY <2>2, <1>1, <1>5, <1>6, <1>7, NodeFacts DEF Nth, list_empty
    <2> QED
      BY <2>1, <2>2
  <1> QED
    BY <1>1, <1>3, <1>4, <1>6, <1>7, <1>8 DEF Holds

LEMMA SecondNode ==
  ASSUME NEW mm, NEW kn, NEW F, NEW U, Holds(mm, kn, F, U)
  PROVE  Nth(F, nsFree, 2) \in Nodes /\ Nth(F, nsFree, 2) \in Range(F) \cup {nsFree}
  <1>1. Listable(Nodes, nsFree, F)
    BY HoldsFacts
  <1>2. Nth(F, nsFree, 2) \in Nodes /\ DOMAIN F = 1..Len(F)
    BY <1>1, NthFacts
  <1> QED
    BY <1>2 DEF Nth, Range

(* A write elsewhere.                                                      *)
LEMMA HoldsFrame ==
  ASSUME NEW mm, NEW kn, NEW F, NEW U, Holds(mm, kn, F, U),
         NEW r \in Memory(Nodes, NULL),
         \A x \in Range(F) \cup {nsFree} : r[x].next = mm[x].next,
         F # <<>> => r[F[1]].prev = nsFree,
         \A x \in kn \cup {nsList} : r[x] = mm[x]
  PROVE  Holds(r, kn, F, U)
  <1>1. /\ Listable(Nodes, nsFree, F) /\ Range(F) \subseteq Spaces
        /\ Listable(Nodes, nsList, U) /\ Range(U) \subseteq kn
    BY HoldsFacts DEF Holds
  <1>2. Leads(r, nsFree, F)
    BY <1>1, LeadsFrame DEF Holds
  <1>3. Linked(r, nsList, U)
    BY <1>1, LinkedFrame DEF Holds
  <1> QED
    BY <1>1, <1>2, <1>3 DEF Holds

(* The head of the free list is led past the first descriptor; nothing     *)
(* else is changed.                                                        *)
Unlinks(mm, r, F, G) ==
  /\ F # <<>> /\ G = Tail(F)
  /\ r \in Memory(Nodes, NULL)
  /\ r[nsFree].next = Nth(F, nsFree, 2) /\ mm[Nth(F, nsFree, 2)].prev = nsFree
  /\ \A y \in Nodes : r[y].prev = mm[y].prev
  /\ \A y \in Nodes : y # nsFree => r[y].next = mm[y].next /\ r[y] = mm[y]

LEMMA HoldsTail ==
  ASSUME NEW mm, NEW kn, NEW F, NEW U, Holds(mm, kn, F, U),
         NEW r, NEW G, Unlinks(mm, r, F, G)
  PROVE  Holds(r, kn, G, U)
  <1> DEFINE x == Nth(F, nsFree, 2)
  <1> USE DEF Unlinks
  <1>1. /\ Range(F) \subseteq Spaces /\ Range(F) \cap kn = {}
        /\ Listable(Nodes, nsFree, F) /\ Leads(mm, nsFree, F)
        /\ F \in Seq(Spaces) /\ kn \subseteq Spaces
        /\ Listable(Nodes, nsList, U) /\ Range(U) \subseteq Spaces /\ Linked(mm, nsList, U)
        /\ U \in Seq(Spaces) /\ NoRepeats(U) /\ Range(U) \subseteq kn
        /\ \A s \in kn \ Range(U) : mm[s] = Unlinked(NULL)
    BY HoldsFacts DEF Holds
  <1>2. x \in Nodes
    BY SecondNode
  <1>3. Past(mm, r, nsFree, F, G)
    BY <1>1, NodeFacts DEF Past
  <1>4. Leads(r, nsFree, G)
    BY <1>1, <1>3, LeadsTail
  <1>5. /\ G \in Seq(Spaces) /\ NoRepeats(G) /\ Range(G) = Range(F) \ {F[1]}
        /\ F[1] = Head(F)
    <2>1. F[1] = Head(F)
      BY <1>1
    <2> QED
      BY <2>1, <1>1, TailFacts DEF Holds
  <1>6. \A y \in Range(U) \cup {nsList} : r[y].next = mm[y].next /\ r[y].prev = mm[y].prev
    BY <1>1, NodeFacts
  <1>7. Linked(r, nsList, U)
    BY <1>1, <1>6, LinkedFrame
  <1>8. \A s \in kn \ Range(U) : r[s] = Unlinked(NULL)
    BY <1>1, NodeFacts
  <1>9. G # <<>> => r[G[1]].prev = nsFree
    <2>1. Len(F) \in Nat /\ Len(G) = Len(F) - 1 /\ \A i \in 1..Len(G) : G[i] = F[i + 1]
      BY <1>1, HeadTailProperties, LenProperties
    <2>2. G # <<>> => 1 \in 1..Len(G) /\ 2 \in 1..Len(F) /\ 1 + 1 = 2
      BY <2>1, <1>5, EmptySeq, LenProperties
    <2>3. G # <<>> => G[1] = x
      BY <2>1, <2>2 DEF Nth
    <2> QED
      BY <1>2, <2>3
  <1> QED
    BY <1>1, <1>4, <1>5, <1>7, <1>8, <1>9 DEF Holds

(* list_safe_del of a descriptor of the list in use: the list without it, *)
(* and no other descriptor written.                                        *)
LEMMA UseUnlinks ==
  ASSUME NEW mm \in Memory(Nodes, NULL), NEW U,
         Listable(Nodes, nsList, U), Linked(mm, nsList, U),
         NEW s \in Range(U), NEW d, d = list_safe_del(mm, s, NULL)
  PROVE  /\ d \in Memory(Nodes, NULL)
         /\ Linked(d, nsList, Without(U, {s}))
         /\ d[s].next = NULL /\ d[s].prev = NULL
         /\ \A y \in Nodes \ (Range(U) \cup {nsList}) :
              d[y].next = mm[y].next /\ d[y].prev = mm[y].prev
  <1>1. NULL \notin Nodes
    BY NodeFacts
  <1>2. s \in Nodes
    BY NthFacts
  <1> QED
    BY <1>1, <1>2, DelLinked

(* The used list, when a descriptor which was returned joins it.           *)
LEMMA HoldsUse ==
  ASSUME NEW mm, NEW kn, NEW F, NEW U, Holds(mm, kn, F, U), NEW s \in kn
  PROVE  LET d == list_safe_del(mm, s, NULL)
             r == list_add_tail(d, s, nsList)
         IN  /\ Holds(r, kn, F, Append(Without(U, {s}), s))
             /\ \A y \in Nodes \ (kn \cup {nsList}) :
                  r[y].next = mm[y].next /\ r[y].prev = mm[y].prev
  <1> DEFINE d == list_safe_del(mm, s, NULL)
             r == list_add_tail(d, s, nsList)
             w == Without(U, {s})
             v == Append(w, s)
  <1>1. /\ mm \in Memory(Nodes, NULL) /\ U \in Seq(Spaces) /\ NoRepeats(U)
        /\ Linked(mm, nsList, U) /\ Listable(Nodes, nsList, U)
        /\ Range(U) \subseteq kn /\ kn \subseteq Spaces /\ s \in Spaces
        /\ Range(F) \subseteq Spaces /\ Range(F) \cap kn = {}
        /\ Listable(Nodes, nsFree, F)
    <2>1. /\ mm \in Memory(Nodes, NULL) /\ U \in Seq(Spaces) /\ NoRepeats(U)
          /\ Linked(mm, nsList, U) /\ Range(U) \subseteq kn /\ kn \subseteq Spaces
          /\ Range(F) \cap kn = {}
      BY DEF Holds
    <2>2. /\ Listable(Nodes, nsList, U) /\ Listable(Nodes, nsFree, F)
          /\ Range(F) \subseteq Spaces
      BY HoldsFacts
    <2> QED
      BY <2>1, <2>2
  <1>2. /\ w \in Seq(Spaces) /\ NoRepeats(w) /\ Range(w) = Range(U) \ {s}
    BY <1>1, WithoutRange, WithoutNoRepeats
  <1>3. Listable(Nodes, nsList, w)
    BY <1>2, SeqListable
  <1>4. /\ d \in Memory(Nodes, NULL) /\ Linked(d, nsList, w)
        /\ \A y \in Nodes \ (Range(U) \cup {nsList}) :
             d[y].next = mm[y].next /\ d[y].prev = mm[y].prev
    <2>1. CASE s \in Range(U)
      <3>1. d = list_safe_del(mm, s, NULL)
        OBVIOUS
      <3> HIDE DEF d, w
      <3>2. w = Without(U, {s})
        BY DEF w
      <3> QED
        BY <1>1, <2>1, <3>1, <3>2, UseUnlinks
    <2>2. CASE s \notin Range(U)
      <3>1. mm[s] = Unlinked(NULL)
        BY <2>2 DEF Holds
      <3>2. d = mm
        BY <3>1 DEF list_safe_del
      <3>3. w = U
        BY <2>2, <1>1, WithoutNone
      <3> HIDE DEF d, w
      <3> QED
        BY <3>2, <3>3, <1>1
    <2> QED
      BY <2>1, <2>2
  <1> HIDE DEF d, w
  <1>5. s \in Nodes \ {nsList} /\ s \notin Range(w)
    BY <1>1, <1>2, NodeFacts
  <1>6. /\ r \in Memory(Nodes, NULL) /\ Linked(r, nsList, v)
        /\ \A y \in Nodes \ (Range(w) \cup {nsList, s}) :
             r[y].next = d[y].next /\ r[y].prev = d[y].prev
    BY <1>3, <1>4, <1>5, AddTailLinked
  <1>7. v \in Seq(Spaces) /\ NoRepeats(v) /\ Range(v) = Range(U) \cup {s}
    <2>1. v \in Seq(Spaces) /\ NoRepeats(v) /\ Range(v) = Range(w) \cup {s}
      BY <1>1, <1>2, <1>5, AppendFacts
    <2> QED
      BY <2>1, <1>2
  <1> HIDE DEF r, v
  <1>8. \A y \in Nodes \ (Range(U) \cup {nsList, s}) :
          r[y].next = mm[y].next /\ r[y].prev = mm[y].prev
    BY <1>2, <1>4, <1>6
  <1>9. Range(F) \cup {nsFree} \subseteq Nodes \ (Range(U) \cup {nsList, s})
    BY <1>1, NodeFacts
  <1>10. Leads(r, nsFree, F)
    BY <1>1, <1>8, <1>9, LeadsFrame DEF Holds
  <1>11. F # <<>> => r[F[1]].prev = nsFree
    <2>1. F # <<>> => F[1] \in Range(F)
      BY HoldsFacts
    <2> QED
      BY <2>1, <1>8, <1>9 DEF Holds
  <1>12. \A x \in kn \ Range(v) : r[x] = Unlinked(NULL)
    <2> TAKE x \in kn \ Range(v)
    <2>1. x \in Nodes \ (Range(U) \cup {nsList, s}) /\ x \in kn \ Range(U)
      BY <1>1, <1>7, NodeFacts
    <2>2. mm[x] = Unlinked(NULL)
      BY <2>1 DEF Holds
    <2> QED
      BY <2>1, <2>2, <1>1, <1>6, <1>8 DEF Memory, Unlinked
  <1>13. Holds(r, kn, F, v)
    BY <1>1, <1>6, <1>7, <1>10, <1>11, <1>12 DEF Holds
  <1> QED
    BY <1>1, <1>8, <1>13 DEF r, d, v, w

-----------------------------------------------------------------------------
(* The initial state: initNamespaces adds the descriptors one by one.      *)

Zeros == [x \in Nodes |-> Unlinked(NULL)]
NoSpaces == INIT_LIST_HEAD(INIT_LIST_HEAD(Zeros, nsFree), nsList)

(* The memory after each of the additions.                                 *)
Fills(f, n, t) ==
  f = [i \in 0..n |-> IF i = 0 THEN NoSpaces ELSE list_add_tail(f[i - 1], t[i], nsFree)]

LEMMA FillsExist ==
  ASSUME NEW N \in Nat, NEW t
  PROVE  \E f : Fills(f, N, t)
  <1> DEFINE D == {n \in 0..N : ~\E f : Fills(f, n, t)}
  <1>1. ASSUME D # {} PROVE FALSE
    <2>1. PICK n \in D : \A k \in D : n <= k
      <3>1. D \in SUBSET Nat
        OBVIOUS
      <3> HIDE DEF D
      <3> QED
        BY <1>1, <3>1, LeastExists
    <2>2. CASE n = 0
      <3> DEFINE a == NoSpaces
                 g == [i \in 0..0 |-> a]
      <3>1. g = [i \in 0..0 |-> IF i = 0 THEN a ELSE list_add_tail(g[i - 1], t[i], nsFree)]
        OBVIOUS
      <3>2. Fills(g, 0, t)
        BY <3>1 DEF Fills
      <3> QED
        BY <2>1, <2>2, <3>2
    <2>3. CASE n # 0
      <3>1. n \in Nat /\ n - 1 \in 0..N /\ ~(n <= n - 1)
        BY <2>3
      <3>2. PICK f : Fills(f, n - 1, t)
        BY <2>1, <3>1
      <3> DEFINE a == NoSpaces
                 g == [i \in 0..n |-> IF i < n THEN f[i]
                                      ELSE list_add_tail(f[n - 1], t[n], nsFree)]
      <3>3. \A i \in 0..(n - 1) :
              f[i] = IF i = 0 THEN a ELSE list_add_tail(f[i - 1], t[i], nsFree)
        BY <3>2 DEF Fills
      <3> HIDE DEF a
      <3>4. \A i \in 0..n : g[i] = IF i = 0 THEN a ELSE list_add_tail(g[i - 1], t[i], nsFree)
        <4> TAKE i \in 0..n
        <4>1. CASE i < n
          <5>1. i \in 0..(n - 1) /\ g[i] = f[i]
            BY <4>1, <3>1
          <5>2. i # 0 => i - 1 \in 0..n /\ i - 1 < n /\ g[i - 1] = f[i - 1]
            BY <4>1, <3>1
          <5> HIDE DEF g
          <5> QED
            BY <5>1, <5>2, <3>3
        <4>2. CASE ~(i < n)
          <5>1. i = n /\ i # 0 /\ i - 1 \in 0..n /\ i - 1 < n
            BY <4>2, <2>3, <3>1
          <5>2. g[i] = list_add_tail(f[n - 1], t[n], nsFree) /\ g[i - 1] = f[i - 1]
            BY <5>1
          <5> HIDE DEF g
          <5> QED
            BY <5>1, <5>2
        <4> QED
          BY <4>1, <4>2
      <3>5. g = [i \in 0..n |-> g[i]]
        OBVIOUS
      <3> HIDE DEF g
      <3>6. g = [i \in 0..n |-> IF i = 0 THEN a ELSE list_add_tail(g[i - 1], t[i], nsFree)]
        BY <3>4, <3>5
      <3>7. Fills(g, n, t)
        BY <3>6 DEF Fills, a
      <3> QED
        BY <2>1, <3>7
    <2> QED
      BY <2>2, <2>3
  <1>2. N \in 0..N
    OBVIOUS
  <1> QED
    BY <1>1, <1>2

(* Both lists are whole rings, the used one empty.                         *)
Filled(mm, q) ==
  /\ mm \in Memory(Nodes, NULL)
  /\ q \in Seq(Spaces) /\ NoRepeats(q)
  /\ Linked(mm, nsFree, q) /\ Linked(mm, nsList, <<>>)

LEMMA NoSpacesFilled == Filled(NoSpaces, <<>>)
  <1> DEFINE a == INIT_LIST_HEAD(Zeros, nsFree)
             b == INIT_LIST_HEAD(a, nsList)
  <1>1. Zeros \in Memory(Nodes, NULL)
    BY DEF Zeros, Memory, Unlinked
  <1>2. /\ a \in Memory(Nodes, NULL) /\ Linked(a, nsFree, <<>>) /\ Listable(Nodes, nsFree, <<>>)
    BY <1>1, NodeFacts, LinkedInit
  <1> HIDE DEF a
  <1>3. /\ b \in Memory(Nodes, NULL) /\ Linked(b, nsList, <<>>)
        /\ \A y \in Nodes \ {nsList} : b[y] = a[y]
    BY <1>2, NodeFacts, LinkedInit
  <1>4. Range(<<>>) = {} /\ NoRepeats(<<>>) /\ <<>> \in Seq(Spaces)
    BY EmptySeq DEF Range, NoRepeats
  <1> HIDE DEF b
  <1>5. \A x \in Range(<<>>) \cup {nsFree} : b[x].next = a[x].next /\ b[x].prev = a[x].prev
    BY <1>3, <1>4, NodeFacts
  <1>6. Linked(b, nsFree, <<>>)
    BY <1>2, <1>5, LinkedFrame
  <1>7. Filled(b, <<>>)
    BY <1>3, <1>4, <1>6 DEF Filled
  <1> QED
    BY <1>7 DEF NoSpaces, a, b

LEMMA FilledAdd ==
  ASSUME NEW mm, NEW q, Filled(mm, q), NEW x \in Spaces, x \notin Range(q)
  PROVE  /\ Filled(list_add_tail(mm, x, nsFree), Append(q, x))
         /\ Len(Append(q, x)) = Len(q) + 1 /\ Range(Append(q, x)) = Range(q) \cup {x}
  <1> DEFINE r == list_add_tail(mm, x, nsFree)
             w == Append(q, x)
  <1>1. /\ Listable(Nodes, nsFree, q) /\ Range(q) \subseteq Spaces
        /\ Listable(Nodes, nsList, <<>>) /\ Range(<<>>) = {}
    <2>1. <<>> \in Seq(Spaces) /\ NoRepeats(<<>>) /\ Range(<<>>) = {}
      BY EmptySeq DEF NoRepeats, Range
    <2> QED
      BY <2>1, SeqListable DEF Filled
  <1>2. /\ r \in Memory(Nodes, NULL) /\ Linked(r, nsFree, w)
        /\ \A y \in Nodes \ (Range(q) \cup {nsFree, x}) :
             r[y].next = mm[y].next /\ r[y].prev = mm[y].prev
    BY <1>1, NodeFacts, AddTailLinked DEF Filled
  <1>3. w \in Seq(Spaces) /\ NoRepeats(w) /\ Range(w) = Range(q) \cup {x}
    BY AppendFacts DEF Filled
  <1>4. Len(w) = Len(q) + 1
    BY AppendProperties DEF Filled
  <1> HIDE DEF r, w
  <1>5. \A y \in Range(<<>>) \cup {nsList} : r[y].next = mm[y].next /\ r[y].prev = mm[y].prev
    BY <1>1, <1>2, NodeFacts
  <1>6. Linked(r, nsList, <<>>)
    BY <1>1, <1>5, LinkedFrame DEF Filled
  <1>7. Filled(r, w)
    BY <1>2, <1>3, <1>6 DEF Filled
  <1> QED
    BY <1>3, <1>4, <1>7 DEF r, w

LEMMA FillsFilled ==
  ASSUME NEW N \in Nat, NEW t \in [1..N -> Spaces], NoRepeats(t), NEW f, Fills(f, N, t)
  PROVE  \E q : Len(q) = N /\ Filled(f[N], q)
  <1> DEFINE Good(i) == \E q : /\ Len(q) = i /\ Filled(f[i], q)
                               /\ \A x \in Range(q) : \E j \in 1..i : t[j] = x
             D == {i \in 0..N : ~Good(i)}
  <1>1. \A i \in 0..N : f[i] = IF i = 0 THEN NoSpaces ELSE list_add_tail(f[i - 1], t[i], nsFree)
    BY DEF Fills
  <1>2. DOMAIN t = 1..N
    OBVIOUS
  <1>5. ASSUME D # {} PROVE FALSE
    <2>1. PICK n \in D : \A k \in D : n <= k
      <3>1. D \in SUBSET Nat
        OBVIOUS
      <3> HIDE DEF D
      <3> QED
        BY <1>5, <3>1, LeastExists
    <2>2. CASE n = 0
      <3>1. Filled(f[0], <<>>)
        BY <1>1, NoSpacesFilled
      <3>2. Len(<<>>) = 0 /\ Range(<<>>) = {}
        BY EmptySeq DEF Range
      <3>3. Good(0)
        BY <3>1, <3>2
      <3> QED
        BY <2>1, <2>2, <3>3
    <2>3. CASE n # 0
      <3>1. n \in 1..N /\ n - 1 \in 0..N /\ ~(n <= n - 1)
        BY <2>3
      <3>2. Good(n - 1)
        BY <2>1, <3>1
      <3>3. PICK q : /\ Len(q) = n - 1 /\ Filled(f[n - 1], q)
                     /\ \A x \in Range(q) : \E j \in 1..(n - 1) : t[j] = x
        BY <3>2
      <3>4. t[n] \in Spaces /\ t[n] \notin Range(q)
        <4>1. \A j \in 1..(n - 1) : t[j] # t[n]
          <5> SUFFICES ASSUME NEW j \in 1..(n - 1) PROVE t[j] # t[n]
            OBVIOUS
          <5>1. j \in 1..N /\ j # n
            BY <3>1
          <5> QED
            BY <5>1, <3>1, <1>2 DEF NoRepeats
        <4> QED
          BY <4>1, <3>1, <3>3
      <3>5. f[n] = list_add_tail(f[n - 1], t[n], nsFree)
        BY <3>1, <1>1
      <3>6. PICK w : w = Append(q, t[n])
        OBVIOUS
      <3>7. Filled(f[n], w) /\ Len(w) = Len(q) + 1 /\ Range(w) = Range(q) \cup {t[n]}
        BY <3>3, <3>4, <3>5, <3>6, FilledAdd
      <3>8. \A x \in Range(w) : \E j \in 1..n : t[j] = x
        <4>1. 1..(n - 1) \subseteq 1..n /\ n \in 1..n
          BY <3>1
        <4> QED
          BY <4>1, <3>3, <3>7
      <3>9. Len(w) = n
        BY <3>1, <3>3, <3>7
      <3>10. Good(n)
        BY <3>7, <3>8, <3>9
      <3> QED
        BY <2>1, <3>10
    <2> QED
      BY <2>2, <2>3
  <1>6. Good(N)
    <2>1. N \in 0..N
      OBVIOUS
    <2> HIDE DEF Good
    <2> QED
      BY <1>5, <2>1
  <1> QED
    BY <1>6

-----------------------------------------------------------------------------
(* What is seen of the lists before and after a step.                      *)

got == [p \in Procs |-> IF p \in Window THEN NULL ELSE ns[p]]

LEMMA SameQueueOps ==
  /\ \A q, S : Pool!Without(q, S) = Without(q, S)
  /\ \A q : Pool!Range(q) = Range(q)
  /\ \A q : Pool!NoRepeats(q) = NoRepeats(q)
  /\ \A S : Pool!Cardinality(S) = Cardinality(S)
  <1>1. \A S : Pool!Cardinality(S) = Cardinality(S)
    BY DEF Pool!Cardinality, Cardinality
  <1>2. \A q, S : Pool!Without(q, S) = Without(q, S)
    BY Zenon DEF Pool!Without, Pool!Kept, Pool!Rank, Pool!Cardinality, Cardinality,
                 Without, Kept, Rank
  <1>3. \A q : Pool!Range(q) = Range(q)
    BY DEF Pool!Range, Range
  <1>4. \A q : Pool!NoRepeats(q) = NoRepeats(q)
    BY DEF Pool!NoRepeats, NoRepeats
  <1> QED
    BY <1>1, <1>2, <1>3, <1>4

LEMMA Seen ==
  ASSUME NEW F, NEW U, Pooled(F, U)
  PROVE  Free = F /\ Used = U /\ Sound
  BY HoldsFacts DEF Pooled, Free, Used, Sound

LEMMA SeenNext ==
  ASSUME NEW F, NEW U, Pooled(F, U)'
  PROVE  Free' = F /\ Used' = U /\ Sound'
  <1>1. Contents(m', nsFree) = F /\ Contents(m', nsList) = U
    BY HoldsFacts DEF Pooled
  <1> QED
    BY <1>1 DEF Free, Used, Sound

(* A step which no caller sees.                                            *)
LEMMA Hidden ==
  ASSUME NEW F, NEW U, Pooled(F, U), Pooled(F, U)', got' = got
  PROVE  Sound' /\ [Pool!Next]_(Pool!vars)
  BY Seen, SeenNext DEF Pool!vars, got, Free, Used

(* What p returned last is forgotten, and nothing else happens.            *)
LEMMA Forgets ==
  ASSUME NEW F, NEW U, Pooled(F, U), Pooled(F, U)', NEW p \in Procs,
         got' = [got EXCEPT ![p] = NULL]
  PROVE  Sound' /\ [Pool!Next]_(Pool!vars)
  <1>1. Free' = Free /\ Used' = Used /\ Sound'
    BY Seen, SeenNext
  <1>2. Pool!Forget(p)
    BY <1>1 DEF Pool!Forget, got, Free, Used
  <1> QED
    BY <1>1, <1>2 DEF Pool!Next

(* A step of p with which p has no descriptor, or not yet.                 *)
LEMMA OwnsStay ==
  ASSUME NEW F, Owns(F), NEW p \in Procs,
         pc'[p] \in {"first", "links", "back", "forth", "idle"},
         pc'[p] = "idle" => ns'[p] = NULL,
         \A q \in Procs : q # p => pc'[q] = pc[q] /\ ns'[q] = ns[q],
         \A q \in Unlinking : m'[ns[q]].next = m[ns[q]].next,
         known' = known
  PROVE  Owns(F)'
  <1>1. \A q \in Procs : q # p => /\ q \in Window' <=> q \in Window
                                  /\ q \in Unlinking' <=> q \in Unlinking
    BY DEF Window, Unlinking
  <1>2. p \notin Unlinking' /\ (p \notin Window' => ns'[p] = NULL)
    BY DEF Window, Unlinking
  <1>4. \A q \in Unlinking' : q \in Procs /\ q # p /\ q \in Unlinking
    <2>1. Unlinking' \subseteq Procs
      BY DEF Unlinking
    <2> QED
      BY <1>1, <1>2, <2>1
  <1>5. \A q \in Procs : pc'[q] = "idle" => ns'[q] = NULL \/ ns'[q] \in known
    BY DEF Owns
  <1>6. \A q \in Unlinking' : ns'[q] \in Spaces \ (known \cup Range(F))
    BY <1>4 DEF Owns
  <1>7. \A q \in Unlinking' : pc'[q] = "clear prev" => m'[ns'[q]].next = NULL
    BY <1>4 DEF Owns
  <1>8. ASSUME NEW q \in Procs, q \notin Window', NEW r \in Procs, r \notin Window',
               ns'[q] = ns'[r], ns'[q] # NULL
        PROVE  q = r
    <2>1. q # p /\ r # p
      BY <1>2, <1>8
    <2> QED
      BY <2>1, <1>1, <1>8 DEF Owns
  <1> QED
    BY <1>5, <1>6, <1>7, <1>8 DEF Owns

(* A step of p which leaves it outside of the window.                      *)
LEMMA LooksStay ==
  ASSUME NEW F, NEW U, Holds(m, known, F, U), Looks(F), NEW p \in Procs,
         pc'[p] \in {"idle", "clear next", "clear prev"},
         \A q \in Procs : q # p =>
           pc'[q] = pc[q] /\ ns'[q] = ns[q] /\ prv'[q] = prv[q] /\ nxt'[q] = nxt[q],
         \A y \in Range(F) \cup {nsFree} : m'[y].prev = m[y].prev
  PROVE  Looks(F)'
  <1>1. \A q \in Window' : q \in Window /\ q \in Procs /\ q # p
    BY DEF Window
  <1>2. Nth(F, nsFree, 2) \in Range(F) \cup {nsFree}
    BY SecondNode
  <1>3. \A q, r \in Window' : q = r
    BY <1>1 DEF Looks
  <1>4. ASSUME NEW q \in Window'
        PROVE  /\ F # <<>>
               /\ pc'[q] # "first" => ns'[q] = F[1]
               /\ pc'[q] \in {"back", "forth"} =>
                    prv'[q] = nsFree /\ nxt'[q] = Nth(F, nsFree, 2)
               /\ pc'[q] = "forth" => m'[nxt'[q]].prev = nsFree
    <2>1. /\ q \in Window /\ pc'[q] = pc[q] /\ ns'[q] = ns[q]
          /\ prv'[q] = prv[q] /\ nxt'[q] = nxt[q]
      BY <1>1
    <2>2. /\ F # <<>>
          /\ pc[q] # "first" => ns[q] = F[1]
          /\ pc[q] \in {"back", "forth"} => prv[q] = nsFree /\ nxt[q] = Nth(F, nsFree, 2)
          /\ pc[q] = "forth" => m[nxt[q]].prev = nsFree
      BY <2>1 DEF Looks
    <2>3. m'[Nth(F, nsFree, 2)].prev = m[Nth(F, nsFree, 2)].prev
      BY <1>2
    <2> QED
      BY <2>1, <2>2, <2>3
  <1> QED
    BY <1>3, <1>4 DEF Looks

-----------------------------------------------------------------------------
(* The accesses, one by one.                                               *)

LEMMA TestStep ==
  ASSUME met \in BOOLEAN, ~met', NEW F, NEW U, Pooled(F, U), NEW p \in Procs, Test(p)
  PROVE  Sound' /\ [Pool!Next]_(Pool!vars)
  <1>a. list_empty(m, nsFree) <=> F = <<>>
    BY HoldsFacts DEF Pooled
  <1>b. F = <<>> => Window = {}
    BY DEF Pooled, Looks
  <1>c. F # <<>> => Window = {}
    BY <1>a DEF Test
  <1>1. /\ Holds(m, known, F, U) /\ TypeOK /\ Looks(F) /\ Owns(F)
        /\ pc[p] = "idle" /\ Window = {} /\ UNCHANGED <<m, prv, nxt, known>>
    BY <1>b, <1>c DEF Pooled, Test
  <1>2. Holds(m, known, F, U)'
    BY <1>1
  <1>3. list_empty(m, nsFree) <=> F = <<>>
    BY <1>1, HoldsFacts
  <1>4. CASE F = <<>>
    <2>1. ns' = [ns EXCEPT ![p] = NULL] /\ UNCHANGED pc
      BY <1>3, <1>4 DEF Test
    <2>2. TypeOK'
      BY <1>1, <2>1 DEF TypeOK
    <2>3. Window' = {} /\ Unlinking' = Unlinking
      BY <1>1, <2>1 DEF Window, Unlinking
    <2>4. /\ \A q \in Procs : q # p => ns'[q] = ns[q]
          /\ ns'[p] = NULL /\ p \notin Unlinking
      BY <1>1, <2>1 DEF TypeOK, Unlinking
    <2>5. Looks(F)'
      BY <2>3 DEF Looks
    <2>6. Owns(F)'
      BY <1>1, <2>1, <2>4, OwnsStay
    <2>7. Pooled(F, U)'
      BY <1>2, <2>2, <2>5, <2>6 DEF Pooled
    <2>8. got' = [got EXCEPT ![p] = NULL]
      BY <1>1, <2>3, <2>4 DEF got
    <2> QED
      BY <2>7, <2>8, Forgets
  <1>5. CASE F # <<>>
    <2>1. pc' = [pc EXCEPT ![p] = "first"] /\ UNCHANGED ns
      BY <1>3, <1>5 DEF Test, Goto
    <2>2. TypeOK'
      BY <1>1, <2>1 DEF TypeOK, Labels
    <2>3. Window' = {p} /\ Unlinking' = Unlinking /\ pc'[p] = "first"
      BY <1>1, <2>1 DEF Window, Unlinking, TypeOK
    <2>4. \A q \in Procs : q # p => pc'[q] = pc[q]
      BY <1>1, <2>1 DEF TypeOK
    <2>5. Looks(F)'
      BY <1>5, <2>3 DEF Looks
    <2>6. Owns(F)'
      <3>1. /\ \A q \in Procs : q # p => pc'[q] = pc[q] /\ ns'[q] = ns[q]
            /\ \A q \in Unlinking : m'[ns[q]].next = m[ns[q]].next
            /\ known' = known /\ Owns(F) /\ pc'[p] = "first"
        BY <1>1, <2>1, <2>3, <2>4
      <3> QED
        BY <3>1, OwnsStay
    <2>7. Pooled(F, U)'
      BY <1>2, <2>2, <2>5, <2>6 DEF Pooled
    <2>8. got' = [got EXCEPT ![p] = NULL]
      BY <1>1, <2>1, <2>3 DEF got
    <2> QED
      BY <2>7, <2>8, Forgets
  <1> QED
    BY <1>4, <1>5

LEMMA FirstStep ==
  ASSUME NEW F, NEW U, Pooled(F, U), NEW p \in Procs, First(p)
  PROVE  Sound' /\ [Pool!Next]_(Pool!vars)
  <1>1. /\ Holds(m, known, F, U) /\ TypeOK /\ Looks(F) /\ Owns(F)
        /\ pc[p] = "first" /\ p \in Window /\ UNCHANGED <<m, prv, nxt, known>>
        /\ ns' = [ns EXCEPT ![p] = m[nsFree].next] /\ pc' = [pc EXCEPT ![p] = "links"]
    BY DEF Pooled, First, Goto, Window
  <1>2. F # <<>> /\ m[nsFree].next = F[1] /\ F[1] \in Spaces
    <2>1. F # <<>> /\ m[nsFree].next = Nth(F, nsFree, 1) /\ F[1] \in Spaces
      BY <1>1, HoldsFacts DEF Looks
    <2>2. Len(F) \in Nat /\ Len(F) # 0
      BY <2>1, <1>1, EmptySeq, LenProperties DEF Holds
    <2> QED
      BY <2>1, <2>2 DEF Nth
  <1>3. Holds(m, known, F, U)'
    BY <1>1
  <1>4. TypeOK'
    BY <1>1, <1>2 DEF TypeOK, Labels
  <1>5. /\ Window' = Window /\ Unlinking' = Unlinking /\ Window = {p}
        /\ pc'[p] = "links" /\ ns'[p] = F[1]
        /\ \A q \in Procs : q # p => pc'[q] = pc[q] /\ ns'[q] = ns[q]
    BY <1>1, <1>2 DEF Window, Unlinking, TypeOK, Looks
  <1>6. Looks(F)'
    BY <1>1, <1>2, <1>5 DEF Looks
  <1>7. Owns(F)'
    <2>1. /\ \A q \in Procs : q # p => pc'[q] = pc[q] /\ ns'[q] = ns[q]
          /\ \A q \in Unlinking : m'[ns[q]].next = m[ns[q]].next
          /\ known' = known /\ Owns(F) /\ pc'[p] = "links"
      BY <1>1, <1>5
    <2> QED
      BY <2>1, OwnsStay
  <1>8. Pooled(F, U)'
    BY <1>3, <1>4, <1>6, <1>7 DEF Pooled
  <1>9. got' = got
    BY <1>1, <1>5 DEF got
  <1> QED
    BY <1>8, <1>9, Hidden

LEMMA LinksStep ==
  ASSUME NEW F, NEW U, Pooled(F, U), NEW p \in Procs, Links(p)
  PROVE  Sound' /\ [Pool!Next]_(Pool!vars)
  <1>1. /\ Holds(m, known, F, U) /\ TypeOK /\ Looks(F) /\ Owns(F)
        /\ pc[p] = "links" /\ p \in Window /\ UNCHANGED <<m, ns, known>>
        /\ prv' = [prv EXCEPT ![p] = m[ns[p]].prev]
        /\ nxt' = [nxt EXCEPT ![p] = m[ns[p]].next]
        /\ pc' = [pc EXCEPT ![p] = "back"]
    BY DEF Pooled, Links, Goto, Window
  <1>2. /\ F # <<>> /\ ns[p] = F[1] /\ m[ns[p]].prev = nsFree
        /\ m[ns[p]].next = Nth(F, nsFree, 2)
        /\ nsFree \in Nodes /\ Nth(F, nsFree, 2) \in Nodes
    <2>1. F # <<>> /\ ns[p] = F[1] /\ m[ns[p]].prev = nsFree
      BY <1>1 DEF Looks, Holds
    <2>2. Len(F) \in Nat /\ Len(F) # 0
      BY <2>1, <1>1, EmptySeq, LenProperties DEF Holds
    <2>3. 1 \in 0..Len(F) /\ 1 + 1 = 2 /\ Nth(F, nsFree, 1) = F[1] /\ 2 \in Int
      BY <2>2 DEF Nth
    <2>4. m[ns[p]].next = Nth(F, nsFree, 2)
      BY <1>1, <2>1, <2>3 DEF Holds, Leads
    <2>5. Nth(F, nsFree, 2) \in Nodes
      BY <1>1, <2>3, HoldsFacts, NthFacts
    <2> QED
      BY <2>1, <2>4, <2>5, NodeFacts
  <1>3. Holds(m, known, F, U)'
    BY <1>1
  <1>4. TypeOK'
    BY <1>1, <1>2 DEF TypeOK, Labels
  <1>5. /\ Window' = Window /\ Unlinking' = Unlinking /\ Window = {p}
        /\ pc'[p] = "back" /\ prv'[p] = nsFree /\ nxt'[p] = Nth(F, nsFree, 2)
        /\ \A q \in Procs : q # p => pc'[q] = pc[q]
    BY <1>1, <1>2 DEF Window, Unlinking, TypeOK, Looks
  <1>6. Looks(F)'
    BY <1>1, <1>2, <1>5 DEF Looks
  <1>7. Owns(F)'
    <2>1. /\ \A q \in Procs : q # p => pc'[q] = pc[q] /\ ns'[q] = ns[q]
          /\ \A q \in Unlinking : m'[ns[q]].next = m[ns[q]].next
          /\ known' = known /\ Owns(F) /\ pc'[p] = "back"
      BY <1>1, <1>5
    <2> QED
      BY <2>1, OwnsStay
  <1>8. Pooled(F, U)'
    BY <1>3, <1>4, <1>6, <1>7 DEF Pooled
  <1>9. got' = got
    BY <1>1, <1>5 DEF got
  <1> QED
    BY <1>8, <1>9, Hidden

(* Between the two writes the second descriptor already points back to the *)
(* head, to which the first still points as well.                          *)
LEMMA BackStep ==
  ASSUME NEW F, NEW U, Pooled(F, U), NEW p \in Procs, Back(p)
  PROVE  Sound' /\ [Pool!Next]_(Pool!vars)
  <1> DEFINE x == nxt[p]
  <1>1. /\ Holds(m, known, F, U) /\ TypeOK /\ Looks(F) /\ Owns(F)
        /\ pc[p] = "back" /\ p \in Window /\ UNCHANGED <<ns, prv, nxt, known>>
        /\ m' = [m EXCEPT ![x].prev = prv[p]]
        /\ pc' = [pc EXCEPT ![p] = "forth"]
    BY DEF Pooled, Back, Goto, Window
  <1>2. F # <<>> /\ ns[p] = F[1] /\ prv[p] = nsFree /\ x = Nth(F, nsFree, 2)
    BY <1>1 DEF Looks
  <1>3. x \in Nodes /\ x \in Range(F) \cup {nsFree}
    BY <1>1, <1>2, SecondNode
  <1> HIDE DEF x
  <1>4. /\ m' \in Memory(Nodes, NULL)
        /\ \A y \in Nodes : /\ m'[y].prev = IF y = x THEN nsFree ELSE m[y].prev
                            /\ m'[y].next = m[y].next
        /\ \A y \in Nodes : y # x => m'[y] = m[y]
    <2>1. m \in Memory(Nodes, NULL) /\ m' = [m EXCEPT ![x].prev = nsFree]
      BY <1>1, <1>2 DEF Holds
    <2>2. \A y \in Nodes : y # x => m'[y] = m[y]
      BY <2>1 DEF Memory
    <2>3. nsFree \in Nodes \cup {NULL}
      BY NodeFacts
    <2>4. /\ m' \in Memory(Nodes, NULL)
          /\ \A y \in Nodes : /\ m'[y].prev = IF y = x THEN nsFree ELSE m[y].prev
                              /\ m'[y].next = m[y].next
      BY <1>3, <2>1, <2>3 DEF Memory
    <2> QED
      BY <2>2, <2>4
  <1>5. /\ Range(F) \subseteq Nodes /\ F[1] \in Range(F)
        /\ x \notin known \cup {nsList} /\ known \cup {nsList} \subseteq Nodes
    <2>1. Range(F) \subseteq Spaces /\ F[1] \in Range(F)
      BY <1>1, <1>2, HoldsFacts
    <2>2. known \subseteq Spaces /\ Range(F) \cap known = {}
      BY <1>1 DEF Holds
    <2> QED
      BY <1>3, <2>1, <2>2, NodeFacts
  <1>6. Holds(m, known, F, U)'
    <2>1. /\ \A y \in Range(F) \cup {nsFree} : m'[y].next = m[y].next
          /\ m'[F[1]].prev = nsFree
          /\ \A y \in known \cup {nsList} : m'[y] = m[y]
      BY <1>1, <1>2, <1>4, <1>5, NodeFacts DEF Holds
    <2>2. Holds(m', known, F, U)
      BY <1>1, <1>4, <2>1, HoldsFrame
    <2> QED
      BY <1>1, <2>2
  <1>7. TypeOK'
    BY <1>1 DEF TypeOK, Labels
  <1>8. /\ Window' = Window /\ Unlinking' = Unlinking /\ Window = {p}
        /\ pc'[p] = "forth"
        /\ \A q \in Procs : q # p => pc'[q] = pc[q]
    BY <1>1 DEF Window, Unlinking, TypeOK, Looks
  <1>9. Looks(F)'
    BY <1>1, <1>2, <1>3, <1>4, <1>8 DEF Looks, x
  <1>10. Owns(F)'
    <2>1. \A q \in Unlinking : m'[ns[q]].next = m[ns[q]].next
      BY <1>1, <1>4, NodeFacts DEF Owns
    <2>2. /\ \A q \in Procs : q # p => pc'[q] = pc[q] /\ ns'[q] = ns[q]
          /\ known' = known /\ Owns(F) /\ pc'[p] = "forth"
      BY <1>1, <1>8
    <2> QED
      BY <2>1, <2>2, OwnsStay
  <1>11. Pooled(F, U)'
    BY <1>6, <1>7, <1>9, <1>10 DEF Pooled
  <1>12. got' = got
    BY <1>1, <1>8 DEF got
  <1> QED
    BY <1>11, <1>12, Hidden

(* The descriptor is out of the list: this is where the call takes effect. *)
LEMMA ForthStep ==
  ASSUME NEW F, NEW U, Pooled(F, U), NEW p \in Procs, Forth(p)
  PROVE  Sound' /\ [Pool!Next]_(Pool!vars)
  <1> DEFINE x == Nth(F, nsFree, 2)
             G == Tail(F)
  <1>1. /\ Holds(m, known, F, U) /\ TypeOK /\ Looks(F) /\ Owns(F)
        /\ pc[p] = "forth" /\ p \in Window /\ UNCHANGED <<ns, prv, nxt, known>>
        /\ m' = [m EXCEPT ![prv[p]].next = nxt[p]]
        /\ pc' = [pc EXCEPT ![p] = "clear next"]
    BY DEF Pooled, Forth, Goto, Window
  <1>2. /\ F # <<>> /\ ns[p] = F[1] /\ prv[p] = nsFree /\ nxt[p] = x
        /\ m[x].prev = nsFree
    BY <1>1 DEF Looks
  <1>3. /\ F[1] \in Range(F) /\ Range(F) \subseteq Spaces /\ Range(F) \cap known = {}
        /\ Range(F) \cap Range(U) = {} /\ Listable(Nodes, nsFree, F)
        /\ m \in Memory(Nodes, NULL) /\ F \in Seq(Spaces) /\ known \subseteq Spaces
    BY <1>1, <1>2, HoldsFacts DEF Holds
  <1>4. x \in Nodes
    BY <1>1, SecondNode
  <1> HIDE DEF x
  <1>5. /\ m' \in Memory(Nodes, NULL) /\ m'[nsFree].next = x
        /\ \A y \in Nodes : m'[y].prev = m[y].prev
        /\ \A y \in Nodes : y # nsFree => m'[y].next = m[y].next /\ m'[y] = m[y]
    <2>1. m' = [m EXCEPT ![nsFree].next = x]
      BY <1>1, <1>2
    <2>2. m \in Memory(Nodes, NULL) /\ nsFree \in Nodes
      BY <1>3, NodeFacts
    <2> QED
      BY <2>1, <2>2, <1>4 DEF Memory
  <1>6. /\ Holds(m', known, G, U)
        /\ Range(G) = Range(F) \ {F[1]} /\ F[1] = Head(F)
    <2>1. Range(G) = Range(F) \ {F[1]} /\ F[1] = Head(F)
      <3>1. F[1] = Head(F)
        BY <1>2, <1>3
      <3> QED
        BY <3>1, <1>1, <1>2, <1>3, TailFacts DEF Holds
    <2>2. Unlinks(m, m', F, G)
      BY <1>2, <1>5 DEF Unlinks, x
    <2> HIDE DEF G
    <2>3. Holds(m', known, G, U)
      BY <1>1, <2>2, HoldsTail
    <2> QED
      BY <2>1, <2>3
  <1> HIDE DEF G
  <1>9. TypeOK'
    BY <1>1 DEF TypeOK, Labels
  <1>10. /\ Window = {p} /\ Window' = {} /\ Unlinking' = Unlinking \cup {p}
         /\ pc'[p] = "clear next" /\ pc \in [Procs -> Labels]
         /\ \A q \in Procs : q # p => pc'[q] = pc[q] /\ (q \in Unlinking \/ pc[q] = "idle")
    <2>1. /\ pc \in [Procs -> Labels] /\ pc'[p] = "clear next"
          /\ \A q \in Procs : q # p => pc'[q] = pc[q]
      BY <1>1 DEF TypeOK
    <2>2. Window = {p}
      BY <1>1 DEF Looks
    <2>3. \A q \in Procs : q # p => pc[q] \in {"idle", "clear next", "clear prev"}
      BY <2>1, <2>2 DEF Window, Labels
    <2> QED
      BY <2>1, <2>2, <2>3 DEF Window, Unlinking
  <1>11. Looks(G)'
    BY <1>10 DEF Looks
  <1>12. Owns(G)'
    <2>1. \A q \in Procs : pc'[q] = "idle" => q # p /\ pc[q] = "idle"
      BY <1>10
    <2>2. \A q \in Procs : pc'[q] = "idle" => ns'[q] = NULL \/ ns'[q] \in known'
      BY <1>1, <2>1 DEF Owns
    <2>3. \A q \in Unlinking' : ns'[q] \in Spaces \ (known' \cup Range(G))
      BY <1>1, <1>2, <1>3, <1>6, <1>10 DEF Owns
    <2>4. \A q \in Unlinking' : pc'[q] = "clear prev" => m'[ns'[q]].next = NULL
      <3> SUFFICES ASSUME NEW q \in Unlinking', pc'[q] = "clear prev"
                   PROVE  m'[ns'[q]].next = NULL
        OBVIOUS
      <3>1. q # p /\ q \in Unlinking /\ pc[q] = "clear prev"
        BY <1>10 DEF Unlinking
      <3>2. m[ns[q]].next = NULL /\ ns[q] \in Spaces
        BY <1>1, <3>1 DEF Owns
      <3> QED
        BY <1>1, <1>5, <3>2, NodeFacts
    <2>5. \A q \in Procs : q # p => ns[q] # F[1]
      <3> SUFFICES ASSUME NEW q \in Procs, q # p PROVE ns[q] # F[1]
        OBVIOUS
      <3>1. F[1] \notin known /\ F[1] # NULL
        BY <1>3, NsAllocAssumption
      <3> QED
        BY <1>1, <1>3, <1>10, <3>1 DEF Owns
    <2>6. \A q, r \in Procs \ Window' : ns'[q] = ns'[r] /\ ns'[q] # NULL => q = r
      <3> SUFFICES ASSUME NEW q \in Procs, NEW r \in Procs,
                          ns[q] = ns[r], ns[q] # NULL
                   PROVE  q = r
        BY <1>1
      <3>1. q = p <=> r = p
        BY <1>2, <2>5
      <3>2. q # p /\ r # p => q \notin Window /\ r \notin Window
        BY <1>10
      <3> QED
        BY <1>1, <3>1, <3>2 DEF Owns
    <2> QED
      BY <2>2, <2>3, <2>4, <2>6 DEF Owns
  <1>13. Pooled(G, U)'
    BY <1>1, <1>6, <1>9, <1>11, <1>12 DEF Pooled
  <1>14. /\ Free = F /\ Used = U /\ Free' = G /\ Used' = U /\ Sound'
    BY <1>13, Seen, SeenNext
  <1>15. got' = [got EXCEPT ![p] = Head(F)]
    BY <1>1, <1>2, <1>6, <1>10 DEF got
  <1>16. Pool!Alloc(p)
    BY <1>2, <1>14, <1>15 DEF Pool!Alloc, got, Free, Used, G
  <1> QED
    BY <1>14, <1>16 DEF Pool!Next

LEMMA ClearNextStep ==
  ASSUME NEW F, NEW U, Pooled(F, U), NEW p \in Procs, ClearNext(p)
  PROVE  Sound' /\ [Pool!Next]_(Pool!vars)
  <1> DEFINE x == ns[p]
  <1>1. /\ Holds(m, known, F, U) /\ TypeOK /\ Looks(F) /\ Owns(F)
        /\ pc[p] = "clear next" /\ p \in Unlinking /\ UNCHANGED <<ns, prv, nxt, known>>
        /\ m' = [m EXCEPT ![x].next = NULL]
        /\ pc' = [pc EXCEPT ![p] = "clear prev"]
    BY DEF Pooled, ClearNext, Goto, Unlinking
  <1>2. /\ x \in Spaces /\ x \notin known /\ x \notin Range(F)
        /\ m \in Memory(Nodes, NULL) /\ known \subseteq Spaces
        /\ Range(F) \subseteq Spaces /\ (F # <<>> => F[1] \in Range(F))
    BY <1>1, HoldsFacts DEF Owns, Holds
  <1> HIDE DEF x
  <1>3. /\ m' \in Memory(Nodes, NULL) /\ m'[x].next = NULL
        /\ \A y \in Nodes : m'[y].prev = m[y].prev
        /\ \A y \in Nodes : y # x => m'[y].next = m[y].next /\ m'[y] = m[y]
    BY <1>1, <1>2, NodeFacts DEF Memory
  <1>4. Holds(m', known, F, U)
    <2>1. /\ \A y \in Range(F) \cup {nsFree} : m'[y].next = m[y].next
          /\ F # <<>> => m'[F[1]].prev = nsFree
          /\ \A y \in known \cup {nsList} : m'[y] = m[y]
      <3>1. /\ x \notin Range(F) \cup {nsFree} /\ x \notin known \cup {nsList}
            /\ Range(F) \cup {nsFree} \subseteq Nodes /\ known \cup {nsList} \subseteq Nodes
        BY <1>2, NodeFacts
      <3>2. F # <<>> => m[F[1]].prev = nsFree
        BY <1>1 DEF Holds
      <3> QED
        BY <3>1, <3>2, <1>2, <1>3
    <2> QED
      BY <1>1, <1>3, <2>1, HoldsFrame
  <1>5. TypeOK'
    BY <1>1 DEF TypeOK, Labels
  <1>6. /\ Window' = Window /\ Unlinking' = Unlinking /\ pc'[p] = "clear prev"
        /\ \A q \in Procs : q # p => pc'[q] = pc[q]
    BY <1>1 DEF Window, Unlinking, TypeOK
  <1>7. Looks(F)'
    <2>1. \A y \in Range(F) \cup {nsFree} : m'[y].prev = m[y].prev
      BY <1>2, <1>3, NodeFacts
    <2> QED
      BY <1>1, <1>6, <2>1, LooksStay
  <1>8. Owns(F)'
    <2>1. \A q \in Procs : pc'[q] = "idle" => ns'[q] = NULL \/ ns'[q] \in known'
      BY <1>1, <1>6 DEF Owns
    <2>2. \A q \in Unlinking' : ns'[q] \in Spaces \ (known' \cup Range(F))
      BY <1>1, <1>6 DEF Owns
    <2>3. ASSUME NEW q \in Unlinking', pc'[q] = "clear prev" PROVE m'[ns'[q]].next = NULL
      <3>1. q \in Unlinking /\ q \in Procs /\ ns[q] \in Spaces
        BY <1>1, <1>6 DEF Owns, Unlinking
      <3>2. q # p => m[ns[q]].next = NULL
        BY <1>1, <1>6, <2>3, <3>1 DEF Owns
      <3> QED
        BY <1>1, <1>3, <3>1, <3>2, NodeFacts DEF x
    <2>4. \A q, r \in Procs \ Window' : ns'[q] = ns'[r] /\ ns'[q] # NULL => q = r
      BY <1>1, <1>6 DEF Owns
    <2> QED
      BY <2>1, <2>2, <2>3, <2>4 DEF Owns
  <1>9. Pooled(F, U)'
    BY <1>1, <1>4, <1>5, <1>7, <1>8 DEF Pooled
  <1>10. got' = got
    BY <1>1, <1>6 DEF got
  <1> QED
    BY <1>9, <1>10, Hidden

LEMMA ClearPrevStep ==
  ASSUME NEW F, NEW U, Pooled(F, U), NEW p \in Procs, ClearPrev(p)
  PROVE  Sound' /\ [Pool!Next]_(Pool!vars)
  <1> DEFINE x == ns[p]
  <1>1. /\ Holds(m, known, F, U) /\ TypeOK /\ Looks(F) /\ Owns(F)
        /\ pc[p] = "clear prev" /\ p \in Unlinking /\ UNCHANGED ns
        /\ m' = [m EXCEPT ![x].prev = NULL] /\ known' = known \cup {x}
        /\ pc' = [pc EXCEPT ![p] = "idle"]
        /\ prv' = [prv EXCEPT ![p] = NULL] /\ nxt' = [nxt EXCEPT ![p] = NULL]
    BY DEF Pooled, ClearPrev, Goto, Unlinking
  <1>2. /\ x \in Spaces /\ x \notin known /\ x \notin Range(F) /\ m[x].next = NULL
        /\ m \in Memory(Nodes, NULL) /\ known \subseteq Spaces
        /\ Range(F) \subseteq Spaces /\ (F # <<>> => F[1] \in Range(F))
        /\ Range(U) \subseteq known
    BY <1>1, HoldsFacts DEF Owns, Holds
  <1>3. /\ \A q \in Procs : q # p => /\ pc'[q] = pc[q] /\ ns'[q] = ns[q]
                                     /\ prv'[q] = prv[q] /\ nxt'[q] = nxt[q]
        /\ pc'[p] = "idle" /\ ns'[p] = x
        /\ \A q \in Unlinking : q # p => ns[q] # x
    <2>1. p \notin Window /\ Unlinking \subseteq Procs \ Window
      BY <1>1 DEF Unlinking, Window
    <2>2. x # NULL
      BY <1>2, NsAllocAssumption
    <2> QED
      BY <1>1, <2>1, <2>2 DEF TypeOK, Owns
  <1> HIDE DEF x
  <1>4. /\ m' \in Memory(Nodes, NULL) /\ m'[x] = Unlinked(NULL)
        /\ \A y \in Nodes : m'[y].next = m[y].next
        /\ \A y \in Nodes : y # x => m'[y].prev = m[y].prev /\ m'[y] = m[y]
    BY <1>1, <1>2, NodeFacts DEF Memory, Unlinked
  <1>5. Holds(m', known', F, U)
    <2>1. /\ \A y \in Range(F) \cup {nsFree} : m'[y].next = m[y].next
          /\ F # <<>> => m'[F[1]].prev = nsFree
          /\ \A y \in known \cup {nsList} : m'[y] = m[y]
      <3>1. /\ x \notin Range(F) \cup {nsFree} /\ x \notin known \cup {nsList}
            /\ Range(F) \cup {nsFree} \subseteq Nodes /\ known \cup {nsList} \subseteq Nodes
        BY <1>2, NodeFacts
      <3>2. F # <<>> => m[F[1]].prev = nsFree
        BY <1>1 DEF Holds
      <3> QED
        BY <3>1, <3>2, <1>2, <1>4
    <2>2. Holds(m', known, F, U)
      BY <1>1, <1>4, <2>1, HoldsFrame
    <2>3. \A s \in (known \cup {x}) \ Range(U) : m'[s] = Unlinked(NULL)
      BY <1>4, <2>2 DEF Holds
    <2>4. Holds(m', known \cup {x}, F, U)
      BY <1>2, <2>2, <2>3 DEF Holds
    <2> QED
      BY <1>1, <2>4
  <1>6. TypeOK'
    BY <1>1, NodeFacts DEF TypeOK, Labels
  <1>7. /\ Window' = Window /\ Unlinking' = Unlinking \ {p}
    BY <1>1, <1>3 DEF Window, Unlinking
  <1>8. Looks(F)'
    <2>1. \A y \in Range(F) \cup {nsFree} : m'[y].prev = m[y].prev
      BY <1>2, <1>4, NodeFacts
    <2> QED
      BY <1>1, <1>3, <2>1, LooksStay
  <1>9. Owns(F)'
    <2>1. \A q \in Procs : pc'[q] = "idle" => ns'[q] = NULL \/ ns'[q] \in known'
      BY <1>1, <1>3 DEF Owns
    <2>2. \A q \in Unlinking' : ns'[q] \in Spaces \ (known' \cup Range(F))
      BY <1>1, <1>3, <1>7 DEF Owns
    <2>3. ASSUME NEW q \in Unlinking', pc'[q] = "clear prev" PROVE m'[ns'[q]].next = NULL
      <3>1. q \in Unlinking /\ q \in Procs /\ q # p
        BY <1>7 DEF Unlinking
      <3>2. m[ns[q]].next = NULL /\ ns[q] \in Spaces /\ ns'[q] = ns[q]
        BY <1>1, <1>3, <2>3, <3>1 DEF Owns
      <3> QED
        BY <1>4, <3>2, NodeFacts
    <2>4. \A q, r \in Procs \ Window' : ns'[q] = ns'[r] /\ ns'[q] # NULL => q = r
      BY <1>1, <1>7 DEF Owns
    <2> QED
      BY <2>1, <2>2, <2>3, <2>4 DEF Owns
  <1>10. Pooled(F, U)'
    BY <1>5, <1>6, <1>8, <1>9 DEF Pooled
  <1>11. got' = got
    BY <1>1, <1>7 DEF got
  <1> QED
    BY <1>10, <1>11, Hidden

LEMMA AddStep ==
  ASSUME NEW F, NEW U, Pooled(F, U), NEW s \in Spaces, addNamespace(s)
  PROVE  Sound' /\ [Pool!Next]_(Pool!vars)
  <1> DEFINE V == Append(Without(U, {s}), s)
  <1>1. /\ Holds(m, known, F, U) /\ TypeOK /\ Looks(F) /\ Owns(F)
        /\ s \in known /\ UNCHANGED <<pc, ns, prv, nxt, known>>
        /\ m' = list_add_tail(list_safe_del(m, s, NULL), s, nsList)
    BY DEF Pooled, addNamespace
  <1>2. /\ Holds(m', known, F, V)
        /\ \A y \in Nodes \ (known \cup {nsList}) :
             m'[y].next = m[y].next /\ m'[y].prev = m[y].prev
    BY <1>1, HoldsUse
  <1>3. /\ Range(F) \subseteq Spaces /\ Range(F) \cap known = {} /\ known \subseteq Spaces
    BY <1>1, HoldsFacts DEF Holds
  <1> HIDE DEF V
  <1>4. TypeOK' /\ Window' = Window /\ Unlinking' = Unlinking
    BY <1>1 DEF TypeOK, Window, Unlinking
  <1>5. Looks(F)'
    <2>1. Nth(F, nsFree, 2) \in Nodes \ (known \cup {nsList})
      BY <1>1, <1>3, SecondNode, NodeFacts
    <2>2. \A q \in Window : pc[q] = "forth" => m'[nxt[q]].prev = nsFree
      BY <1>1, <1>2, <2>1 DEF Looks
    <2> QED
      BY <1>1, <1>4, <2>2 DEF Looks
  <1>6. Owns(F)'
    <2>1. \A q \in Unlinking : pc[q] = "clear prev" => m'[ns[q]].next = NULL
      <3> SUFFICES ASSUME NEW q \in Unlinking, pc[q] = "clear prev"
                   PROVE  m'[ns[q]].next = NULL
        OBVIOUS
      <3>1. ns[q] \in Nodes \ (known \cup {nsList}) /\ m[ns[q]].next = NULL
        BY <1>1, NodeFacts DEF Owns
      <3> QED
        BY <3>1, <1>2
    <2> QED
      BY <1>1, <1>4, <2>1 DEF Owns
  <1>7. Pooled(F, V)'
    BY <1>1, <1>2, <1>4, <1>5, <1>6 DEF Pooled
  <1>8. Free = F /\ Used = U /\ Free' = F /\ Used' = V /\ Sound'
    BY <1>7, Seen, SeenNext
  <1>9. got' = got
    BY <1>1, <1>4 DEF got
  <1>10. s \notin Range(F)
    BY <1>1, <1>3
  <1>11. Pool!Use(s)
    BY <1>8, <1>9, <1>10, SameQueueOps, Zenon DEF Pool!Use, got, Free, Used, V
  <1> QED
    BY <1>8, <1>11 DEF Pool!Next

LEMMA KilledStep ==
  ASSUME NEW F, NEW U, Pooled(F, U), NEW p \in Procs, Killed(p)
  PROVE  Sound' /\ [Pool!Next]_(Pool!vars)
  <1>1. /\ Holds(m, known, F, U) /\ TypeOK /\ Looks(F) /\ Owns(F)
        /\ UNCHANGED <<m, known>>
        /\ pc' = [pc EXCEPT ![p] = "idle"] /\ ns' = [ns EXCEPT ![p] = NULL]
        /\ prv' = [prv EXCEPT ![p] = NULL] /\ nxt' = [nxt EXCEPT ![p] = NULL]
    BY DEF Pooled, Killed, Goto
  <1>2. /\ \A q \in Procs : q # p => /\ pc'[q] = pc[q] /\ ns'[q] = ns[q]
                                     /\ prv'[q] = prv[q] /\ nxt'[q] = nxt[q]
        /\ pc'[p] = "idle" /\ ns'[p] = NULL
    BY <1>1 DEF TypeOK
  <1>3. TypeOK'
    BY <1>1 DEF TypeOK, Labels
  <1>4. Looks(F)'
    BY <1>1, <1>2, LooksStay
  <1>5. Owns(F)'
    <2>1. /\ \A q \in Procs : q # p => pc'[q] = pc[q] /\ ns'[q] = ns[q]
          /\ \A q \in Unlinking : m'[ns[q]].next = m[ns[q]].next
          /\ known' = known /\ Owns(F) /\ pc'[p] = "idle" /\ ns'[p] = NULL
      BY <1>1, <1>2
    <2> QED
      BY <2>1, OwnsStay
  <1>6. Pooled(F, U)'
    BY <1>1, <1>3, <1>4, <1>5 DEF Pooled
  <1>7. got' = [got EXCEPT ![p] = NULL]
    <2>1. p \notin Window' /\ \A q \in Procs : q # p => (q \in Window' <=> q \in Window)
      BY <1>2 DEF Window
    <2> QED
      BY <1>2, <2>1 DEF got
  <1> QED
    BY <1>6, <1>7, Forgets

-----------------------------------------------------------------------------

LEMMA InitStep ==
  ASSUME Init
  PROVE  Sound /\ Pool!Init
  <1> DEFINE N == Cardinality(Spaces)
  <1>1. N \in Nat
    BY NsAllocAssumption, FS_CardinalityType
  <1>2. PICK t \in [1..N -> Spaces] :
          /\ NoRepeats(t)
          /\ m = LET empty == INIT_LIST_HEAD(INIT_LIST_HEAD(
                                [x \in Spaces \cup {nsFree, nsList} |-> Unlinked(NULL)],
                                nsFree), nsList)
                     linked[i \in 0..Len(t)] ==
                       IF i = 0 THEN empty ELSE list_add_tail(linked[i - 1], t[i], nsFree)
                 IN  linked[Len(t)]
    BY DEF Init
  <1> DEFINE f == CHOOSE g : Fills(g, N, t)
  <1>3. Len(t) = N
    BY <1>1, LenProperties, IsASeq
  <1>4. m = f[N]
    BY <1>2, <1>3, Zenon DEF Fills, NoSpaces, Zeros, Nodes
  <1>5. Fills(f, N, t)
    BY <1>1, FillsExist
  <1> HIDE DEF f, N
  <1>6. PICK q : Len(q) = N /\ Filled(m, q)
    <2>1. \E q : Len(q) = N /\ Filled(f[N], q)
      BY <1>1, <1>2, <1>5, FillsFilled
    <2> QED
      BY <2>1, <1>4
  <1>7. /\ m \in Memory(Nodes, NULL) /\ q \in Seq(Spaces) /\ NoRepeats(q)
        /\ Linked(m, nsFree, q) /\ Linked(m, nsList, <<>>)
    BY <1>6 DEF Filled
  <1>8. Holds(m, {}, q, <<>>)
    <2>1. Leads(m, nsFree, q)
      BY <1>7 DEF Linked, Leads
    <2>2. q # <<>> => m[q[1]].prev = nsFree
      <3>1. Len(q) \in Nat /\ (q # <<>> => Len(q) # 0)
        BY <1>7, LenProperties, EmptySeq
      <3>2. 0 \in 0..Len(q) /\ 0 + 1 = 1 /\ Nth(q, nsFree, 0) = nsFree
        BY <3>1 DEF Nth
      <3>3. m[Nth(q, nsFree, 1)].prev = nsFree
        BY <3>2, <1>7 DEF Linked
      <3>4. q # <<>> => Nth(q, nsFree, 1) = q[1]
        BY <3>1 DEF Nth
      <3> QED
        BY <3>3, <3>4
    <2>3. <<>> \in Seq(Spaces) /\ NoRepeats(<<>>) /\ Range(<<>>) = {}
      BY EmptySeq DEF NoRepeats, Range
    <2> QED
      BY <1>7, <2>1, <2>2, <2>3 DEF Holds
  <1>9. /\ pc = [p \in Procs |-> "idle"] /\ ns = [p \in Procs |-> NULL]
        /\ prv = [p \in Procs |-> NULL] /\ nxt = [p \in Procs |-> NULL]
        /\ known = {}
    BY DEF Init
  <1>10. Window = {} /\ Unlinking = {}
    BY <1>9 DEF Window, Unlinking
  <1>11. TypeOK
    BY <1>9 DEF TypeOK, Labels
  <1>12. Looks(q)
    BY <1>10 DEF Looks
  <1>13. Owns(q)
    BY <1>9, <1>10 DEF Owns
  <1>14. Pooled(q, <<>>)
    BY <1>8, <1>9, <1>11, <1>12, <1>13 DEF Pooled
  <1>15. Free = q /\ Used = <<>> /\ Sound
    BY <1>14, Seen
  <1>16. q \in [1..N -> Spaces]
    BY <1>6, <1>7
  <1>17. Free \in {g \in [1..Pool!Cardinality(Spaces) -> Spaces] : Pool!NoRepeats(g)}
    BY <1>7, <1>15, <1>16, SameQueueOps DEF N
  <1>18. got = [p \in Procs |-> NULL]
    BY <1>9, <1>10 DEF got
  <1>19. Pool!Init
    BY <1>15, <1>17, <1>18, Zenon DEF Pool!Init, got, Free, Used
  <1> QED
    BY <1>15, <1>19

(* No step forgets that two calls have met.                                *)
LEMMA MetStep ==
  ASSUME met \in BOOLEAN, [Next]_vars
  PROVE  met' \in BOOLEAN /\ (met => met')
  <1>1. ASSUME NEW p \in Procs, allocNamespace(p)
        PROVE  met' \in BOOLEAN /\ (met => met')
    <2>1. CASE Test(p)
      BY <2>1 DEF Test
    <2>2. CASE First(p) \/ Links(p) \/ Back(p) \/ Forth(p) \/ ClearNext(p) \/ ClearPrev(p)
      BY <2>2 DEF First, Links, Back, Forth, ClearNext, ClearPrev
    <2> QED
      BY <1>1, <2>1, <2>2 DEF allocNamespace
  <1>2. ASSUME NEW p \in Procs, Killed(p)
        PROVE  met' \in BOOLEAN /\ (met => met')
    BY <1>2 DEF Killed
  <1>3. ASSUME NEW s \in Spaces, addNamespace(s)
        PROVE  met' \in BOOLEAN /\ (met => met')
    BY <1>3 DEF addNamespace
  <1>4. CASE UNCHANGED vars
    BY <1>4 DEF vars
  <1> QED
    BY <1>1, <1>2, <1>3, <1>4 DEF Next

LEMMA NextStep ==
  ASSUME IInv, [Next]_vars, ~met'
  PROVE  Sound' /\ [Pool!Next]_(Pool!vars)
  <1>0. met \in BOOLEAN /\ ~met
    BY MetStep DEF IInv
  <1>1. PICK F, U : Pooled(F, U)
    BY <1>0 DEF IInv, Sound
  <1>2. ASSUME NEW p \in Procs, allocNamespace(p)
        PROVE  Sound' /\ [Pool!Next]_(Pool!vars)
    <2>1. CASE Test(p)
      BY <1>0, <1>1, <2>1, TestStep
    <2>2. CASE First(p)
      BY <1>1, <2>2, FirstStep
    <2>3. CASE Links(p)
      BY <1>1, <2>3, LinksStep
    <2>4. CASE Back(p)
      BY <1>1, <2>4, BackStep
    <2>5. CASE Forth(p)
      BY <1>1, <2>5, ForthStep
    <2>6. CASE ClearNext(p)
      BY <1>1, <2>6, ClearNextStep
    <2>7. CASE ClearPrev(p)
      BY <1>1, <2>7, ClearPrevStep
    <2> QED
      BY <1>2, <2>1, <2>2, <2>3, <2>4, <2>5, <2>6, <2>7 DEF allocNamespace
  <1>3. CASE \E p \in Procs : Killed(p)
    BY <1>1, <1>3, KilledStep
  <1>4. CASE \E s \in Spaces : addNamespace(s)
    BY <1>1, <1>4, AddStep
  <1>5. CASE UNCHANGED vars
    <2>1. UNCHANGED <<m, pc, ns, prv, nxt, known>>
      BY <1>5 DEF vars
    <2>2. /\ Holds(m, known, F, U) /\ TypeOK /\ Looks(F) /\ Owns(F)
      BY <1>1 DEF Pooled
    <2>3. Holds(m', known', F, U)
      BY <2>1, <2>2
    <2>4. Window' = Window /\ Unlinking' = Unlinking
      BY <2>1 DEF Window, Unlinking
    <2>5. TypeOK' /\ Looks(F)' /\ Owns(F)'
      BY <2>1, <2>2, <2>4 DEF TypeOK, Looks, Owns
    <2>6. Pooled(F, U)'
      BY <2>3, <2>5 DEF Pooled
    <2>7. got' = got
      BY <2>1, <2>4 DEF got
    <2> QED
      BY <1>1, <2>6, <2>7, Hidden
  <1> QED
    BY <1>2, <1>3, <1>4, <1>5 DEF Next

LEMMA PooledWhole ==
  ASSUME IInv
  PROVE  PoolWhole
  <1> SUFFICES ASSUME ~met PROVE PoolWhole
    BY DEF PoolWhole
  <1>1. PICK F, U : Pooled(F, U)
    BY DEF IInv, Sound
  <1>2. /\ Holds(m, known, F, U) /\ TypeOK /\ Looks(F) /\ Owns(F)
        /\ Free = F /\ Used = U
    BY <1>1, Seen DEF Pooled
  <1>3. /\ NoRepeats(F) /\ NoRepeats(U)
        /\ Range(F) \subseteq Spaces /\ Range(U) \subseteq Spaces
        /\ Range(F) \cap known = {} /\ Range(U) \subseteq known
        /\ \A s \in known \ Range(U) : m[s] = Unlinked(NULL)
        /\ Listable(Nodes, nsList, U) /\ Linked(m, nsList, U)
    BY <1>2, HoldsFacts DEF Holds
  <1>4. \A s \in Range(U) \cup {nsList} : m[m[s].next].prev = s
    BY <1>3, Neighbours
  <1>5. \A s \in Spaces : \A p \in Holder(s) : p \in Procs \ Window /\ ns[p] = s /\ s # NULL
    BY NsAllocAssumption DEF Holder, Window, Unlinking
  <1>6. \A s \in Range(F) : Holder(s) = {}
    <2> SUFFICES ASSUME NEW s \in Range(F), NEW p \in Holder(s) PROVE FALSE
      OBVIOUS
    <2>1. s \in Spaces /\ s # NULL /\ ns[p] = s /\ p \in Procs
      BY <1>3, <1>5
    <2>2. pc[p] = "idle" \/ p \in Unlinking
      BY DEF Holder
    <2> QED
      BY <1>2, <1>3, <2>1, <2>2 DEF Owns
  <1>7. ASSUME NEW s \in Spaces PROVE Cardinality(Holder(s)) <= 1
    <2>1. CASE Holder(s) = {}
      BY <2>1, FS_EmptySet
    <2>2. CASE Holder(s) # {}
      <3>1. PICK p : p \in Holder(s)
        BY <2>2
      <3>2. \A q \in Holder(s) : q = p
        BY <1>2, <1>5, <3>1 DEF Owns
      <3>3. Holder(s) = {p}
        BY <3>1, <3>2
      <3>4. Cardinality({p}) = 1
        BY FS_Singleton
      <3> QED
        BY <3>3, <3>4
    <2> QED
      BY <2>1, <2>2
  <1> QED
    BY <1>2, <1>3, <1>4, <1>6, <1>7 DEF PoolWhole

-----------------------------------------------------------------------------

(* The inductive invariant: until two calls meet between the test of the   *)
(* free list and the unlinking write, the memory holds the two lists, and  *)
(* what the processes have read of them is true.                           *)
THEOREM PooledAlways == Spec => []IInv
  <1>1. Init => IInv
    BY InitStep DEF Init, IInv
  <1>2. IInv /\ [Next]_vars => IInv'
    BY NextStep, MetStep DEF IInv
  <1> QED
    BY <1>1, <1>2, PTL DEF Spec

(* Wherever allocNamespace is interrupted, and whoever is terminated in    *)
(* the middle of it, no descriptor is given twice and both lists can be    *)
(* used by the next call, until two calls meet in the window.              *)
THEOREM PoolWholeAlways == Spec => []PoolWhole
  BY PooledAlways, PooledWhole, PTL

(* And until then the accesses of allocNamespace implement a pool from     *)
(* which a call takes a descriptor at one moment.                          *)
THEOREM ImplementsPoolAlways == Spec => ImplementsPool
  <1>1. Init => Pool!Init
    BY InitStep
  <1>2. IInv /\ [Next]_vars => [~met' => [Pool!Next]_(Pool!vars)]_vars
    BY NextStep
  <1> QED
    BY <1>1, <1>2, PooledAlways, PTL DEF Spec, ImplementsPool
=============================================================================
