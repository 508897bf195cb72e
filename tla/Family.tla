------------------------------- MODULE Family -------------------------------
(***************************************************************************)
(* The process tree and the namespaces: the tree functions of              *)
(* pandos/phase1/pcb.c, pandos/phase1/ns.c and their use by CREATEPROCESS, *)
(* TERMPROCESS, GETPROCESSID and GETCHILDREN (pandos/phase2/syscall.c).    *)
(*                                                                         *)
(* The children of a process are a ring of p_sib nodes behind its p_child  *)
(* head, and TERMPROCESS walks the tree by taking the first child out of   *)
(* the ring until there is none.  A freed pcb goes on top of the free list *)
(* and is the next to be used again; resetPcb does not touch its           *)
(* namespaces.  There is one type of namespaces (NS_PID).                  *)
(***************************************************************************)
EXTENDS ListHead, Queues

CONSTANTS Pcbs,    \* the process control blocks
          Spaces,  \* PID_nsd
          NULL     \* the null pointer

p_child(p) == <<p, "p_child">>
p_sib(p) == <<p, "p_sib">>
Nodes == {p_child(p) : p \in Pcbs} \cup {p_sib(p) : p \in Pcbs}

ASSUME FamilyAssumption ==
  /\ IsFiniteSet(Pcbs) /\ Pcbs # {} /\ IsFiniteSet(Spaces)
  /\ NULL \notin Pcbs \cup Spaces \cup Nodes

VARIABLES pcbFree,     \* pcbFree_h, from its head
          sibs,        \* the pointers of every p_child and p_sib
          p_parent,
          namespaces,  \* per process: its namespace
          nsFree,      \* PID_nsFree_h
          nsList,      \* PID_nsList_h
          last         \* the last system call

vars == <<pcbFree, sibs, p_parent, namespaces, nsFree, nsList, last>>

Alive == Pcbs \ Range(pcbFree)
Children(p) == LET ring == Contents(sibs, p_child(p))
               IN  [i \in DOMAIN ring |-> ring[i][1]]

(* resetPcb, as far as the tree goes.                                      *)
resetPcb(m, p) == [INIT_LIST_HEAD(m, p_child(p)) EXCEPT ![p_sib(p)] = Unlinked(NULL)]

(* initPcbs, initNamespaces and the root process of initKernel, which has  *)
(* no namespace.                                                           *)
Init ==
  /\ \E table \in {t \in [1..Cardinality(Pcbs) -> Pcbs] : NoRepeats(t)} :
       /\ pcbFree = Tail(table)
       /\ sibs = resetPcb([n \in Nodes |-> Unlinked(NULL)], Head(table))
  /\ nsFree \in {f \in [1..Cardinality(Spaces) -> Spaces] : NoRepeats(f)}
  /\ p_parent = [p \in Pcbs |-> NULL]
  /\ namespaces = [p \in Pcbs |-> NULL]
  /\ nsList = <<>>
  /\ last = [op |-> "none"]

-----------------------------------------------------------------------------

insertChild(m, prnt, p) == list_add_tail(m, p_sib(p), p_child(prnt))

(* The pointers, the parents and the free list on which the termination    *)
(* works, and outChild on them.  Bug before it: p_parent is not reset.     *)
outChildKeepsParent(w, p) ==
  IF w.parent[p] = NULL \/ list_empty(w.sibs, p_child(w.parent[p]))
  THEN w
  ELSE [w EXCEPT !.sibs = list_del(w.sibs, p_sib(p), NULL)]

outChild(w, p) ==
  IF w.parent[p] = NULL \/ list_empty(w.sibs, p_child(w.parent[p]))
  THEN w
  ELSE [w EXCEPT !.sibs = list_del(w.sibs, p_sib(p), NULL), !.parent[p] = NULL]

Worlds == [sibs : [Nodes -> [next : Nodes \cup {NULL}, prev : Nodes \cup {NULL}]],
           parent : [Pcbs -> Pcbs \cup {NULL}],
           free : Seq(Pcbs)]

(* Bug for the runs to find: only the first child is terminated.           *)
TerminateFirst(w, p) ==
  LET terminate[n \in 0..Cardinality(Pcbs)] ==
        [x \in Worlds \X Pcbs |->
           LET v == x[1]
               q == x[2]
               c == v.sibs[p_child(q)].next[1]
           IN  IF n = 0 \/ list_empty(v.sibs, p_child(q))
               THEN [v EXCEPT !.free = <<q>> \o @]
               ELSE [terminate[n - 1][<<outChild(v, c), c>>] EXCEPT !.free = <<q>> \o @]]
  IN  terminate[Cardinality(Pcbs)][<<w, p>>]

(* __terminateProcess: while there is a first child (removeChild), it and  *)
(* its own children are terminated; then q is freed.  n is no less than    *)
(* the number of the descendants q has left.                               *)
Terminate(w, p) ==
  LET terminate[n \in 0..Cardinality(Pcbs)] ==
        [x \in Worlds \X Pcbs |->
           LET v == x[1]
               q == x[2]
               c == v.sibs[p_child(q)].next[1]
           IN  IF n = 0 \/ list_empty(v.sibs, p_child(q))
               THEN [v EXCEPT !.free = <<q>> \o @]
               ELSE terminate[n - 1][<<terminate[n - 1][<<outChild(v, c), c>>], q>>]]
  IN  terminate[Cardinality(Pcbs)][<<w, p>>]

terminateProcess(p) ==
  LET w == Terminate(outChild([sibs |-> sibs, parent |-> p_parent,
                               free |-> pcbFree], p), p)
  IN  /\ p \in Alive
      /\ sibs' = w.sibs /\ p_parent' = w.parent /\ pcbFree' = w.free
      /\ last' = [op |-> "terminate", pid |-> p]
      /\ UNCHANGED <<namespaces, nsFree, nsList>>

-----------------------------------------------------------------------------

(* The children of the processes in ps and their children, and so on       *)
(* (setAllChildNamespace): those reached by going up through p_parent.     *)
Below(parent, ps) ==
  {q \in Pcbs : \E n \in 1..Cardinality(Pcbs) :
     \E path \in [0..n -> Pcbs] :
       /\ path[0] = q /\ path[n] \in ps
       /\ \A i \in 1..n : path[i] = parent[path[i - 1]]}

(* Bug: the namespace is given to the siblings of p as well.               *)
addNamespaceSiblings(p, ns, parent) ==
  IF ns = NULL
  THEN UNCHANGED <<namespaces, nsFree, nsList>>
  ELSE /\ namespaces' = [q \in Pcbs |-> IF q \in {p} \cup Below(parent, {parent[p]})
                                        THEN ns ELSE namespaces[q]]
       /\ nsFree' = Without(nsFree, {ns})
       /\ nsList' = Append(Without(nsList, {ns}), ns)

(* addNamespace on the tree parent: p and all below it get ns, which goes  *)
(* from whatever list it is in to the tail of the used ones.               *)
addNamespace(p, ns, parent) ==
  IF ns = NULL
  THEN UNCHANGED <<namespaces, nsFree, nsList>>
  ELSE /\ namespaces' = [q \in Pcbs |-> IF q \in {p} \cup Below(parent, {p})
                                        THEN ns ELSE namespaces[q]]
       /\ nsFree' = Without(nsFree, {ns})
       /\ nsList' = Append(Without(nsList, {ns}), ns)

(* SYS 1: without a descriptor nsd the child gets the namespace of its     *)
(* parent, if that has one.                                                *)
createProcess(p, nsd) ==
  LET new == Head(pcbFree)
      parent == [p_parent EXCEPT ![new] = p]
  IN  /\ p \in Alive /\ pcbFree # <<>>
      /\ pcbFree' = Tail(pcbFree)
      /\ sibs' = insertChild(resetPcb(sibs, new), p, new)
      /\ p_parent' = parent
      /\ addNamespace(new, IF nsd # NULL THEN nsd ELSE namespaces[p], parent)
      /\ last' = [op |-> "create", pid |-> new, by |-> p, nsd |-> nsd]

(* A process asks for a descriptor (allocNamespace), to create others in   *)
(* its namespace.                                                          *)
allocNamespace ==
  /\ nsFree # <<>>
  /\ nsFree' = Tail(nsFree)
  /\ last' = [op |-> "allocNamespace", ret |-> Head(nsFree)]
  /\ UNCHANGED <<pcbFree, sibs, p_parent, namespaces, nsList>>

(* The descriptors a process may pass: those which are not free.           *)
Given == Spaces \ Range(nsFree)

Next ==
  \/ \E p \in Pcbs, nsd \in Given \cup {NULL} : createProcess(p, nsd)
  \/ \E p \in Pcbs : terminateProcess(p)
  \/ allocNamespace

Spec == Init /\ [][Next]_vars

-----------------------------------------------------------------------------
(* GETCHILDREN and GETPROCESSID with a parent, as the caller p sees them.  *)
(* Bug before the second: the namespaces are not compared.                 *)
getChildren(p) ==
  Without(Children(p), {c \in Pcbs : namespaces[c] # namespaces[p]})

getProcessIDAnyway(p) == p_parent[p]

getProcessID(p) ==
  IF namespaces[p] = namespaces[p_parent[p]] THEN p_parent[p] ELSE NULL

-----------------------------------------------------------------------------

(* The pointers say what p_parent says: a process is in the ring of its    *)
(* parent, once, and in no other ring; the rings of living processes hold  *)
(* living processes.                                                       *)
TreeLinked ==
  /\ \A p \in Alive : NoRepeats(Children(p)) /\ Range(Children(p)) \subseteq Alive
  /\ \A p \in Alive, c \in Alive : c \in Range(Children(p)) <=> p_parent[c] = p
  /\ \A p \in Pcbs : sibs[p_sib(p)] # Unlinked(NULL) <=> p_parent[p] # NULL

(* Parent and child agree on whether they share a namespace: GETCHILDREN   *)
(* of the one lists the other just when GETPROCESSID of the other names    *)
(* the one.                                                                *)
SameView ==
  \A p \in Alive, c \in Alive :
    p_parent[c] = p => (c \in Range(getChildren(p)) <=> getProcessID(c) = p)

(* A process keeps its namespace: no later call moves it to another.       *)
KeepSpace ==
  [][\A p \in Alive : p \in Alive' => namespaces'[p] = namespaces[p]]_vars

(* A process created without a descriptor is in the PID space of the one   *)
(* which created it (pandos/phase2/p2test_04.c, p11).                      *)
SameSpace ==
  last.op = "create" => last.nsd # NULL \/ namespaces[last.pid] = namespaces[last.by]

(* The rings and the recursion implement the abstract tree.                *)
PF == INSTANCE ProcFamily
        WITH alive <- Alive, parent <- p_parent,
             children <- [p \in Pcbs |-> IF p \in Alive THEN Children(p) ELSE <<>>]
ImplementsFamily == PF!Spec
=============================================================================
