------------------------------ MODULE PcbLists ------------------------------
(***************************************************************************)
(* The queues of processes, pandos/phase1/pcb.c, down to the pointers.     *)
(*                                                                         *)
(* A pcb has one node, p_list, for all the lists it can be in: the free    *)
(* list, the ready queue, the queue of a semaphore.  The other modules see *)
(* these lists as sequences; this one shows that they may.  A process is   *)
(* inserted, freed and taken out without regard to where it is, so every   *)
(* function has to leave p_list in one of two states: linked in a ring, or *)
(* two null pointers.                                                      *)
(***************************************************************************)
EXTENDS ListHead, Queues

CONSTANTS Pcbs,     \* the process control blocks, and their p_list
          Heads,    \* the heads of the process queues
          pcbFree,  \* pcbFree_h
          NULL      \* the null pointer

ASSUME PcbListsAssumption ==
  /\ IsFiniteSet(Pcbs) /\ IsFiniteSet(Heads)
  /\ Pcbs \cap Heads = {} /\ pcbFree \notin Pcbs \cup Heads
  /\ NULL \notin Pcbs \cup Heads \cup {pcbFree}

Nodes == Pcbs \cup Heads \cup {pcbFree}

VARIABLES list,  \* the two pointers of every node
          last   \* the last call and what it returned

vars == <<list, last>>

Returned(op, ret) == last' = [op |-> op, ret |-> ret]

-----------------------------------------------------------------------------

(* A ring which holds the nodes of q behind its head.                      *)
Ring(m, head, q) ==
  LET N == Len(q)
      filled[i \in 0..N] ==
        IF i = 0 THEN INIT_LIST_HEAD(m, head)
                 ELSE list_add(filled[i - 1], q[i], head)
  IN  filled[N]

(* initPcbs, on memory which is all zeros.  The pcbs are added in the      *)
(* order of their table; which one that is does not matter.                *)
Init ==
  /\ \E table \in {t \in [1..Cardinality(Pcbs) -> Pcbs] : NoRepeats(t)} :
       list = Ring([n \in Nodes |-> Unlinked(NULL)], pcbFree, table)
  /\ last = [op |-> "initPcbs", ret |-> NULL]

Made(h) == list[h] # Unlinked(NULL)

(* Bug for the runs to find: a queue is made anew while it is in use.      *)
mkEmptyProcQAnew(h) ==
  /\ list' = INIT_LIST_HEAD(list, h)
  /\ UNCHANGED last

(* The kernel makes a queue before it uses it (initScheduler, and          *)
(* insertBlocked for the queue of a descriptor), and only when the queue   *)
(* is new or has been emptied.                                             *)
mkEmptyProcQ(h) ==
  /\ ~Made(h) \/ list_empty(list, h)
  /\ list' = IF list_empty(list, h) THEN list ELSE INIT_LIST_HEAD(list, h)
  /\ UNCHANGED last

allocPcb ==
  \/ /\ list_empty(list, pcbFree)
     /\ Returned("allocPcb", NULL)
     /\ UNCHANGED list
  \/ /\ ~list_empty(list, pcbFree)
     /\ LET first == list[pcbFree].next IN
        /\ Returned("allocPcb", first)
        \* list_safe_del, then resetPcb
        /\ list' = [list_safe_del(list, first, NULL) EXCEPT
                      ![first] = Unlinked(NULL)]

freePcb(p) ==
  /\ list' = list_add(list_safe_del(list, p, NULL), p, pcbFree)
  /\ Returned("freePcb", NULL)

(* Bug: p goes to the head of the queue.                                   *)
insertProcQFront(h, p) ==
  /\ Made(h)
  /\ list' = list_add(list_safe_del(list, p, NULL), p, h)
  /\ Returned("insertProcQ", NULL)

insertProcQ(h, p) ==
  /\ Made(h)
  /\ list' = list_add_tail(list_safe_del(list, p, NULL), p, h)
  /\ Returned("insertProcQ", NULL)

headProcQ(h) ==
  /\ Made(h)
  /\ Returned("headProcQ", IF list_empty(list, h) THEN NULL ELSE list[h].next)
  /\ UNCHANGED list

(* The pointers, and the result, of outProcQ on the memory m.              *)
OutOf(m, h, p) == IF list_contains(m, p, h) THEN list_safe_del(m, p, NULL) ELSE m

outProcQ(h, p) ==
  /\ Made(h)
  /\ list' = OutOf(list, h, p)
  /\ Returned("outProcQ", IF list_contains(list, p, h) THEN p ELSE NULL)

removeProcQ(h) ==
  /\ Made(h)
  /\ \/ /\ list_empty(list, h)
        /\ Returned("removeProcQ", NULL)
        /\ UNCHANGED list
     \/ /\ ~list_empty(list, h)
        /\ Returned("removeProcQ", list[h].next)
        /\ list' = OutOf(list, h, list[h].next)

Next ==
  \/ allocPcb
  \/ \E p \in Pcbs : freePcb(p)
  \/ \E h \in Heads : mkEmptyProcQ(h) \/ removeProcQ(h) \/ headProcQ(h)
  \/ \E h \in Heads, p \in Pcbs : insertProcQ(h, p) \/ outProcQ(h, p)

Spec == Init /\ [][Next]_vars

-----------------------------------------------------------------------------

(* Every node is linked from both sides, or from neither: the test of      *)
(* list_safe_del, which trusts two null pointers, tells which.             *)
LinksAgree ==
  \A n \in Nodes :
    \/ list[n] = Unlinked(NULL) /\ \A k \in Nodes : list[k].next # n /\ list[k].prev # n
    \/ /\ list[n].next \in Nodes /\ list[list[n].next].prev = n
       /\ list[n].prev \in Nodes /\ list[list[n].prev].next = n

(* A linked node is in the ring of exactly one head: no ring is cut off    *)
(* from its head, and none runs through two heads.                         *)
OneRing ==
  \A p \in Pcbs : list[p] # Unlinked(NULL) =>
    \E h \in {k \in Heads : Made(k)} \cup {pcbFree} :
      /\ p \in Range(Contents(list, h))
      /\ \A k \in {j \in Heads : Made(j)} \cup {pcbFree} :
           p \in Range(Contents(list, k)) => k = h

(* What a traversal of each list reads is a queue of ProcQueues; a queue   *)
(* which is not made yet counts as empty.                                  *)
PQ == INSTANCE ProcQueues
        WITH free <- Contents(list, pcbFree),
             queue <- [h \in Heads |-> IF Made(h) THEN Contents(list, h) ELSE <<>>]
ImplementsProcQueues == PQ!Spec
=============================================================================
