----------------------------- MODULE SemQueues ------------------------------
(***************************************************************************)
(* What the table of blocked processes promises (pandos/phase1/ash.h).     *)
(*                                                                         *)
(* Callers of ash.c think of one queue of blocked processes per semaphore  *)
(* address, first in first out, in which a process waits at most once.     *)
(* They do not know about descriptors, buckets or the free list.  All that *)
(* shows of these is that no more than Limit semaphores can have a queue   *)
(* at the same time: only then, and only for a semaphore on which nobody   *)
(* waits, is a process turned away.  With a Limit of MAXPROC, the number   *)
(* of processes, this never happens.                                       *)
(***************************************************************************)
EXTENDS Queues

CONSTANTS Pcbs,  \* the process control blocks
          Keys,  \* the addresses used as semaphores
          Limit, \* how many of them can have a queue at the same time
          NULL   \* the null pointer

VARIABLES blocked,  \* the queue of every semaphore
          last      \* the last call and what it returned

vars == <<blocked, last>>

Returned(op, ret) == last' = [op |-> op, ret |-> ret]

\* The semaphores p waits on: none or one.
WaitsOn(p) == {a \in Keys : p \in Range(blocked[a])}

\* The semaphores on which somebody waits, and whether p may be next on a.
Served == {a \in Keys : blocked[a] # <<>>}
Room(a) == blocked[a] # <<>> \/ Cardinality(Served) < Limit

Init ==
  /\ blocked = [a \in Keys |-> <<>>]
  /\ last = [op |-> "initASH", ret |-> NULL]

\* Append p to the queue of a, unless it already waits somewhere or there is
\* no room for another queue.
Insert(a, p) ==
  \/ /\ a = NULL \/ p = NULL
     /\ Returned("insertBlocked", 1)
     /\ UNCHANGED blocked
  \/ /\ a # NULL /\ p # NULL /\ WaitsOn(p) # {}
     /\ Returned("insertBlocked", 2)
     /\ UNCHANGED blocked
  \/ /\ a # NULL /\ p # NULL /\ WaitsOn(p) = {} /\ ~Room(a)
     /\ Returned("insertBlocked", 3)
     /\ UNCHANGED blocked
  \/ /\ a # NULL /\ p # NULL /\ WaitsOn(p) = {} /\ Room(a)
     /\ blocked' = [blocked EXCEPT ![a] = Append(@, p)]
     /\ Returned("insertBlocked", 0)

\* Release the process which has waited longest on a.
Remove(a) ==
  \/ /\ a = NULL \/ (a # NULL /\ blocked[a] = <<>>)
     /\ Returned("removeBlocked", NULL)
     /\ UNCHANGED blocked
  \/ /\ a # NULL /\ blocked[a] # <<>>
     /\ blocked' = [blocked EXCEPT ![a] = Tail(@)]
     /\ Returned("removeBlocked", Head(blocked[a]))

\* Take p out of the queue it waits in, wherever in that queue it is.
Out(p) ==
  \/ /\ p = NULL \/ (p # NULL /\ WaitsOn(p) = {})
     /\ Returned("outBlocked", NULL)
     /\ UNCHANGED blocked
  \/ /\ p # NULL
     /\ \E a \in WaitsOn(p) :
          blocked' = [blocked EXCEPT ![a] = Without(@, {p})]
     /\ Returned("outBlocked", p)

\* Look at the process which would be released next.
Peek(a) ==
  /\ UNCHANGED blocked
  /\ Returned("headBlocked",
              IF a = NULL THEN NULL
              ELSE IF blocked[a] = <<>> THEN NULL ELSE Head(blocked[a]))

Next ==
  \/ \E a \in Keys \cup {NULL}, p \in Pcbs \cup {NULL} : Insert(a, p)
  \/ \E a \in Keys \cup {NULL} : Remove(a) \/ Peek(a)
  \/ \E p \in Pcbs \cup {NULL} : Out(p)

Spec == Init /\ [][Next]_vars
=============================================================================
