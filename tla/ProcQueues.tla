----------------------------- MODULE ProcQueues -----------------------------
(***************************************************************************)
(* What the queues of processes promise (pandos/phase1/include/pcb.h):     *)
(* the free pcbs are a stack, every process queue is first in, first out,  *)
(* and a process is in at most one of them.  The calls move a process from *)
(* wherever it is, so none of them needs to know.                          *)
(***************************************************************************)
EXTENDS Queues

CONSTANTS Pcbs,   \* the process control blocks
          Heads,  \* the process queues
          NULL

VARIABLES free,   \* the free pcbs, the next to be allocated first
          queue,  \* the processes of every queue, the first to leave first
          last    \* the last call and what it returned

vars == <<free, queue, last>>

Returned(op, ret) == last' = [op |-> op, ret |-> ret]

Init ==
  /\ free \in {f \in [1..Cardinality(Pcbs) -> Pcbs] : NoRepeats(f)}
  /\ queue = [h \in Heads |-> <<>>]
  /\ last = [op |-> "initPcbs", ret |-> NULL]

\* p leaves the place it is at, if any.
Elsewhere(q, p) == Without(q, {p})

Alloc ==
  /\ UNCHANGED queue
  /\ \/ free = <<>> /\ Returned("allocPcb", NULL) /\ UNCHANGED free
     \/ /\ free # <<>>
        /\ Returned("allocPcb", Head(free))
        /\ free' = Tail(free)

Free(p) ==
  /\ free' = <<p>> \o Elsewhere(free, p)
  /\ queue' = [h \in Heads |-> Elsewhere(queue[h], p)]
  /\ Returned("freePcb", NULL)

Insert(h, p) ==
  /\ free' = Elsewhere(free, p)
  /\ queue' = [k \in Heads |-> IF k = h THEN Append(Elsewhere(queue[k], p), p)
                                        ELSE Elsewhere(queue[k], p)]
  /\ Returned("insertProcQ", NULL)

Remove(h) ==
  /\ UNCHANGED free
  /\ \/ /\ queue[h] = <<>>
        /\ Returned("removeProcQ", NULL)
        /\ UNCHANGED queue
     \/ /\ queue[h] # <<>>
        /\ Returned("removeProcQ", Head(queue[h]))
        /\ queue' = [queue EXCEPT ![h] = Tail(@)]

Out(h, p) ==
  /\ UNCHANGED free
  /\ queue' = [queue EXCEPT ![h] = Elsewhere(@, p)]
  /\ Returned("outProcQ", IF p \in Range(queue[h]) THEN p ELSE NULL)

Peek(h) ==
  /\ Returned("headProcQ", IF queue[h] = <<>> THEN NULL ELSE Head(queue[h]))
  /\ UNCHANGED <<free, queue>>

Next ==
  \/ Alloc
  \/ \E p \in Pcbs : Free(p)
  \/ \E h \in Heads : Remove(h) \/ Peek(h)
  \/ \E h \in Heads, p \in Pcbs : Insert(h, p) \/ Out(h, p)

Spec == Init /\ [][Next]_vars
=============================================================================
