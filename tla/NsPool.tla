------------------------------- MODULE NsPool -------------------------------
(***************************************************************************)
(* What the namespace descriptors promise (pandos/phase1/include/ns.h): a  *)
(* pool from which a call takes one descriptor at a time, which nobody     *)
(* else gets, and the list of those which processes live in.  A process    *)
(* may be terminated at any time; what it was given is not taken back.     *)
(***************************************************************************)
EXTENDS Queues

CONSTANTS Procs,   \* the processes which allocate
          Spaces,  \* PID_nsd
          NULL     \* the null pointer

VARIABLES free,  \* the descriptors which can be allocated
          used,  \* those which were given to a process, in that order
          got    \* per process: what its last call returned

vars == <<free, used, got>>

Init ==
  /\ free \in {f \in [1..Cardinality(Spaces) -> Spaces] : NoRepeats(f)}
  /\ used = <<>>
  /\ got = [p \in Procs |-> NULL]

\* Process p asks for a descriptor: the first one, or none if none is left.
Alloc(p) ==
  \/ /\ free = <<>>
     /\ got' = [got EXCEPT ![p] = NULL]
     /\ UNCHANGED <<free, used>>
  \/ /\ free # <<>>
     /\ got' = [got EXCEPT ![p] = Head(free)]
     /\ free' = Tail(free)
     /\ UNCHANGED used

\* A process is created in the namespace s.
Use(s) ==
  /\ s \notin Range(free)
  /\ used' = Append(Without(used, {s}), s)
  /\ UNCHANGED <<free, got>>

\* Process p no longer has what it was given: it dies, or asks for more.
Forget(p) ==
  /\ got' = [got EXCEPT ![p] = NULL]
  /\ UNCHANGED <<free, used>>

Next ==
  \/ \E p \in Procs : Alloc(p) \/ Forget(p)
  \/ \E s \in Spaces : Use(s)

Spec == Init /\ [][Next]_vars
=============================================================================
