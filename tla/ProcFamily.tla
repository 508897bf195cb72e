----------------------------- MODULE ProcFamily -----------------------------
(***************************************************************************)
(* What the process tree promises (pandos/phase1/include/pcb.h and the     *)
(* notes on CREATEPROCESS and TERMPROCESS in pandos/phase2/syscall.c).     *)
(*                                                                         *)
(* A process is born as the youngest child of the one which created it; a  *)
(* process takes all its descendants with it when it dies, and nobody      *)
(* else.                                                                   *)
(***************************************************************************)
EXTENDS Queues

CONSTANTS Pcbs, NULL

VARIABLES alive,     \* the processes
          children,  \* the children of each, the eldest first
          parent     \* the parent of each, NULL for the root and the dead

vars == <<alive, children, parent>>

\* p and its descendants: the least set with p and the children of its members.
Progeny(p) ==
  {q \in Pcbs : \A S \in SUBSET Pcbs :
     (p \in S /\ \A c \in Pcbs : parent[c] \in S => c \in S) => q \in S}

Init ==
  /\ \E root \in Pcbs : alive = {root}
  /\ children = [p \in Pcbs |-> <<>>]
  /\ parent = [p \in Pcbs |-> NULL]

Create(p, new) ==
  /\ p \in alive /\ new \notin alive
  /\ alive' = alive \cup {new}
  /\ children' = [children EXCEPT ![p] = Append(@, new)]
  /\ parent' = [parent EXCEPT ![new] = p]

Terminate(p) ==
  LET dead == Progeny(p) IN
  /\ p \in alive
  /\ alive' = alive \ dead
  /\ children' = [q \in Pcbs |-> IF q \in dead THEN <<>>
                                 ELSE Without(children[q], {p})]
  /\ parent' = [q \in Pcbs |-> IF q \in dead THEN NULL ELSE parent[q]]

Next ==
  \/ \E p, new \in Pcbs : Create(p, new)
  \/ \E p \in Pcbs : Terminate(p)

Spec == Init /\ [][Next]_vars
=============================================================================
