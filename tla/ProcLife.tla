------------------------------ MODULE ProcLife ------------------------------
(***************************************************************************)
(* What the nucleus promises about its processes, whatever the queues, the *)
(* semaphores, the counters and the devices look like inside.              *)
(*                                                                         *)
(* A process is unborn or dead ("free"), waits for the processor           *)
(* ("ready"), has it ("running") or waits for something else ("blocked").  *)
(* The processor is never left idle while a process is ready, and the      *)
(* machine is only halted when no process is left.                         *)
(***************************************************************************)
EXTENDS Integers, FiniteSets

CONSTANT Pcbs

VARIABLES life,    \* what every process is doing
          halted   \* the machine has been halted

vars == <<life, halted>>

In(stage) == {p \in Pcbs : life[p] = stage}

(* The moves of one process from one instant to the next.  Only a running  *)
(* process blocks; only a process which waited for the processor gets it,  *)
(* or one that became ready in the same step.                              *)
Moves == {<<"free", "ready">>, <<"ready", "running">>, <<"running", "ready">>,
          <<"running", "blocked">>, <<"blocked", "ready">>,
          <<"blocked", "running">>, <<"running", "free">>,
          <<"ready", "free">>, <<"blocked", "free">>}

Init ==
  /\ \E root \in Pcbs :
       life = [p \in Pcbs |-> IF p = root THEN "running" ELSE "free"]
  /\ halted = FALSE

WorkConserving ==
  In("running")' = {} => In("ready")' = {}

(* Something happens to some of the processes.  A process is born only     *)
(* while another one runs, which is its parent and keeps the processor,    *)
(* and nobody dies unless a running process asks for it.                   *)
Step ==
  /\ ~halted
  /\ life' \in [Pcbs -> {"free", "ready", "running", "blocked"}]
  /\ \A p \in Pcbs : life'[p] = life[p] \/ <<life[p], life'[p]>> \in Moves
  /\ Cardinality(In("running")') <= 1
  /\ WorkConserving
  /\ \A p \in Pcbs : life[p] = "free" /\ life'[p] = "ready" =>
       /\ In("running") # {} /\ In("running")' = In("running")
       /\ \A q \in Pcbs \ {p} : life'[q] = life[q]
  /\ \A p \in Pcbs : life[p] # "free" /\ life'[p] = "free" => In("running") # {}
  /\ halted' = (In("free")' = Pcbs)

Next == Step

Spec == Init /\ [][Next]_vars
=============================================================================
