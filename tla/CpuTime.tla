------------------------------ MODULE CpuTime -------------------------------
(***************************************************************************)
(* The processor time of the processes: p_time, charged on every entry to  *)
(* exceptionHandler (pandos/phase2/exception.c), start_time, set by        *)
(* schedule (pandos/phase2/scheduler.c), and GETTIME, which reads p_time.  *)
(*                                                                         *)
(* The clock advances while a process runs, while the system waits, and    *)
(* by one unit while the kernel handles an exception.  What an exception   *)
(* does is left open, but for whether it ends in LDST of the interrupted   *)
(* process or in schedule: Nucleus says when which happens.                *)
(***************************************************************************)
EXTENDS Integers, FiniteSets

CONSTANTS Pcbs,
          NULL,
          MaxTime  \* bound on the clock, for model checking

(* What the proofs require of the constants.                               *)
CpuTimeAssumption == NULL \notin Pcbs /\ MaxTime \in Nat

VARIABLES tod,         \* the time of day clock (STCK)
          start_time,  \* when the current process was scheduled
          current,     \* current_active_process; NULL while the system waits
          p_time,      \* the time charged to each process
          used,        \* the time each process really had the processor
          entered,     \* used, at the last exception
          resumed      \* the processes that went on after an exception

vars == <<tod, start_time, current, p_time, used, entered, resumed>>

\* Every process is ready at first.
Init ==
  /\ tod = 0 /\ start_time = 0
  /\ current \in Pcbs
  /\ p_time = [p \in Pcbs |-> 0]
  /\ used = [p \in Pcbs |-> 0]
  /\ entered = used
  /\ resumed = {}

Tick ==
  /\ tod < MaxTime
  /\ tod' = tod + 1
  /\ used' = [p \in Pcbs |-> used[p] + IF p = current THEN 1 ELSE 0]
  /\ UNCHANGED <<start_time, current, p_time, entered, resumed>>

(* The update of the process time at the top of exceptionHandler.          *)
charge ==
  p_time' = [p \in Pcbs |-> p_time[p] + IF p = current THEN tod - start_time ELSE 0]

(* schedule(): some process gets the processor, or none, and the system    *)
(* waits with the old start_time.                                          *)
schedule ==
  \/ current' \in Pcbs /\ start_time' = tod'
  \/ current' = NULL /\ UNCHANGED start_time

(* An exception after which the interrupted process goes on: a system call *)
(* that does not block, or the interrupt of a device.                      *)
Resumed ==
  /\ current # NULL /\ tod < MaxTime
  /\ tod' = tod + 1
  /\ charge
  /\ entered' = used
  /\ resumed' = resumed \cup {current}
  /\ UNCHANGED <<start_time, current, used>>

Rescheduled ==
  /\ tod < MaxTime
  /\ tod' = tod + 1
  /\ charge
  /\ schedule
  /\ entered' = used
  /\ UNCHANGED <<used, resumed>>

Next == Tick \/ Resumed \/ Rescheduled

Spec == Init /\ [][Next]_vars

-----------------------------------------------------------------------------

(* No time on the processor goes uncharged: at an exception, p_time covers *)
(* all the time the process has had until then.                            *)
NothingFree == \A p \in Pcbs : p_time[p] >= entered[p]

(* A process all of whose exceptions ended in the scheduler is charged     *)
(* exactly the time it had: neither the time of others, nor that of the    *)
(* waiting system, however the processor went round meanwhile.             *)
ExactUnlessResumed == \A p \in Pcbs \ resumed : p_time[p] = entered[p]

(* GETTIME never says more than the real time that has gone by             *)
(* (pandos/phase2/p2test_04.c, p2: "more cpu time than real time").        *)
NotMoreThanReal == \A p \in Pcbs : p_time[p] <= tod
=============================================================================
