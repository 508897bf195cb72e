------------------------------- MODULE Context ------------------------------
(***************************************************************************)
(* Which processor state a process goes on from.                           *)
(*                                                                         *)
(* On an exception the state of the processor is in the BIOS data page.    *)
(* It is either loaded again from there, or has to be copied to p_s before *)
(* the scheduler loads the p_s of another process.  From then on p_s is    *)
(* behind what the process executes.  The module adds to every operation   *)
(* of Nucleus what it copies, with memcpy or by assignment.                *)
(***************************************************************************)
EXTENDS Nucleus

VARIABLE stale  \* the processes which have gone on from what p_s holds

contextVars == <<vars, stale>>

(* p_s is written for the processes ps; the one which has the processor    *)
(* afterwards leaves its p_s behind; the pcb of a dead one is reset.       *)
Saved(ps) ==
  stale' = ((stale \ ps) \cup ({current'} \cap Pcbs)) \ pcbFree'

ContextInit == Init /\ stale = {current}

(* SYS 1: p_s of the new process is the state it was given.                *)
CreateSaves(p) == createProcess(p) /\ Saved({p})

(* SYS 3 and SYS 4: memcpy and schedule() if the call blocks, else LDST.   *)
SemSaves(s) ==
  \/ passeren(s) /\ Saved({p \in {current} : sem[s] = 0})
  \/ verhogen(s) /\ Saved({p \in {current} : sem[s] = 1})

(* SYS 5 and SYS 7: memcpy and schedule() always.                          *)
IOSaves == (\E r \in Regs : MayDoIO(r) /\ doIO(r)) /\ Saved({current})
ClockSaves == clockWait /\ Saved({current})

(* SYS 2 and the traps: nothing is copied, also when the caller lives on.  *)
KillSaves ==
  /\ \/ "self" \in KillScope /\ MayKill(current) /\ (TermSelf \/ passUpOrDie)
     \/ \E p \in Pcbs : InScope(p) /\ MayKill(p) /\ TermOther(p)
  /\ Saved({})

(* Bug for the runs to find: the end of a time slice does not copy.        *)
InterruptForgets(plt, it) == interruptHandler(plt, it) /\ Saved({})

(* The end of a time slice copies; the other interrupts load the state of  *)
(* a running process again from the BIOS data page.                        *)
InterruptSaves(plt, it) ==
  interruptHandler(plt, it) /\ Saved(IF plt THEN {current} ELSE {})

ContextNext ==
  \/ \E p \in Pcbs : CreateSaves(p)
  \/ \E s \in USems : SemSaves(s)
  \/ IOSaves
  \/ ClockSaves
  \/ KillSaves
  \/ \E plt, it \in BOOLEAN : InterruptSaves(plt, it)
  \/ \E r \in Regs : DeviceDone(r) /\ Saved({})

ContextSpec == ContextInit /\ [][ContextNext]_contextVars

(* Whoever may get the processor from the scheduler, now or when it is     *)
(* woken, goes on from where it stopped: on no path was it put in a queue  *)
(* without its state, whatever stopped it.  (The caller of a TERMPROCESS   *)
(* of another has no state in p_s, but is in no queue either.)             *)
GoesOn == (Range(ready) \cup Blocked) \cap stale = {}
=============================================================================
