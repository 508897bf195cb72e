--------------------------- MODULE CpuTimeProofs ----------------------------
(***************************************************************************)
(* Proofs about the charging of processor time, for any processes and any  *)
(* bound on the clock.                                                     *)
(***************************************************************************)
EXTENDS CpuTime, TLAPS

TimeOK ==
  /\ CpuTimeAssumption
  /\ tod \in Nat /\ start_time \in Nat
  /\ current \in Pcbs \cup {NULL}
  /\ p_time \in [Pcbs -> Int]
  /\ used \in [Pcbs -> Int]
  /\ entered \in [Pcbs -> Int]
  /\ resumed \subseteq Pcbs

(* Since the last exception only the current process has had the           *)
(* processor, and for no longer than since it was scheduled; for just as   *)
(* long, unless it has gone on after an exception meanwhile.               *)
SliceInv ==
  /\ start_time <= tod
  /\ \A p \in Pcbs : p # current => used[p] = entered[p]
  /\ current \in Pcbs => used[current] - entered[current] <= tod - start_time
  /\ current \in Pcbs \ resumed =>
       used[current] - entered[current] = tod - start_time

IInv == TimeOK /\ SliceInv /\ NothingFree /\ ExactUnlessResumed

(* At boot nothing has been used, nor charged.                             *)
LEMMA InitInv == CpuTimeAssumption /\ Init => IInv
  BY DEF CpuTimeAssumption, Init, IInv, TimeOK, SliceInv, NothingFree, ExactUnlessResumed

(* Running only adds to what the current process has used.                 *)
LEMMA TickInv == IInv /\ Tick => IInv'
  <1> SUFFICES ASSUME IInv, Tick PROVE IInv'
    OBVIOUS
  <1> USE DEF CpuTimeAssumption, IInv, Tick
  <1>1. TimeOK'
    BY DEF TimeOK
  <1>2. SliceInv'
    BY DEF TimeOK, SliceInv
  <1>3. NothingFree' /\ ExactUnlessResumed'
    BY DEF NothingFree, ExactUnlessResumed
  <1> QED
    BY <1>1, <1>2, <1>3

(* The charge at an exception covers what has been used since the last.    *)
LEMMA Charged ==
  ASSUME IInv, charge, entered' = used
  PROVE  /\ p_time' \in [Pcbs -> Int]
         /\ NothingFree'
         /\ \A p \in Pcbs \ resumed : p_time'[p] = entered'[p]
  <1> USE DEF IInv, charge
  <1>1. p_time' \in [Pcbs -> Int]
    BY DEF TimeOK
  <1>2. ASSUME NEW p \in Pcbs PROVE p_time'[p] >= entered'[p]
    <2>1. CASE p = current
      BY <2>1 DEF TimeOK, SliceInv, NothingFree
    <2>2. CASE p # current
      BY <2>2 DEF TimeOK, SliceInv, NothingFree
    <2> QED
      BY <2>1, <2>2
  <1>3. ASSUME NEW p \in Pcbs \ resumed PROVE p_time'[p] = entered'[p]
    <2>1. CASE p = current
      BY <2>1 DEF TimeOK, SliceInv, ExactUnlessResumed
    <2>2. CASE p # current
      BY <2>2 DEF TimeOK, SliceInv, ExactUnlessResumed
    <2> QED
      BY <2>1, <2>2
  <1> QED
    BY <1>1, <1>2, <1>3 DEF NothingFree

(* An exception after which the process goes on.                           *)
LEMMA ResumedInv == IInv /\ Resumed => IInv'
  <1> SUFFICES ASSUME IInv, Resumed PROVE IInv'
    OBVIOUS
  <1>1. /\ p_time' \in [Pcbs -> Int]
        /\ NothingFree'
        /\ \A p \in Pcbs \ resumed : p_time'[p] = entered'[p]
    BY Charged DEF Resumed
  <1>2. TimeOK'
    BY <1>1 DEF CpuTimeAssumption, IInv, TimeOK, Resumed
  <1>3. SliceInv'
    BY DEF CpuTimeAssumption, IInv, TimeOK, SliceInv, Resumed
  <1>4. ExactUnlessResumed'
    BY <1>1 DEF ExactUnlessResumed, Resumed
  <1> QED
    BY <1>1, <1>2, <1>3, <1>4 DEF IInv

(* An exception which ends in the scheduler.                               *)
LEMMA RescheduledInv == IInv /\ Rescheduled => IInv'
  <1> SUFFICES ASSUME IInv, Rescheduled PROVE IInv'
    OBVIOUS
  <1>1. /\ p_time' \in [Pcbs -> Int]
        /\ NothingFree'
        /\ \A p \in Pcbs \ resumed : p_time'[p] = entered'[p]
    BY Charged DEF Rescheduled
  <1>2. TimeOK'
    BY <1>1 DEF CpuTimeAssumption, IInv, TimeOK, Rescheduled, schedule
  <1>3. SliceInv'
    BY DEF CpuTimeAssumption, IInv, TimeOK, SliceInv, Rescheduled, schedule
  <1>4. ExactUnlessResumed'
    BY <1>1 DEF ExactUnlessResumed, Rescheduled
  <1> QED
    BY <1>1, <1>2, <1>3, <1>4 DEF IInv

LEMMA StutterInv == IInv /\ UNCHANGED vars => IInv'
  BY DEF IInv, vars, TimeOK, SliceInv, NothingFree, ExactUnlessResumed

(* No time on the processor goes uncharged, and a process that only ever   *)
(* left the processor through the scheduler is charged exactly (the update *)
(* in exceptionHandler, start_time in schedule).                           *)
THEOREM ChargesCorrect ==
  ASSUME CpuTimeAssumption
  PROVE  Spec => [](NothingFree /\ ExactUnlessResumed)
  <1>1. IInv /\ [Next]_vars => IInv'
    BY TickInv, ResumedInv, RescheduledInv, StutterInv DEF Next
  <1>2. IInv => NothingFree /\ ExactUnlessResumed
    BY DEF IInv
  <1> QED
    BY InitInv, <1>1, <1>2, PTL DEF Spec
=============================================================================
