--------------------------- MODULE NucleusProofs ----------------------------
(***************************************************************************)
(* Proofs about the nucleus, for any processes, semaphores and devices.    *)
(*                                                                         *)
(* The first part: whatever the programs do (NextAny), also when they      *)
(* terminate a pid that is nobody's, the state has its type, every process *)
(* is in one place, and the queues are first in, first out.                *)
(*                                                                         *)
(* The second part is about what becomes of the processes.  Whatever the   *)
(* programs do, the living processes form one tree and the counters the    *)
(* scheduler decides on count them; who waits on a semaphore of the        *)
(* programs waits for what its value denies; nobody is forgotten but on    *)
(* the paths known; and no process waits without its processor state.  For *)
(* programs which share the devices with care, nobody is forgotten at all, *)
(* and the verdict of the scheduler is right.                              *)
(*                                                                         *)
(* The last part is about the processor states (Context) and about the     *)
(* phase 2 test (P2Test): its programs are well formed, so that each of    *)
(* its steps is one of the nucleus.  What P2Test assumes of the constants  *)
(* is a hypothesis of the theorems there.                                  *)
(***************************************************************************)
EXTENDS Context, P2Test, ListProofs

NextAny == Next \/ TermUnknown

(* The places of the processes, for a ready queue q, semaphore queues B,   *)
(* free pcbs F and a current process c.                                    *)
Placed(q, B, F, c) ==
  /\ q \in Seq(Pcbs) /\ NoRepeats(q)
  /\ B \in [Sems -> Seq(Pcbs)]
  /\ \A s \in Sems : NoRepeats(B[s])
  /\ \A s, t \in Sems : Range(B[s]) \cap Range(B[t]) # {} => s = t
  /\ \A p \in Range(q) : p \notin F /\ p # c
  /\ \A s \in Sems : \A p \in Range(B[s]) : p \notin F /\ p # c /\ p \notin Range(q)
  /\ c \in Pcbs \cup {NULL} /\ c \notin F
  /\ F \subseteq Pcbs

PlaceInv ==
  /\ Placed(ready, blocked, pcbFree, current)
  /\ current = NULL <=> mode # "run"

IInv == TypeOK /\ PlaceInv

-----------------------------------------------------------------------------
(* Ranges and arithmetic.                                                  *)

LEMMA RangeType ==
  ASSUME NEW q \in Seq(Pcbs)
  PROVE  Range(q) \subseteq Pcbs
  <1>1. \A i \in DOMAIN q : q[i] \in Pcbs
    BY ElementOfSeq
  <1> QED
    BY <1>1 DEF Range

(* There are at least two unsigned numbers once there is a process.        *)
LEMMA Unsigned == UIntMod \in Nat \ {0} /\ (Pcbs # {} => UIntMod > 1)
  <1>1. Cardinality(Pcbs) \in Nat /\ (Pcbs # {} => Cardinality(Pcbs) # 0)
    BY NucleusAssumption, FS_CardinalityType, FS_EmptySet
  <1> QED
    BY <1>1, NucleusAssumption

(* What the counters hold is again an unsigned number.                     *)
LEMMA PlusMinusType ==
  ASSUME NEW n \in Int, NEW k \in Int
  PROVE  Plus(n, k) \in 0..(UIntMod - 1) /\ Minus(n, k) \in 0..(UIntMod - 1)
  <1>1. \A m \in Int : m % UIntMod \in 0..(UIntMod - 1)
    BY Unsigned
  <1>2. n + k \in Int /\ n - k \in Int
    OBVIOUS
  <1> QED
    BY <1>1, <1>2 DEF Plus, Minus

LEMMA CountersInt ==
  ASSUME IInv
  PROVE  /\ process_count \in 0..(UIntMod - 1) /\ process_count \in Int
         /\ soft_block_count \in 0..(UIntMod - 1) /\ soft_block_count \in Int
  <1>1. /\ process_count \in 0..(UIntMod - 1)
        /\ soft_block_count \in 0..(UIntMod - 1)
    BY DEF IInv, TypeOK
  <1> QED
    BY <1>1, Unsigned

(* A semaphore is binary: P on a 1 makes a 0, V on a 0 makes a 1.          *)
LEMMA Binary == Pcbs # {} => Minus(1, 1) = 0 /\ Plus(0, 1) = 1
  <1> SUFFICES ASSUME Pcbs # {} PROVE Minus(1, 1) = 0 /\ Plus(0, 1) = 1
    OBVIOUS
  <1>1. UIntMod \in Nat /\ UIntMod > 1
    BY Unsigned
  <1>2. 0 % UIntMod = 0 /\ 1 % UIntMod = 1
    BY <1>1
  <1> QED
    BY <1>2 DEF Plus, Minus

-----------------------------------------------------------------------------
(* What the operations on the queues do to the places.                     *)

(* enqueueReady of processes, wherever they are.                           *)
LEMMA EnqueueRange ==
  ASSUME NEW q \in Seq(Pcbs), NEW ps \in Seq(Pcbs)
  PROVE  /\ Enqueue(q, ps) \in Seq(Pcbs)
         /\ Range(Enqueue(q, ps)) = Range(q) \cup Range(ps)
         /\ NoRepeats(q) /\ NoRepeats(ps) => NoRepeats(Enqueue(q, ps))
  <1>1. /\ Without(q, Range(ps)) \in Seq(Pcbs)
        /\ Range(Without(q, Range(ps))) = Range(q) \ Range(ps)
        /\ NoRepeats(q) => NoRepeats(Without(q, Range(ps)))
    BY WithoutRange, WithoutNoRepeats
  <1> QED
    BY <1>1, ConcatFacts DEF Enqueue

(* A second enqueueReady of the process changes nothing: V and its caller  *)
(* both call it (interrupt.c:99 and 72), the model once.                   *)
LEMMA EnqueueTwice ==
  ASSUME NEW q \in Seq(Pcbs), NoRepeats(q), NEW p \in Pcbs
  PROVE  Enqueue(Enqueue(q, <<p>>), <<p>>) = Enqueue(q, <<p>>)
  <1> DEFINE w == Without(q, {p})
             e == Enqueue(q, <<p>>)
             v == Without(e, {p})
  <1>1. <<p>> \in Seq(Pcbs) /\ Range(<<p>>) = {p} /\ Len(<<p>>) = 1 /\ NoRepeats(<<p>>)
    BY DEF Range, NoRepeats
  <1>2. e = w \o <<p>> /\ Enqueue(e, <<p>>) = v \o <<p>>
    BY <1>1 DEF Enqueue
  <1>3. w \in Seq(Pcbs) /\ e \in Seq(Pcbs) /\ NoRepeats(e)
    BY <1>1, WithoutRange, EnqueueRange
  <1> HIDE DEF w, e
  <1>4. /\ Len(w) \in Nat /\ Len(e) = Len(w) + 1 /\ e[Len(e)] = p
        /\ \A i \in 1..Len(w) : e[i] = w[i]
    BY <1>1, <1>2, <1>3, ConcatProperties, LenProperties
  <1>5. /\ v \in Seq(Pcbs) /\ Len(v) = Len(e) - 1
        /\ \A i \in 1..Len(v) : v[i] = IF i < Len(e) THEN e[i] ELSE e[i + 1]
    <2>1. Len(e) \in 1..Len(e)
      BY <1>4
    <2> QED
      BY <1>3, <1>4, <2>1, WithoutOne
  <1> HIDE DEF v
  <1>6. v = w
    BY <1>3, <1>4, <1>5, SeqEqual
  <1> QED
    BY <1>2, <1>6 DEF e

(* enqueueReady of processes which are in no queue.                        *)
LEMMA PlacedEnqueue ==
  ASSUME NEW q, NEW B, NEW F, NEW c, Placed(q, B, F, c),
         NEW ps \in Seq(Pcbs), NoRepeats(ps),
         \A p \in Range(ps) : p \notin F /\ p # c,
         \A s \in Sems : Range(ps) \cap Range(B[s]) = {}
  PROVE  Placed(Enqueue(q, ps), B, F, c)
  <1> DEFINE w == Without(q, Range(ps))
  <1>1. q \in Seq(Pcbs) /\ NoRepeats(q)
    BY DEF Placed
  <1>2. w \in Seq(Pcbs) /\ Range(w) = Range(q) \ Range(ps) /\ NoRepeats(w)
    BY <1>1, WithoutRange, WithoutNoRepeats
  <1> HIDE DEF w
  <1>3. /\ w \o ps \in Seq(Pcbs)
        /\ Range(w \o ps) = Range(w) \cup Range(ps)
        /\ NoRepeats(w \o ps)
    BY <1>2, ConcatFacts
  <1>4. Enqueue(q, ps) = w \o ps
    BY DEF Enqueue, w
  <1> QED
    BY <1>2, <1>3, <1>4 DEF Placed

(* The current process steps aside, or dies.                               *)
LEMMA PlacedNoCurrent ==
  ASSUME NEW q, NEW B, NEW F, NEW c, Placed(q, B, F, c)
  PROVE  Placed(q, B, F, NULL)
  <1>1. Range(q) \subseteq Pcbs
    BY RangeType DEF Placed
  <1>2. \A s \in Sems : Range(B[s]) \subseteq Pcbs
    BY RangeType DEF Placed
  <1>3. NULL \notin Pcbs
    BY NucleusAssumption
  <1> QED
    BY <1>1, <1>2, <1>3 DEF Placed

(* Processes leave semaphore queues, in whatever way.                      *)
LEMMA PlacedShrink ==
  ASSUME NEW q, NEW B, NEW F, NEW c, Placed(q, B, F, c),
         NEW C \in [Sems -> Seq(Pcbs)],
         \A s \in Sems : NoRepeats(C[s]) /\ Range(C[s]) \subseteq Range(B[s])
  PROVE  Placed(q, C, F, c)
  BY DEF Placed

(* insertBlocked of the current process.                                   *)
LEMMA PlacedBlock ==
  ASSUME NEW q, NEW B, NEW F, NEW c \in Pcbs, Placed(q, B, F, c), NEW s \in Sems
  PROVE  Placed(q, [B EXCEPT ![s] = Append(@, c)], F, NULL)
  <1> DEFINE C == [B EXCEPT ![s] = Append(@, c)]
  <1>1. B \in [Sems -> Seq(Pcbs)] /\ B[s] \in Seq(Pcbs) /\ NoRepeats(B[s])
    BY DEF Placed
  <1>2. c \notin Range(B[s])
    BY DEF Placed
  <1>3. /\ C[s] \in Seq(Pcbs)
        /\ Range(C[s]) = Range(B[s]) \cup {c}
        /\ NoRepeats(C[s])
    BY <1>1, <1>2, AppendFacts
  <1>4. C \in [Sems -> Seq(Pcbs)] /\ \A t \in Sems : t # s => C[t] = B[t]
    BY <1>1, <1>3
  <1> HIDE DEF C
  <1>5. NULL \notin Pcbs
    BY NucleusAssumption
  <1>6. Placed(q, B, F, NULL)
    BY PlacedNoCurrent
  <1>7. \A t \in Sems : NoRepeats(C[t])
    BY <1>3, <1>4 DEF Placed
  <1>8. \A t, u \in Sems : Range(C[t]) \cap Range(C[u]) # {} => t = u
    <2>1. \A t \in Sems : t # s => Range(C[t]) \cap Range(C[s]) = {}
      BY <1>3, <1>4 DEF Placed
    <2> QED
      BY <2>1, <1>4 DEF Placed
  <1>9. \A t \in Sems : \A p \in Range(C[t]) :
          p \notin F /\ p # NULL /\ p \notin Range(q)
    BY <1>3, <1>4, <1>5, <1>6 DEF Placed
  <1>10. Placed(q, C, F, NULL)
    BY <1>4, <1>6, <1>7, <1>8, <1>9 DEF Placed
  <1> QED
    BY <1>10 DEF C

(* removeBlocked, and enqueueReady of the process it returns.              *)
LEMMA PlacedWake ==
  ASSUME NEW q, NEW B, NEW F, NEW c, Placed(q, B, F, c),
         NEW s \in Sems, B[s] # <<>>
  PROVE  /\ Head(B[s]) \in Pcbs
         /\ Placed(Enqueue(q, <<Head(B[s])>>), [B EXCEPT ![s] = Tail(@)], F, c)
  <1> DEFINE C == [B EXCEPT ![s] = Tail(@)]
             h == Head(B[s])
  <1>1. B \in [Sems -> Seq(Pcbs)] /\ B[s] \in Seq(Pcbs) /\ NoRepeats(B[s])
    BY DEF Placed
  <1>2. /\ h \in Range(B[s]) /\ C[s] \in Seq(Pcbs)
        /\ Range(C[s]) = Range(B[s]) \ {h} /\ NoRepeats(C[s])
    BY <1>1, TailFacts
  <1>3. h \in Pcbs
    BY <1>1, <1>2, RangeType
  <1>4. C \in [Sems -> Seq(Pcbs)] /\ \A t \in Sems : t # s => C[t] = B[t]
    BY <1>1, <1>2
  <1> HIDE DEF C, h
  <1>5. Placed(q, C, F, c)
    <2>1. \A t \in Sems : NoRepeats(C[t]) /\ Range(C[t]) \subseteq Range(B[t])
      BY <1>2, <1>4 DEF Placed
    <2> QED
      BY <2>1, <1>4, PlacedShrink
  <1>6. <<h>> \in Seq(Pcbs) /\ Range(<<h>>) = {h} /\ NoRepeats(<<h>>)
    BY <1>3, SingleFacts
  <1>7. \A t \in Sems : h \notin Range(C[t])
    BY <1>2, <1>4 DEF Placed
  <1>8. h \notin F /\ h # c
    BY <1>2 DEF Placed
  <1>9. Placed(Enqueue(q, <<h>>), C, F, c)
    BY <1>5, <1>6, <1>7, <1>8, PlacedEnqueue
  <1> QED
    BY <1>3, <1>9 DEF C, h

(* A termination takes its victims out of every queue.                     *)
LEMMA PlacedTerminate ==
  ASSUME NEW q, NEW B, NEW F, NEW c, Placed(q, B, F, c), NEW dead \in SUBSET Pcbs
  PROVE  Placed(Without(q, dead), [s \in Sems |-> Without(B[s], dead)],
                F \cup dead, NULL)
  <1> DEFINE w == Without(q, dead)
             C == [s \in Sems |-> Without(B[s], dead)]
  <1>1. Placed(q, B, F, NULL)
    BY PlacedNoCurrent
  <1>2. w \in Seq(Pcbs) /\ Range(w) = Range(q) \ dead /\ NoRepeats(w)
    BY <1>1, WithoutRange, WithoutNoRepeats DEF Placed
  <1>3. \A s \in Sems : /\ C[s] \in Seq(Pcbs) /\ NoRepeats(C[s])
                        /\ Range(C[s]) = Range(B[s]) \ dead
    <2> SUFFICES ASSUME NEW s \in Sems
                 PROVE  /\ C[s] \in Seq(Pcbs) /\ NoRepeats(C[s])
                        /\ Range(C[s]) = Range(B[s]) \ dead
      OBVIOUS
    <2>1. B[s] \in Seq(Pcbs) /\ NoRepeats(B[s])
      BY DEF Placed
    <2> QED
      BY <2>1, WithoutRange, WithoutNoRepeats
  <1>4. C \in [Sems -> Seq(Pcbs)]
    BY <1>3
  <1> HIDE DEF w, C
  <1>5. NULL \notin F \cup dead /\ F \cup dead \subseteq Pcbs
    BY NucleusAssumption DEF Placed
  <1>6. Placed(w, C, F \cup dead, NULL)
    BY <1>1, <1>2, <1>3, <1>4, <1>5 DEF Placed
  <1> QED
    BY <1>6 DEF w, C

-----------------------------------------------------------------------------
(* The two ways in which an exception ends.                                *)

LEMMA ScheduleInv ==
  ASSUME NEW q, NEW n, NEW k, schedule(q, n, k),
         Placed(q, blocked', pcbFree', NULL),
         n \in 0..(UIntMod - 1), k \in 0..(UIntMod - 1)
  PROVE  /\ PlaceInv'
         /\ ready' \in Seq(Pcbs) /\ current' \in Pcbs \cup {NULL} /\ mode' \in Modes
         /\ process_count' \in 0..(UIntMod - 1)
         /\ soft_block_count' \in 0..(UIntMod - 1)
  <1>1. q \in Seq(Pcbs) /\ NoRepeats(q) /\ NULL \notin Pcbs
    BY NucleusAssumption DEF Placed
  <1>2. CASE q # <<>> /\ current' = Head(q) /\ ready' = Tail(q) /\ mode' = "run"
    <2>1. /\ Head(q) \in Range(q) /\ Tail(q) \in Seq(Pcbs)
          /\ Range(Tail(q)) = Range(q) \ {Head(q)} /\ NoRepeats(Tail(q))
      BY <1>1, <1>2, TailFacts
    <2>2. Head(q) \in Pcbs
      BY <1>1, <2>1, RangeType
    <2>3. Placed(Tail(q), blocked', pcbFree', Head(q))
      BY <2>1, <2>2 DEF Placed
    <2> QED
      BY <1>1, <1>2, <2>1, <2>2, <2>3 DEF PlaceInv, schedule, Modes
  <1>3. CASE q = <<>> /\ current' = NULL /\ ready' = q
             /\ mode' \in {"halt", "wait", "panic"}
    BY <1>1, <1>3 DEF PlaceInv, schedule, Modes
  <1> QED
    BY <1>2, <1>3 DEF schedule

(* Before an exception the current process is one of the processes.        *)
LEMMA RunningCurrent ==
  ASSUME IInv, Running
  PROVE  /\ current \in Pcbs /\ Pcbs # {}
         /\ Placed(ready, blocked, pcbFree, current)
         /\ Placed(ready, blocked, pcbFree, NULL)
  <1>1. Placed(ready, blocked, pcbFree, current) /\ current # NULL
    BY DEF IInv, PlaceInv, Running
  <1>2. current \in Pcbs
    BY <1>1 DEF Placed
  <1>3. Placed(ready, blocked, pcbFree, NULL)
    BY <1>1, PlacedNoCurrent
  <1> QED
    BY <1>1, <1>2, <1>3

(* What the invariant says of the places.                                  *)
LEMMA Placement ==
  ASSUME IInv
  PROVE  /\ Placed(ready, blocked, pcbFree, current)
         /\ ready \in Seq(Pcbs) /\ NoRepeats(ready)
         /\ \A s \in Sems : blocked[s] \in Seq(Pcbs) /\ NoRepeats(blocked[s])
         /\ Blocked = {p \in Pcbs : \E s \in Sems : p \in Range(blocked[s])}
         /\ Blocked' = {p \in Pcbs : \E s \in Sems : p \in Range(blocked'[s])}
  BY DEF IInv, PlaceInv, Placed, Blocked, WaitsOn

(* The ready queue after the end of a time slice.                          *)
LEMMA QuantumQueue ==
  ASSUME IInv, current # NULL
  PROVE  /\ Enqueue(ready, <<current>>) \in Seq(Pcbs)
         /\ NoRepeats(Enqueue(ready, <<current>>))
         /\ Range(Enqueue(ready, <<current>>)) = Range(ready) \cup {current}
  <1>1. current \in Pcbs
    BY DEF IInv, TypeOK
  <1>2. <<current>> \in Seq(Pcbs) /\ Range(<<current>>) = {current} /\ NoRepeats(<<current>>)
    BY <1>1, SingleFacts
  <1> QED
    BY <1>2, Placement, EnqueueRange

-----------------------------------------------------------------------------
(* The actions.                                                            *)

LEMMA CreateInv ==
  ASSUME IInv, NEW new \in Pcbs, createProcess(new)
  PROVE  IInv'
  <1>1. /\ current \in Pcbs /\ new \in pcbFree
        /\ Placed(ready, blocked, pcbFree, current)
    BY RunningCurrent DEF createProcess
  <1>2. Placed(ready, blocked, pcbFree \ {new}, current)
    BY <1>1 DEF Placed
  <1>3. <<new>> \in Seq(Pcbs) /\ Range(<<new>>) = {new} /\ NoRepeats(<<new>>)
    BY SingleFacts
  <1>4. new # current /\ \A s \in Sems : new \notin Range(blocked[s])
    BY <1>1 DEF Placed
  <1>5. Placed(Enqueue(ready, <<new>>), blocked, pcbFree \ {new}, current)
    BY <1>2, <1>3, <1>4, PlacedEnqueue
  <1>6. PlaceInv'
    BY <1>5 DEF IInv, PlaceInv, createProcess
  <1>7. TypeOK'
    <2>1. ready' \in Seq(Pcbs)
      BY <1>6 DEF PlaceInv, Placed
    <2>2. process_count' \in 0..(UIntMod - 1)
      BY CountersInt, PlusMinusType DEF createProcess
    <2> QED
      BY <1>1, <2>1, <2>2 DEF IInv, TypeOK, createProcess
  <1> QED
    BY <1>6, <1>7 DEF IInv

(* What passeren, verhogen and P have in common: the current process       *)
(* blocks on s, in call c.                                                 *)
LEMMA BlockInv ==
  ASSUME IInv, Running, NEW s \in Sems, NEW c \in Calls, BlockCurrent(s, c),
         NEW k \in 0..(UIntMod - 1), schedule(ready, process_count, k),
         UNCHANGED <<procs, sem>>, device' \in [Regs -> {"ready", "busy", "done"}]
  PROVE  IInv'
  <1>1. Placed(ready, blocked', pcbFree', NULL)
    BY RunningCurrent, PlacedBlock DEF BlockCurrent, procs
  <1>2. PlaceInv' /\ ready' \in Seq(Pcbs) /\ current' \in Pcbs \cup {NULL}
        /\ mode' \in Modes /\ process_count' \in 0..(UIntMod - 1)
        /\ soft_block_count' \in 0..(UIntMod - 1)
    BY <1>1, ScheduleInv DEF IInv, TypeOK
  <1>3. blocked' \in [Sems -> Seq(Pcbs)]
    BY <1>1 DEF Placed
  <1>4. call' \in [Pcbs -> Calls]
    BY RunningCurrent DEF BlockCurrent, IInv, TypeOK
  <1> QED
    BY <1>2, <1>3, <1>4 DEF IInv, TypeOK, procs

(* A P or V which wakes the process that has waited longest.               *)
LEMMA WakeInv ==
  ASSUME IInv, Running, NEW s \in Sems, blocked[s] # <<>>, WakeHead(s),
         UNCHANGED <<procs, sem, device>>
  PROVE  IInv'
  <1>1. Head(blocked[s]) \in Pcbs /\ Placed(ready', blocked', pcbFree', current')
    BY RunningCurrent, PlacedWake DEF WakeHead, resume, procs
  <1>2. PlaceInv'
    BY <1>1 DEF IInv, PlaceInv, WakeHead, resume
  <1>3. call' \in [Pcbs -> Calls]
    BY DEF WakeHead, IInv, TypeOK, Calls
  <1> QED
    BY <1>1, <1>2, <1>3 DEF IInv, TypeOK, Placed, WakeHead, resume, procs

(* A P or V which only changes the value of the semaphore.                 *)
LEMMA ValueInv ==
  ASSUME IInv, sem' \in [Sems -> {0, 1}], resume(ready),
         UNCHANGED <<procs, device, blocked, call>>
  PROVE  IInv'
  BY DEF IInv, TypeOK, PlaceInv, resume, procs

LEMMA PasserenInv ==
  ASSUME IInv, NEW s \in USems, passeren(s)
  PROVE  IInv'
  <1>1. s \in Sems /\ Running /\ "passeren" \in Calls
    BY DEF Sems, passeren, Calls
  <1>2. CASE sem[s] = 0 /\ BlockCurrent(s, "passeren")
             /\ schedule(ready, process_count, soft_block_count) /\ UNCHANGED sem
    BY <1>1, <1>2, BlockInv DEF passeren, IInv, TypeOK
  <1>3. CASE blocked[s] # <<>> /\ WakeHead(s) /\ UNCHANGED sem
    BY <1>1, <1>3, WakeInv DEF passeren
  <1>4. CASE sem[s] # 0 /\ sem' = [sem EXCEPT ![s] = Minus(@, 1)] /\ resume(ready)
             /\ UNCHANGED <<blocked, call>>
    <2>1. sem[s] = 1 /\ Minus(1, 1) = 0
      BY <1>1, <1>4, RunningCurrent, Binary DEF IInv, TypeOK
    <2>2. sem' \in [Sems -> {0, 1}]
      BY <1>1, <1>4, <2>1 DEF IInv, TypeOK
    <2> QED
      BY <1>4, <2>2, ValueInv DEF passeren
  <1> QED
    BY <1>2, <1>3, <1>4 DEF passeren

LEMMA VerhogenInv ==
  ASSUME IInv, NEW s \in USems, verhogen(s)
  PROVE  IInv'
  <1>1. s \in Sems /\ Running /\ "verhogen" \in Calls
    BY DEF Sems, verhogen, Calls
  <1>2. CASE sem[s] = 1 /\ BlockCurrent(s, "verhogen")
             /\ schedule(ready, process_count, soft_block_count) /\ UNCHANGED sem
    BY <1>1, <1>2, BlockInv DEF verhogen, IInv, TypeOK
  <1>3. CASE blocked[s] # <<>> /\ WakeHead(s) /\ UNCHANGED sem
    BY <1>1, <1>3, WakeInv DEF verhogen
  <1>4. CASE sem[s] # 1 /\ sem' = [sem EXCEPT ![s] = Plus(@, 1)] /\ resume(ready)
             /\ UNCHANGED <<blocked, call>>
    <2>1. sem[s] = 0 /\ Plus(0, 1) = 1
      BY <1>1, <1>4, RunningCurrent, Binary DEF IInv, TypeOK
    <2>2. sem' \in [Sems -> {0, 1}]
      BY <1>1, <1>4, <2>1 DEF IInv, TypeOK
    <2> QED
      BY <1>4, <2>2, ValueInv DEF verhogen
  <1> QED
    BY <1>2, <1>3, <1>4 DEF verhogen

(* The scheduler is called with the current process in no queue.           *)
LEMMA ForgetInv ==
  ASSUME IInv, Running, NEW n \in 0..(UIntMod - 1), NEW k \in 0..(UIntMod - 1),
         schedule(ready, n, k), UNCHANGED <<procs, blocked, call>>,
         sem' \in [Sems -> {0, 1}], device' \in [Regs -> {"ready", "busy", "done"}]
  PROVE  IInv'
  <1>1. Placed(ready, blocked', pcbFree', NULL)
    BY RunningCurrent DEF procs
  <1>2. PlaceInv' /\ ready' \in Seq(Pcbs) /\ current' \in Pcbs \cup {NULL}
        /\ mode' \in Modes /\ process_count' \in 0..(UIntMod - 1)
        /\ soft_block_count' \in 0..(UIntMod - 1)
    BY <1>1, ScheduleInv
  <1> QED
    BY <1>2 DEF IInv, TypeOK, procs

LEMMA PInv ==
  ASSUME IInv, Running, NEW s \in Sems, NEW c \in Calls, PThenSchedule(s, c),
         UNCHANGED procs, device' \in [Regs -> {"ready", "busy", "done"}]
  PROVE  IInv'
  <1>1. /\ Plus(soft_block_count, 1) \in 0..(UIntMod - 1)
        /\ process_count \in 0..(UIntMod - 1) /\ soft_block_count \in 0..(UIntMod - 1)
    BY CountersInt, PlusMinusType
  <1>2. CASE BlockCurrent(s, c) /\ UNCHANGED sem
             /\ schedule(ready, process_count, Plus(soft_block_count, 1))
    BY <1>1, <1>2, BlockInv
  <1>3. CASE sem' = [sem EXCEPT ![s] = 0] /\ UNCHANGED <<blocked, call>>
             /\ schedule(ready, process_count, soft_block_count)
    <2>1. sem' \in [Sems -> {0, 1}]
      BY <1>3 DEF IInv, TypeOK
    <2> QED
      BY <1>1, <1>3, <2>1, ForgetInv
  <1> QED
    BY <1>2, <1>3 DEF PThenSchedule

LEMMA DoIOInv ==
  ASSUME IInv, NEW r \in Regs, doIO(r)
  PROVE  IInv'
  <1>1. Running /\ r \in Sems /\ "doIO" \in Calls /\ UNCHANGED procs
    BY DEF doIO, Sems, SoftSems, Calls
  <1>2. CASE device' = [device EXCEPT ![r] = "busy"] /\ PThenSchedule(r, "doIO")
    <2>1. device' \in [Regs -> {"ready", "busy", "done"}]
      BY <1>2 DEF IInv, TypeOK
    <2> QED
      BY <1>1, <1>2, <2>1, PInv
  <1>3. CASE schedule(ready, process_count, soft_block_count)
             /\ UNCHANGED <<device, blocked, sem, call>>
    BY <1>1, <1>3, ForgetInv DEF IInv, TypeOK
  <1> QED
    BY <1>2, <1>3 DEF doIO

LEMMA ClockWaitInv ==
  ASSUME IInv, clockWait
  PROVE  IInv'
  <1>1. Clock \in Sems /\ "clockWait" \in Calls
    BY DEF Sems, SoftSems, Calls
  <1> QED
    BY <1>1, PInv DEF clockWait, IInv, TypeOK

LEMMA TerminateInv ==
  ASSUME IInv, Running, NEW p \in Pcbs, terminateProcess(p)
  PROVE  IInv'
  <1> DEFINE dead == Progeny(p)
             n == Minus(process_count, Cardinality(dead))
             k == Minus(soft_block_count, Cardinality(dead \cap SoftBlocked))
  <1>1. dead \in SUBSET Pcbs
    BY DEF Progeny
  <1>2. Cardinality(dead) \in Int /\ Cardinality(dead \cap SoftBlocked) \in Int
    BY <1>1, NucleusAssumption, FS_Subset, FS_CardinalityType
  <1> HIDE DEF dead
  <1>3. n \in 0..(UIntMod - 1) /\ k \in 0..(UIntMod - 1)
    BY <1>2, CountersInt, PlusMinusType
  <1>4. /\ pcbFree' = pcbFree \cup dead
        /\ p_parent' = [q \in Pcbs |-> IF q \in dead THEN NULL ELSE p_parent[q]]
        /\ blocked' = [s \in Sems |-> Without(blocked[s], dead)]
        /\ call' = [q \in Pcbs |-> IF q \in dead THEN "none" ELSE call[q]]
        /\ schedule(Without(ready, dead), n, k)
        /\ UNCHANGED <<sem, device>>
    BY DEF terminateProcess, dead
  <1> HIDE DEF n, k
  <1>5. Placed(Without(ready, dead), blocked', pcbFree', NULL)
    BY <1>1, <1>4, RunningCurrent, PlacedTerminate
  <1>6. PlaceInv' /\ ready' \in Seq(Pcbs) /\ current' \in Pcbs \cup {NULL}
        /\ mode' \in Modes /\ process_count' \in 0..(UIntMod - 1)
        /\ soft_block_count' \in 0..(UIntMod - 1)
    BY <1>3, <1>4, <1>5, ScheduleInv
  <1>7. blocked' \in [Sems -> Seq(Pcbs)] /\ pcbFree' \subseteq Pcbs
    BY <1>5 DEF Placed
  <1>8. /\ p_parent' \in [Pcbs -> Pcbs \cup {NULL}]
        /\ call' \in [Pcbs -> Calls]
    BY <1>4 DEF IInv, TypeOK, Calls
  <1> QED
    BY <1>4, <1>6, <1>7, <1>8 DEF IInv, TypeOK

LEMMA TermUnknownInv ==
  ASSUME IInv, TermUnknown
  PROVE  IInv'
  <1>1. PICK k \in {0, 1} :
          schedule(ready, Minus(process_count, 1), Minus(soft_block_count, k))
    BY DEF TermUnknown
  <1>2. /\ Minus(process_count, 1) \in 0..(UIntMod - 1)
        /\ Minus(soft_block_count, k) \in 0..(UIntMod - 1)
    <2>1. 1 \in Int /\ k \in Int
      OBVIOUS
    <2> QED
      BY <2>1, CountersInt, PlusMinusType
  <1> QED
    BY <1>1, <1>2, ForgetInv DEF TermUnknown, IInv, TypeOK, procs

-----------------------------------------------------------------------------
(* Interrupts.                                                             *)

(* ps are the processes which head the queues of the semaphores of R, and  *)
(* all those which wait for the clock if Clock is in R.                    *)
Woken(ps, R) ==
  /\ ps \in Seq(Pcbs) /\ NoRepeats(ps)
  /\ \A p \in Range(ps) : \E r \in R :
       /\ p \in Range(blocked[r])
       /\ r = Clock \/ p = Head(blocked[r])
  /\ \A r \in R : r # Clock /\ blocked[r] # <<>> => Head(blocked[r]) \in Range(ps)
  /\ Clock \in R => Range(blocked[Clock]) \subseteq Range(ps)

LEMMA WokenConcat ==
  ASSUME IInv, NEW R \in SUBSET Sems, NEW S \in SUBSET Sems, R \cap S = {},
         NEW ps, NEW qs, Woken(ps, R), Woken(qs, S)
  PROVE  Woken(ps \o qs, R \cup S)
  <1>1. Range(ps) \cap Range(qs) = {}
    <2> SUFFICES ASSUME NEW p \in Range(ps), p \in Range(qs) PROVE FALSE
      OBVIOUS
    <2>1. PICK r \in R : p \in Range(blocked[r])
      BY DEF Woken
    <2>2. PICK t \in S : p \in Range(blocked[t])
      BY DEF Woken
    <2> QED
      BY <2>1, <2>2 DEF IInv, PlaceInv, Placed
  <1>2. /\ ps \o qs \in Seq(Pcbs) /\ NoRepeats(ps \o qs)
        /\ Range(ps \o qs) = Range(ps) \cup Range(qs)
    BY <1>1, ConcatFacts DEF Woken
  <1> QED
    BY <1>2 DEF Woken

LEMMA WokenWakes ==
  ASSUME IInv, NEW R \in SUBSET (Sems \ {Clock}), \A r, t \in R : r = t
  PROVE  Woken(Wakes(R), R)
  <1>1. CASE \E r \in R : blocked[r] # <<>>
    <2> DEFINE r == CHOOSE r \in R : blocked[r] # <<>>
    <2>1. r \in R /\ blocked[r] # <<>>
      BY <1>1
    <2>2. Wakes(R) = <<Head(blocked[r])>>
      BY <1>1 DEF Wakes
    <2> HIDE DEF r
    <2>3. blocked[r] \in Seq(Pcbs) /\ NoRepeats(blocked[r])
      BY <2>1 DEF IInv, PlaceInv, Placed
    <2>4. Head(blocked[r]) \in Range(blocked[r])
      BY <2>1, <2>3, TailFacts
    <2>5. Head(blocked[r]) \in Pcbs
      BY <2>3, <2>4, RangeType
    <2> QED
      BY <2>1, <2>2, <2>4, <2>5, SingleFacts DEF Woken
  <1>2. CASE ~ \E r \in R : blocked[r] # <<>>
    <2>1. Wakes(R) = <<>>
      BY <1>2 DEF Wakes
    <2>2. Wakes(R) \in Seq(Pcbs) /\ NoRepeats(Wakes(R)) /\ Range(Wakes(R)) = {}
      BY <2>1, SingleFacts DEF NoRepeats, Range
    <2> QED
      BY <1>2, <2>2 DEF Woken
  <1> QED
    BY <1>1, <1>2

(* The registers served at different lines, or in different halves of a    *)
(* terminal, are different.                                                *)
LEMMA ServedApart ==
  /\ \A n \in 3..7 : Served(n) \subseteq Sems \ {Clock}
  /\ \A h \in {0, 1} : ServedHalf(h) \subseteq Sems \ {Clock}
  /\ \A n, m \in 3..6 : n # m => Served(n) \cap Served(m) = {}
  /\ \A n \in 3..6, h \in {0, 1} : Served(n) \cap ServedHalf(h) = {}
  /\ ServedHalf(1) \cap ServedHalf(0) = {}
  /\ AllServed \subseteq Sems \ {Clock}
  <1>1. Pending \subseteq Sems \ {Clock} /\ Installed \subseteq Sems \ {Clock}
    BY NucleusAssumption DEF Pending, Sems, SoftSems
  <1>2. \A n : Served(n) \subseteq Sems \ {Clock} /\ \A r \in Served(n) : Line(r) = n
    BY <1>1 DEF Served
  <1>3. \A h : /\ ServedHalf(h) \subseteq Sems \ {Clock}
               /\ \A r \in ServedHalf(h) : Line(r) = 7 /\ r % 2 = h
    BY <1>1 DEF ServedHalf
  <1> QED
    BY <1>2, <1>3 DEF AllServed

(* One register is served at each line, and in each half of a terminal.    *)
LEMMA ServedOne ==
  /\ \A n \in 3..7 : \A r, t \in Served(n) : r = t
  /\ \A h \in {0, 1} : \A r, t \in ServedHalf(h) : r = t
  <1>1. Pending \subseteq 0..47 /\ Installed \subseteq 0..47
    BY NucleusAssumption DEF Pending
  <1>2. \A n \in 3..7 : \A r, t \in Served(n) : r = t
    BY <1>1 DEF Served
  <1>3. ASSUME NEW h \in {0, 1}, NEW r \in ServedHalf(h), NEW t \in ServedHalf(h)
        PROVE  r = t
    <2>1. /\ r \in 0..47 /\ t \in 0..47 /\ r % 2 = t % 2
          /\ Line(r) = 7 /\ Line(t) = 7
      BY <1>1 DEF ServedHalf
    <2>2. r >= 32 /\ t >= 32
      BY <2>1 DEF Line
    <2>3. Terminal(r) = Terminal(t)
      BY <1>2 DEF ServedHalf
    <2> QED
      BY <2>1, <2>2, <2>3 DEF Terminal
  <1> QED
    BY <1>2, <1>3

(* The processes which an interrupt wakes, in turn.                        *)
Awakened(it) ==
  (IF it THEN blocked[Clock] ELSE <<>>)
    \o Wakes(Served(3)) \o Wakes(Served(4)) \o Wakes(Served(5)) \o Wakes(Served(6))
    \o Wakes(ServedHalf(1)) \o Wakes(ServedHalf(0))

AwakenedAt(it) == (IF it THEN {Clock} ELSE {}) \cup AllServed

LEMMA AwakenedWoken ==
  ASSUME IInv, NEW it \in BOOLEAN
  PROVE  Woken(Awakened(it), AwakenedAt(it))
  <1> DEFINE ticked == IF it THEN blocked[Clock] ELSE <<>>
  <1>2. Placed(ready, blocked, pcbFree, current) /\ Clock \in Sems
    BY DEF IInv, PlaceInv, Sems, SoftSems
  <1>3. Woken(ticked, IF it THEN {Clock} ELSE {})
    <2>1. CASE it
      BY <1>2, <2>1 DEF Woken, Placed
    <2>2. CASE ~it
      BY <2>2, SingleFacts DEF Woken, NoRepeats, Range
    <2> QED
      BY <2>1, <2>2
  <1> QED
    <2> DEFINE R0 == IF it THEN {Clock} ELSE {}
               w3 == ticked \o Wakes(Served(3))
               w4 == w3 \o Wakes(Served(4))
               w5 == w4 \o Wakes(Served(5))
               w6 == w5 \o Wakes(Served(6))
               w7 == w6 \o Wakes(ServedHalf(1))
               R3 == R0 \cup Served(3)
               R4 == R3 \cup Served(4)
               R5 == R4 \cup Served(5)
               R6 == R5 \cup Served(6)
               R7 == R6 \cup ServedHalf(1)
    <2> HIDE DEF ticked
    <2>0. R0 \in SUBSET Sems /\ Woken(ticked, R0)
      BY <1>2, <1>3
    <2>1. R3 \in SUBSET Sems /\ Woken(w3, R3)
      BY <2>0, ServedApart, ServedOne, WokenWakes, WokenConcat
    <2>2. R4 \in SUBSET Sems /\ Woken(w4, R4)
      <3>1. R3 \cap Served(4) = {} /\ Served(4) \in SUBSET (Sems \ {Clock})
        BY ServedApart
      <3> HIDE DEF R3, w3
      <3> QED
        BY <2>1, <3>1, ServedOne, WokenWakes, WokenConcat
    <2>3. R5 \in SUBSET Sems /\ Woken(w5, R5)
      <3>1. R4 \cap Served(5) = {} /\ Served(5) \in SUBSET (Sems \ {Clock})
        BY ServedApart
      <3> HIDE DEF R4, w4
      <3> QED
        BY <2>2, <3>1, ServedOne, WokenWakes, WokenConcat
    <2>4. R6 \in SUBSET Sems /\ Woken(w6, R6)
      <3>1. R5 \cap Served(6) = {} /\ Served(6) \in SUBSET (Sems \ {Clock})
        BY ServedApart
      <3> HIDE DEF R5, w5
      <3> QED
        BY <2>3, <3>1, ServedOne, WokenWakes, WokenConcat
    <2>5. R7 \in SUBSET Sems /\ Woken(w7, R7)
      <3>1. R6 \cap ServedHalf(1) = {} /\ ServedHalf(1) \in SUBSET (Sems \ {Clock})
        BY ServedApart
      <3> HIDE DEF R6, w6
      <3> QED
        BY <2>4, <3>1, ServedOne, WokenWakes, WokenConcat
    <2>6. Woken(w7 \o Wakes(ServedHalf(0)), R7 \cup ServedHalf(0))
      <3>1. R7 \cap ServedHalf(0) = {} /\ ServedHalf(0) \in SUBSET (Sems \ {Clock})
        BY ServedApart
      <3> HIDE DEF R7, w7
      <3> QED
        BY <2>5, <3>1, ServedOne, WokenWakes, WokenConcat
    <2>7. R7 \cup ServedHalf(0) = AwakenedAt(it)
      BY DEF AllServed, AwakenedAt
    <2>8. Awakened(it) = w7 \o Wakes(ServedHalf(0))
      BY DEF Awakened, ticked
    <2> QED
      BY <2>6, <2>7, <2>8

(* The queues after an interrupt: those of the semaphores it serves have   *)
(* lost the processes it woke, and nobody else.                            *)
LeftBlocked(it) ==
  [s \in Sems |->
     IF s = Clock /\ it THEN <<>>
     ELSE IF s \in AllServed /\ blocked[s] # <<>>
          THEN Tail(blocked[s]) ELSE blocked[s]]

LEMMA LeftFacts ==
  ASSUME IInv, NEW it \in BOOLEAN
  PROVE  /\ LeftBlocked(it) \in [Sems -> Seq(Pcbs)]
         /\ \A s \in Sems :
              /\ NoRepeats(LeftBlocked(it)[s])
              /\ Range(LeftBlocked(it)[s]) = Range(blocked[s]) \ Range(Awakened(it))
              /\ s \notin AwakenedAt(it) => LeftBlocked(it)[s] = blocked[s]
  <1> DEFINE woken == Awakened(it)
             C == LeftBlocked(it)
             W == AwakenedAt(it)
  <1>2. /\ \A s \in Sems : blocked[s] \in Seq(Pcbs) /\ NoRepeats(blocked[s])
        /\ \A s, t \in Sems : Range(blocked[s]) \cap Range(blocked[t]) # {} => s = t
        /\ Clock \in Sems /\ W \subseteq Sems
    BY ServedApart DEF IInv, PlaceInv, Placed, Sems, SoftSems, AwakenedAt
  <1>4. Woken(woken, W)
    BY AwakenedWoken
  <1>0. \A s \in Sems : C[s] = IF s = Clock /\ it THEN <<>>
                              ELSE IF s \in AllServed /\ blocked[s] # <<>>
                                   THEN Tail(blocked[s]) ELSE blocked[s]
    BY DEF LeftBlocked
  <1>9. C = [s \in Sems |-> C[s]]
    BY DEF LeftBlocked
  <1>8. \A s \in Sems : s \in W <=> (s = Clock /\ it) \/ s \in AllServed
    BY DEF AwakenedAt
  <1> HIDE DEF woken, C, W
  <1>5. /\ C \in [Sems -> Seq(Pcbs)]
        /\ \A s \in Sems : NoRepeats(C[s]) /\ Range(C[s]) \subseteq Range(blocked[s])
        /\ \A s \in Sems : s \in W =>
             \A p \in Range(C[s]) : s # Clock /\ p # Head(blocked[s])
    <2> SUFFICES ASSUME NEW s \in Sems
                 PROVE  /\ C[s] \in Seq(Pcbs) /\ NoRepeats(C[s])
                        /\ Range(C[s]) \subseteq Range(blocked[s])
                        /\ s \in W => \A p \in Range(C[s]) :
                                        s # Clock /\ p # Head(blocked[s])
      BY <1>9
    <2>1. blocked[s] \in Seq(Pcbs) /\ NoRepeats(blocked[s])
      BY <1>2
    <2>2. CASE s = Clock /\ it
      <3>1. C[s] = <<>>
        BY <1>0, <2>2
      <3>2. C[s] \in Seq(Pcbs) /\ NoRepeats(C[s]) /\ Range(C[s]) = {}
        BY <3>1, SingleFacts DEF NoRepeats, Range
      <3> QED
        BY <3>2
    <2>3. CASE ~(s = Clock /\ it) /\ s \in AllServed /\ blocked[s] # <<>>
      <3>1. C[s] = Tail(blocked[s])
        BY <1>0, <2>3
      <3>2. /\ Tail(blocked[s]) \in Seq(Pcbs) /\ NoRepeats(Tail(blocked[s]))
            /\ Range(Tail(blocked[s])) = Range(blocked[s]) \ {Head(blocked[s])}
        BY <2>1, <2>3, TailFacts
      <3>3. s # Clock
        BY <2>3, ServedApart
      <3> QED
        BY <3>1, <3>2, <3>3
    <2>4. CASE ~(s = Clock /\ it) /\ ~(s \in AllServed /\ blocked[s] # <<>>)
      <3>1. C[s] = blocked[s]
        BY <1>0, <2>4
      <3>2. CASE s \in W
        <4>1. s \in AllServed /\ blocked[s] = <<>>
          BY <1>8, <2>4, <3>2
        <4> QED
          BY <3>1, <4>1, <2>1, SingleFacts DEF Range
      <3> QED
        BY <3>1, <3>2, <2>1
    <2> QED
      BY <2>2, <2>3, <2>4
  <1>6. \A s \in Sems : Range(woken) \cap Range(C[s]) = {}
    <2> SUFFICES ASSUME NEW s \in Sems, NEW p \in Range(woken), p \in Range(C[s])
                 PROVE  FALSE
      OBVIOUS
    <2>1. PICK r \in W : p \in Range(blocked[r]) /\ (r = Clock \/ p = Head(blocked[r]))
      BY <1>4 DEF Woken
    <2>2. p \in Range(blocked[s]) /\ r \in Sems
      BY <1>2, <1>5
    <2>3. r = s
      BY <1>2, <2>1, <2>2
    <2> QED
      BY <1>5, <2>1, <2>3
  <1>7. \A s \in Sems : Range(blocked[s]) \ Range(woken) \subseteq Range(C[s])
    <2> SUFFICES ASSUME NEW s \in Sems
                 PROVE  Range(blocked[s]) \ Range(woken) \subseteq Range(C[s])
      OBVIOUS
    <2>1. CASE s = Clock /\ it
      BY <1>4, <1>8, <2>1 DEF Woken
    <2>2. CASE s # Clock /\ s \in AllServed /\ blocked[s] # <<>>
      <3>1. C[s] = Tail(blocked[s]) /\ Head(blocked[s]) \in Range(woken)
        BY <1>0, <1>4, <1>8, <2>2 DEF Woken
      <3>2. Range(Tail(blocked[s])) = Range(blocked[s]) \ {Head(blocked[s])}
        BY <1>2, <2>2, TailFacts
      <3> QED
        BY <3>1, <3>2
    <2>3. CASE ~(s = Clock /\ it) /\ ~(s \in AllServed /\ blocked[s] # <<>>)
      BY <1>0, <2>3
    <2> QED
      BY <2>1, <2>2, <2>3, ServedApart
  <1>10. \A s \in Sems : s \notin W => C[s] = blocked[s]
    BY <1>0, <1>8
  <1> QED
    BY <1>5, <1>6, <1>7, <1>10 DEF woken, C, W

LEMMA InterruptInv ==
  ASSUME IInv, NEW plt \in BOOLEAN, NEW it \in BOOLEAN, interruptHandler(plt, it)
  PROVE  IInv'
  <1> DEFINE woken == Awakened(it)
             q0 == IF plt THEN Enqueue(ready, <<current>>) ELSE ready
             queue == Enqueue(q0, woken)
             soft == Minus(soft_block_count, Len(woken))
             c0 == IF plt THEN NULL ELSE current
             C == LeftBlocked(it)
             W == AwakenedAt(it)
  <1>1. /\ mode = "run" \/ (mode = "wait" /\ ~plt)
        /\ blocked' = C
        /\ \/ /\ plt \/ current = NULL
              /\ schedule(queue, process_count, soft)
           \/ /\ ~plt /\ current # NULL
              /\ ready' = queue
              /\ soft_block_count' = soft
              /\ UNCHANGED <<current, mode, process_count>>
        /\ UNCHANGED procs
    BY DEF interruptHandler, Awakened, LeftBlocked
  <1>2. TypeOK /\ PlaceInv /\ Placed(ready, blocked, pcbFree, current)
        /\ Clock \in Sems
    BY DEF IInv, PlaceInv, Sems, SoftSems
  <1>4. Woken(woken, W)
    BY AwakenedWoken
  <1> HIDE DEF woken
  <1>5. /\ C \in [Sems -> Seq(Pcbs)]
        /\ \A s \in Sems : NoRepeats(C[s]) /\ Range(C[s]) \subseteq Range(blocked[s])
    BY LeftFacts
  <1>6. \A s \in Sems : Range(woken) \cap Range(C[s]) = {}
    BY LeftFacts DEF woken
  <1>7. \A p \in Range(woken) : p \notin pcbFree /\ p # current /\ p # NULL
    <2> SUFFICES ASSUME NEW p \in Range(woken)
                 PROVE  p \notin pcbFree /\ p # current /\ p # NULL
      OBVIOUS
    <2>1. PICK r \in W : p \in Range(blocked[r])
      BY <1>4 DEF Woken
    <2>2. r \in Sems
      BY <1>2, ServedApart DEF AwakenedAt
    <2>3. p \in Pcbs
      BY <2>1, <2>2, <1>2, RangeType DEF Placed
    <2> QED
      BY <1>2, <2>1, <2>2, <2>3, NucleusAssumption DEF Placed
  <1>8. Placed(q0, blocked, pcbFree, c0)
    <2>1. CASE plt
      <3>1. current \in Pcbs
        BY <1>1, <1>2, <2>1 DEF PlaceInv, TypeOK
      <3>2. <<current>> \in Seq(Pcbs) /\ Range(<<current>>) = {current}
            /\ NoRepeats(<<current>>)
        BY <3>1, SingleFacts
      <3>3. /\ current \notin pcbFree /\ current # NULL
            /\ \A s \in Sems : current \notin Range(blocked[s])
        BY <1>2, <3>1, NucleusAssumption DEF Placed
      <3>4. Placed(ready, blocked, pcbFree, NULL)
        BY <1>2, PlacedNoCurrent
      <3> QED
        BY <2>1, <3>2, <3>3, <3>4, PlacedEnqueue
    <2>2. CASE ~plt
      BY <1>2, <2>2
    <2> QED
      BY <2>1, <2>2
  <1>9. Placed(q0, C, pcbFree, c0)
    BY <1>5, <1>8, PlacedShrink
  <1> HIDE DEF C, q0
  <1>10. Placed(queue, C, pcbFree, c0)
    BY <1>4, <1>6, <1>7, <1>9, PlacedEnqueue DEF Woken
  <1>11. Len(woken) \in Nat
    BY <1>4, LenProperties DEF Woken
  <1>12. soft \in 0..(UIntMod - 1) /\ process_count \in 0..(UIntMod - 1)
    BY <1>11, CountersInt, PlusMinusType
  <1> HIDE DEF queue, soft
  <1>13. PlaceInv' /\ ready' \in Seq(Pcbs) /\ current' \in Pcbs \cup {NULL}
         /\ mode' \in Modes /\ process_count' \in 0..(UIntMod - 1)
         /\ soft_block_count' \in 0..(UIntMod - 1)
    <2>1. CASE (plt \/ current = NULL) /\ schedule(queue, process_count, soft)
      <3>1. c0 = NULL
        BY <2>1
      <3>2. Placed(queue, blocked', pcbFree', NULL)
        BY <1>1, <1>10, <3>1 DEF procs
      <3> QED
        BY <2>1, <3>2, <1>12, ScheduleInv
    <2>2. CASE /\ ~plt /\ current # NULL /\ ready' = queue
               /\ soft_block_count' = soft
               /\ UNCHANGED <<current, mode, process_count>>
      <3>1. Placed(ready', blocked', pcbFree', current')
        BY <1>1, <1>10, <2>2 DEF procs
      <3> QED
        BY <1>2, <1>12, <2>2, <3>1 DEF PlaceInv, Placed, TypeOK
    <2> QED
      BY <1>1, <2>1, <2>2
  <1>14. blocked' \in [Sems -> Seq(Pcbs)]
    BY <1>1, <1>10 DEF Placed
  <1>15. /\ sem' \in [Sems -> {0, 1}]
         /\ device' \in [Regs -> {"ready", "busy", "done"}]
    BY <1>2 DEF interruptHandler, TypeOK
  <1>16. call' \in [Pcbs -> Calls]
    <2>1. call' = [p \in Pcbs |-> IF p \in Range(woken) THEN "none" ELSE call[p]]
      BY DEF interruptHandler, woken, Awakened
    <2> QED
      BY <1>2, <2>1 DEF TypeOK, Calls
  <1> QED
    BY <1>1, <1>2, <1>13, <1>14, <1>15, <1>16 DEF IInv, TypeOK, procs

-----------------------------------------------------------------------------

LEMMA InitInv == Init => IInv
  <1> SUFFICES ASSUME Init PROVE IInv
    OBVIOUS
  <1>1. PICK root \in Pcbs : pcbFree = Pcbs \ {root} /\ current = root
    BY DEF Init, Boot
  <1>2. <<>> \in Seq(Pcbs) /\ Range(<<>>) = {} /\ NoRepeats(<<>>)
    BY <1>1, SingleFacts
  <1>3. UIntMod \in Nat /\ UIntMod > 1
    BY <1>1, Unsigned
  <1>4. TypeOK
    BY <1>1, <1>2, <1>3 DEF Init, Boot, TypeOK, Modes, Calls
  <1>5. PlaceInv
    BY <1>1, <1>2, NucleusAssumption DEF Init, Boot, PlaceInv, Placed
  <1> QED
    BY <1>4, <1>5 DEF IInv

LEMMA NextInv == IInv /\ [NextAny]_vars => IInv'
  <1> SUFFICES ASSUME IInv, [NextAny]_vars PROVE IInv'
    OBVIOUS
  <1>1. CASE \E p \in Pcbs : createProcess(p)
    BY <1>1, CreateInv
  <1>2. CASE \E s \in USems : passeren(s) \/ verhogen(s)
    BY <1>2, PasserenInv, VerhogenInv
  <1>3. CASE \E r \in Regs : doIO(r)
    BY <1>3, DoIOInv
  <1>4. CASE clockWait
    BY <1>4, ClockWaitInv
  <1>5. CASE TermSelf \/ passUpOrDie
    BY <1>5, RunningCurrent, TerminateInv DEF TermSelf, passUpOrDie
  <1>6. CASE \E p \in Pcbs : TermOther(p)
    BY <1>6, TerminateInv DEF TermOther
  <1>7. CASE TermUnknown
    BY <1>7, TermUnknownInv
  <1>8. CASE Interrupt
    BY <1>8, InterruptInv DEF Interrupt
  <1>9. CASE \E r \in Regs : DeviceDone(r)
    <2>1. PICK r \in Regs : DeviceDone(r)
      BY <1>9
    <2>2. device' \in [Regs -> {"ready", "busy", "done"}]
      BY <2>1 DEF DeviceDone, IInv, TypeOK
    <2> QED
      BY <2>1, <2>2 DEF DeviceDone, procs, IInv, TypeOK, PlaceInv
  <1>10. CASE UNCHANGED vars
    BY <1>10 DEF vars, procs, IInv, TypeOK, PlaceInv
  <1> QED
    BY <1>1, <1>2, <1>3, <1>4, <1>5, <1>6, <1>7, <1>8, <1>9, <1>10
       DEF NextAny, Next, Syscall

LEMMA InvariantAny == Init /\ [][NextAny]_vars => []IInv
  BY InitInv, NextInv, PTL

(* The running process and those in the ready queue and in the queues of   *)
(* the semaphores are in one place each.                                   *)
LEMMA PlacedOne == IInv => OnePlace
  <1> SUFFICES ASSUME IInv PROVE OnePlace
    OBVIOUS
  <1>1. Placed(ready, blocked, pcbFree, current)
    BY DEF IInv, PlaceInv
  <1>2. \A p \in Pcbs : Cardinality(WaitsOn(p)) <= 1
    <2> SUFFICES ASSUME NEW p \in Pcbs PROVE Cardinality(WaitsOn(p)) <= 1
      OBVIOUS
    <2>1. \A s, t \in WaitsOn(p) : s = t
      BY <1>1 DEF WaitsOn, Placed
    <2>2. CASE WaitsOn(p) = {}
      BY <2>2, FS_EmptySet
    <2>3. CASE WaitsOn(p) # {}
      <3>1. PICK s : WaitsOn(p) = {s}
        BY <2>1, <2>3
      <3> QED
        BY <3>1, FS_Singleton
    <2> QED
      BY <2>2, <2>3
  <1>3. Range(ready) \subseteq Pcbs
    BY <1>1, RangeType DEF Placed
  <1>4. \A p \in Range(ready) : p \in Live /\ p # current /\ p \notin Blocked
    BY <1>1, <1>3 DEF Placed, Live, Blocked, WaitsOn
  <1>5. \A p \in Blocked : p \in Live /\ p # current
    BY <1>1 DEF Placed, Live, Blocked, WaitsOn
  <1> QED
    BY <1>1, <1>2, <1>4, <1>5 DEF OnePlace, Placed, Live, IInv, PlaceInv

(* The state of the nucleus has its type, whatever the programs do.        *)
THEOREM NucleusTypeCorrect == Spec => []TypeOK
  <1>1. [Next]_vars => [NextAny]_vars
    BY DEF NextAny
  <1>2. IInv => TypeOK
    BY DEF IInv
  <1> QED
    BY InvariantAny, <1>1, <1>2, PTL DEF Spec

(* p_list links every process into one list at a time, whatever the        *)
(* programs do and however interrupts, wake-ups and terminations fall      *)
(* together.                                                               *)
THEOREM OnePlaceAlways == Spec => []OnePlace
  <1>1. [Next]_vars => [NextAny]_vars
    BY DEF NextAny
  <1> QED
    BY InvariantAny, PlacedOne, <1>1, PTL DEF Spec

(* That holds even for programs which terminate pids that are nobody's,    *)
(* after which the counters are wrong.                                     *)
THEOREM OnePlaceUnknown == SpecUnknown => []OnePlace
  BY InvariantAny, PlacedOne, PTL DEF SpecUnknown, NextAny

-----------------------------------------------------------------------------
(* Turns.  An operation on a queue q leaves w: of those in q the dead may  *)
(* be gone, those which stay keep their order, newcomers are behind them.  *)

Grown(q, w, D) ==
  /\ q \in Seq(Pcbs) /\ w \in Seq(Pcbs) /\ NoRepeats(q) /\ NoRepeats(w)
  /\ Range(q) \ Range(w) \subseteq D
  /\ \A a, b \in Range(q) \cap Range(w) : Before(q, a, b) => Before(w, a, b)
  /\ \A a \in Range(q) \cap Range(w), b \in Range(w) \ Range(q) : Before(w, a, b)

LEMMA GrownSame ==
  ASSUME NEW q \in Seq(Pcbs), NoRepeats(q), NEW D
  PROVE  Grown(q, q, D)
  BY DEF Grown

(* The dead, or nobody, are taken out.                                     *)
LEMMA GrownWithout ==
  ASSUME NEW q, NEW w, NEW D, Grown(q, w, D), NEW S, S \cap Range(w) \subseteq D
  PROVE  Grown(q, Without(w, S), D)
  <1> DEFINE v == Without(w, S)
  <1>1. /\ v \in Seq(Pcbs) /\ Range(v) = Range(w) \ S /\ NoRepeats(v)
    BY WithoutRange, WithoutNoRepeats DEF Grown
  <1>2. \A a, b \in Range(v) : Before(w, a, b) => Before(v, a, b)
    BY <1>1, BeforeWithout DEF Grown
  <1> HIDE DEF v
  <1>3. Range(q) \ Range(v) \subseteq D
    BY <1>1 DEF Grown
  <1>4. \A a, b \in Range(q) \cap Range(v) : Before(q, a, b) => Before(v, a, b)
    BY <1>1, <1>2 DEF Grown
  <1>5. \A a \in Range(q) \cap Range(v), b \in Range(v) \ Range(q) : Before(v, a, b)
    BY <1>1, <1>2 DEF Grown
  <1> QED
    BY <1>1, <1>3, <1>4, <1>5 DEF Grown, v

(* Others join.                                                            *)
LEMMA GrownConcat ==
  ASSUME NEW q, NEW w, NEW D, Grown(q, w, D),
         NEW ps \in Seq(Pcbs), NoRepeats(ps),
         Range(ps) \cap Range(q) = {}, Range(ps) \cap Range(w) = {}
  PROVE  Grown(q, w \o ps, D)
  <1> DEFINE v == w \o ps
  <1>1. v \in Seq(Pcbs) /\ Range(v) = Range(w) \cup Range(ps) /\ NoRepeats(v)
    BY ConcatFacts DEF Grown
  <1>2. \A a, b : /\ Before(w, a, b) => Before(v, a, b)
                  /\ a \in Range(w) /\ b \in Range(ps) => Before(v, a, b)
    BY BeforeConcat DEF Grown
  <1> HIDE DEF v
  <1>3. Range(q) \ Range(v) \subseteq D
    BY <1>1 DEF Grown
  <1>4. \A a, b \in Range(q) \cap Range(v) : Before(q, a, b) => Before(v, a, b)
    BY <1>1, <1>2 DEF Grown
  <1>5. \A a \in Range(q) \cap Range(v), b \in Range(v) \ Range(q) : Before(v, a, b)
    BY <1>1, <1>2 DEF Grown
  <1> QED
    BY <1>1, <1>3, <1>4, <1>5 DEF Grown, v

LEMMA GrownEnqueue ==
  ASSUME NEW q, NEW w, NEW D, Grown(q, w, D),
         NEW ps \in Seq(Pcbs), NoRepeats(ps),
         Range(ps) \cap Range(q) = {}, Range(ps) \cap Range(w) = {}
  PROVE  Grown(q, Enqueue(w, ps), D)
  <1>1. Grown(q, Without(w, Range(ps)), D)
    BY GrownWithout
  <1>2. Range(Without(w, Range(ps))) = Range(w) \ Range(ps)
    BY WithoutRange DEF Grown
  <1> QED
    BY <1>1, <1>2, GrownConcat DEF Enqueue

(* Such an operation, and one which then takes the head, keep the turns.   *)
LEMMA GrownInTurn ==
  ASSUME NEW q, NEW w, NEW D, Grown(q, w, D)
  PROVE  /\ InTurn(q, w, D)
         /\ w # <<>> => InTurn(q, Tail(w), D)
         /\ w # <<>> /\ Head(w) \notin Range(q) => Range(q) \cap Range(Tail(w)) = {}
  <1>1. \A a, b : Before(w, b, a) => a \in Range(w) /\ b \in Range(w) /\ ~Before(w, a, b)
    BY BeforeOneWay DEF Grown
  <1>2. InTurn(q, w, D)
    <2>1. ASSUME NEW a \in Range(q), NEW b \in Range(q), Before(q, a, b), Before(w, b, a)
          PROVE  FALSE
      BY <1>1, <2>1 DEF Grown
    <2> QED
      BY <2>1 DEF InTurn, Grown
  <1>3. ASSUME w # <<>>
        PROVE  /\ Head(w) \in Range(w) /\ Range(Tail(w)) = Range(w) \ {Head(w)}
               /\ \A a, b : Before(w, a, b) => b # Head(w)
               /\ \A a, b : Before(Tail(w), a, b) <=> Before(w, a, b) /\ a # Head(w)
    BY <1>3, TailFacts, BeforeTail DEF Grown
  <1>4. ASSUME w # <<>> PROVE InTurn(q, Tail(w), D)
    <2>1. ASSUME NEW a \in Range(q), NEW b \in Range(q), Before(q, a, b)
          PROVE  /\ ~Before(Tail(w), b, a)
                 /\ b \in Range(Tail(w)) \cup D \/ a \notin Range(Tail(w))
      <3>1. ~Before(Tail(w), b, a)
        BY <1>1, <1>3, <1>4, <2>1 DEF Grown
      <3>2. ASSUME b \notin Range(Tail(w)), b \notin D, a \in Range(Tail(w))
            PROVE  FALSE
        <4>1. b = Head(w) /\ a \in Range(w) /\ b \in Range(w)
          BY <1>3, <1>4, <2>1, <3>2 DEF Grown
        <4> QED
          BY <1>3, <1>4, <2>1, <4>1 DEF Grown
      <3> QED
        BY <3>1, <3>2
    <2>2. \A a \in Range(q) \cap Range(Tail(w)), b \in Range(Tail(w)) \ Range(q) :
            Before(Tail(w), a, b)
      BY <1>3, <1>4 DEF Grown
    <2> QED
      BY <2>1, <2>2 DEF InTurn
  <1>5. ASSUME w # <<>>, Head(w) \notin Range(q)
        PROVE  Range(q) \cap Range(Tail(w)) = {}
    BY <1>3, <1>5 DEF Grown
  <1> QED
    BY <1>2, <1>4, <1>5

ReadyInTurn ==
  /\ InTurn(ready, ready', pcbFree')
  /\ current' \notin {current, NULL} \cup Range(ready) =>
       Range(ready) \cap Range(ready') = {}

BlockedInTurn == \A s \in Sems : InTurn(blocked[s], blocked'[s], pcbFree')

LEMMA ScheduleInTurn ==
  ASSUME NEW q, NEW n, NEW k, Grown(ready, q, pcbFree'), schedule(q, n, k)
  PROVE  ReadyInTurn
  BY GrownInTurn DEF schedule, ReadyInTurn

LEMMA ResumeInTurn ==
  ASSUME Grown(ready, ready', pcbFree'), current' = current
  PROVE  ReadyInTurn
  BY GrownInTurn DEF ReadyInTurn

LEMMA StayInTurn == IInv /\ UNCHANGED blocked => BlockedInTurn
  BY Placement, GrownSame, GrownInTurn DEF BlockedInTurn

LEMMA BlockInTurn ==
  ASSUME IInv, Running, NEW s \in Sems, NEW c, BlockCurrent(s, c)
  PROVE  BlockedInTurn
  <1>1. /\ current \in Pcbs /\ current \notin Range(blocked[s])
        /\ \A t \in Sems : Grown(blocked[t], blocked[t], pcbFree')
        /\ blocked \in [Sems -> Seq(Pcbs)]
    BY RunningCurrent, Placement, GrownSame DEF Placed
  <1>2. Append(blocked[s], current) = blocked[s] \o <<current>>
    BY <1>1
  <1>3. <<current>> \in Seq(Pcbs) /\ NoRepeats(<<current>>) /\ Range(<<current>>) = {current}
    BY <1>1, SingleFacts
  <1>4. Grown(blocked[s], Append(blocked[s], current), pcbFree')
    <2> DEFINE one == <<current>>
    <2>1. one \in Seq(Pcbs) /\ NoRepeats(one) /\ Range(one) = {current}
      BY <1>3
    <2> HIDE DEF one
    <2>2. Grown(blocked[s], blocked[s] \o one, pcbFree')
      BY <1>1, <2>1, GrownConcat
    <2> QED
      BY <1>2, <2>2, Zenon DEF one
  <1>5. \A t \in Sems : Grown(blocked[t], blocked'[t], pcbFree')
    BY <1>1, <1>4 DEF BlockCurrent
  <1> QED
    BY <1>5, GrownInTurn DEF BlockedInTurn

LEMMA WakeInTurn ==
  ASSUME IInv, NEW s \in Sems, blocked[s] # <<>>, WakeHead(s)
  PROVE  ReadyInTurn /\ BlockedInTurn
  <1>1. /\ Head(blocked[s]) \in Pcbs /\ Head(blocked[s]) \notin Range(ready)
        /\ Grown(ready, ready, pcbFree')
        /\ \A t \in Sems : Grown(blocked[t], blocked[t], pcbFree')
        /\ blocked \in [Sems -> Seq(Pcbs)]
    BY Placement, TailFacts, RangeType, GrownSame DEF Placed
  <1>2. Grown(ready, Enqueue(ready, <<Head(blocked[s])>>), pcbFree')
    <2>1. /\ <<Head(blocked[s])>> \in Seq(Pcbs) /\ NoRepeats(<<Head(blocked[s])>>)
          /\ Range(<<Head(blocked[s])>>) = {Head(blocked[s])}
      BY <1>1, SingleFacts
    <2> QED
      BY <1>1, <2>1, GrownEnqueue
  <1>3. ReadyInTurn
    BY <1>2, ResumeInTurn DEF WakeHead, resume
  <1>4. \A t \in Sems : blocked'[t] = blocked[t] \/ (t = s /\ blocked'[t] = Tail(blocked[t]))
    BY <1>1 DEF WakeHead
  <1>5. ASSUME NEW t \in Sems
        PROVE  InTurn(blocked[t], blocked'[t], pcbFree')
    <2>1. /\ InTurn(blocked[t], blocked[t], pcbFree')
          /\ blocked[t] # <<>> => InTurn(blocked[t], Tail(blocked[t]), pcbFree')
      BY <1>1, GrownInTurn
    <2> QED
      BY <1>4, <2>1
  <1> QED
    BY <1>3, <1>5 DEF BlockedInTurn

(* The ready queue as it is when the scheduler is called.                  *)
LEMMA SameInTurn ==
  ASSUME IInv, NEW n, NEW k, schedule(ready, n, k)
  PROVE  ReadyInTurn
  BY Placement, GrownSame, ScheduleInTurn

LEMMA SameReadyInTurn == IInv /\ ready' = ready /\ current' = current => ReadyInTurn
  BY Placement, GrownSame, ResumeInTurn

LEMMA SemInTurn ==
  ASSUME IInv, NEW s \in USems, passeren(s) \/ verhogen(s)
  PROVE  ReadyInTurn /\ BlockedInTurn
  <1>1. s \in Sems /\ Running
    BY DEF Sems, passeren, verhogen
  <1>2. CASE \E c : BlockCurrent(s, c) /\ schedule(ready, process_count, soft_block_count)
    BY <1>1, <1>2, BlockInTurn, SameInTurn
  <1>3. CASE blocked[s] # <<>> /\ WakeHead(s)
    BY <1>1, <1>3, WakeInTurn
  <1>4. CASE resume(ready) /\ UNCHANGED blocked
    BY <1>4, StayInTurn, SameReadyInTurn DEF resume
  <1> QED
    BY <1>2, <1>3, <1>4 DEF passeren, verhogen

LEMMA PInTurn ==
  ASSUME IInv, Running, NEW s \in Sems, NEW c, PThenSchedule(s, c)
  PROVE  ReadyInTurn /\ BlockedInTurn
  BY BlockInTurn, SameInTurn, StayInTurn DEF PThenSchedule

LEMMA CreateInTurn ==
  ASSUME IInv, NEW new \in Pcbs, createProcess(new)
  PROVE  ReadyInTurn /\ BlockedInTurn
  <1>1. new \notin Range(ready) /\ Grown(ready, ready, pcbFree')
    BY Placement, GrownSame DEF Placed, createProcess
  <1>2. <<new>> \in Seq(Pcbs) /\ NoRepeats(<<new>>) /\ Range(<<new>>) = {new}
    BY SingleFacts
  <1>3. Grown(ready, Enqueue(ready, <<new>>), pcbFree')
    BY <1>1, <1>2, GrownEnqueue
  <1> QED
    BY <1>3, ResumeInTurn, StayInTurn DEF createProcess

LEMMA TerminateInTurn ==
  ASSUME IInv, NEW p, terminateProcess(p)
  PROVE  ReadyInTurn /\ BlockedInTurn
  <1>1. PICK dead : /\ pcbFree' = pcbFree \cup dead
                    /\ blocked' = [s \in Sems |-> Without(blocked[s], dead)]
                    /\ \E n, k : schedule(Without(ready, dead), n, k)
    BY DEF terminateProcess
  <1>2. Grown(ready, Without(ready, dead), pcbFree')
    BY <1>1, Placement, GrownSame, GrownWithout
  <1>3. \A s \in Sems : Grown(blocked[s], blocked'[s], pcbFree')
    BY <1>1, Placement, GrownSame, GrownWithout
  <1>4. ReadyInTurn
    BY <1>1, <1>2, ScheduleInTurn
  <1> QED
    BY <1>3, <1>4, GrownInTurn DEF BlockedInTurn

LEMMA InterruptInTurn ==
  ASSUME IInv, NEW plt \in BOOLEAN, NEW it \in BOOLEAN, interruptHandler(plt, it)
  PROVE  ReadyInTurn /\ BlockedInTurn
  <1> DEFINE woken == Awakened(it)
             q0 == IF plt THEN Enqueue(ready, <<current>>) ELSE ready
  <1>1. /\ plt => mode = "run"
        /\ blocked' = LeftBlocked(it) /\ UNCHANGED procs
        /\ \/ \E n, k : schedule(Enqueue(q0, woken), n, k)
           \/ ready' = Enqueue(q0, woken) /\ current' = current
    BY DEF interruptHandler, Awakened, LeftBlocked
  <1>2. Placed(ready, blocked, pcbFree, current) /\ Grown(ready, ready, pcbFree')
    BY Placement, GrownSame
  <1>3. woken \in Seq(Pcbs) /\ NoRepeats(woken)
        /\ \A p \in Range(woken) : \E s \in Sems : p \in Range(blocked[s])
    BY AwakenedWoken, ServedApart DEF Woken, AwakenedAt, Sems, SoftSems
  <1> HIDE DEF woken
  <1>4. Range(woken) \cap Range(ready) = {} /\ current \notin Range(woken)
    BY <1>2, <1>3 DEF Placed
  <1>5. Grown(ready, q0, pcbFree') /\ Range(q0) \subseteq Range(ready) \cup {current}
    <2>1. CASE plt
      <3>1. current \in Pcbs /\ current # NULL
        BY <1>1, <2>1, NucleusAssumption DEF IInv, PlaceInv, TypeOK
      <3>2. <<current>> \in Seq(Pcbs) /\ NoRepeats(<<current>>) /\ Range(<<current>>) = {current}
        BY <3>1, SingleFacts
      <3>3. current \notin Range(ready)
        BY <1>2 DEF Placed
      <3> QED
        BY <1>2, <2>1, <3>1, <3>2, <3>3, GrownEnqueue, QuantumQueue
    <2>2. CASE ~plt
      BY <1>2, <2>2
    <2> QED
      BY <2>1, <2>2
  <1> HIDE DEF q0
  <1>6. Grown(ready, Enqueue(q0, woken), pcbFree')
    BY <1>3, <1>4, <1>5, GrownEnqueue
  <1>7. ReadyInTurn
    BY <1>1, <1>6, ScheduleInTurn, ResumeInTurn
  <1>8. ASSUME NEW s \in Sems
        PROVE  InTurn(blocked[s], blocked'[s], pcbFree')
    <2>1. Grown(blocked[s], blocked[s], pcbFree')
      BY Placement, GrownSame
    <2>2. \/ blocked'[s] = <<>>
          \/ blocked'[s] = Tail(blocked[s]) /\ blocked[s] # <<>>
          \/ blocked'[s] = blocked[s]
      BY <1>1 DEF LeftBlocked
    <2>3. InTurn(blocked[s], <<>>, pcbFree')
      BY DEF InTurn, Before, Range
    <2> QED
      BY <2>1, <2>2, <2>3, GrownInTurn
  <1> QED
    BY <1>7, <1>8 DEF BlockedInTurn

LEMMA NextInTurn == IInv /\ [NextAny]_vars => ReadyInTurn /\ BlockedInTurn
  <1> SUFFICES ASSUME IInv, [NextAny]_vars PROVE ReadyInTurn /\ BlockedInTurn
    OBVIOUS
  <1>1. CASE \E p \in Pcbs : createProcess(p)
    BY <1>1, CreateInTurn
  <1>2. CASE \E s \in USems : passeren(s) \/ verhogen(s)
    BY <1>2, SemInTurn
  <1>3. CASE \E r \in Regs : doIO(r)
    BY <1>3, PInTurn, SameInTurn, StayInTurn DEF doIO, Sems, SoftSems
  <1>4. CASE clockWait
    BY <1>4, PInTurn DEF clockWait, Sems, SoftSems
  <1>5. CASE \E p : terminateProcess(p)
    BY <1>5, TerminateInTurn
  <1>6. CASE TermUnknown
    BY <1>6, SameInTurn, StayInTurn DEF TermUnknown
  <1>7. CASE Interrupt
    BY <1>7, InterruptInTurn DEF Interrupt
  <1>8. CASE UNCHANGED <<ready, current, blocked>>
    BY <1>8, SameReadyInTurn, StayInTurn
  <1> QED
    BY <1>1, <1>2, <1>3, <1>4, <1>5, <1>6, <1>7, <1>8
       DEF NextAny, Next, Syscall, TermSelf, passUpOrDie, TermOther, DeviceDone, vars

(* Queues are first in, first out, and nobody gets the processor past a    *)
(* process which was ready before, whatever the programs do: wake-ups,     *)
(* ends of time slices and terminations all keep the turns.                *)
THEOREM FIFOAlways == Spec => FIFO
  <1>1. IInv /\ [NextAny]_vars =>
          [ /\ InTurn(ready, ready', pcbFree')
            /\ \A s \in Sems : InTurn(blocked[s], blocked[s]', pcbFree')
            /\ current' \notin {current, NULL} \cup Range(ready) =>
                 Range(ready) \cap Range(ready') = {} ]_vars
    BY NextInTurn DEF ReadyInTurn, BlockedInTurn
  <1>2. [Next]_vars => [NextAny]_vars
    BY DEF NextAny
  <1> QED
    BY InvariantAny, <1>1, <1>2, PTL DEF Spec, FIFO

-----------------------------------------------------------------------------
-----------------------------------------------------------------------------
(* The tree.                                                               *)
(*                                                                         *)
(* Progeny is the least closed set; the lemmas are about it for any parent *)
(* function f, as an operation relates two: the old one and the new.       *)

Parents == [Pcbs -> Pcbs \cup {NULL}]
Kids(f) == {c \in Pcbs : f[c] # NULL}
Closed(f, S) == \A c \in Kids(f) : f[c] \in S => c \in S
Below(f, p) ==
  {q \in Pcbs : \A S \in SUBSET ({p} \cup Kids(f)) : p \in S /\ Closed(f, S) => q \in S}

TreeInv == IInv /\ Family
CountInv == TreeInv /\ Accounting

-----------------------------------------------------------------------------
(* The least closed set.                                                   *)

LEMMA ProgenyBelow ==
  ASSUME NEW p
  PROVE  /\ Progeny(p) = Below(p_parent, p)
         /\ Progeny(p)' = Below(p_parent', p)
  BY DEF Progeny, Below, Kids, Closed

LEMMA BelowFacts ==
  ASSUME NEW f \in Parents, NEW p \in Pcbs
  PROVE  /\ Below(f, p) \subseteq Pcbs
         /\ p \in Below(f, p)
         /\ \A c \in Kids(f) : f[c] \in Below(f, p) => c \in Below(f, p)
         /\ Below(f, p) \subseteq {p} \cup Kids(f)
  <1>1. Closed(f, {p} \cup Kids(f))
    BY DEF Closed
  <1>2. \A c \in Kids(f) : f[c] \in Below(f, p) => c \in Below(f, p)
    BY DEF Below, Closed, Kids
  <1> QED
    BY <1>1, <1>2 DEF Below

(* The least closed set of r grows with a child of one of its elements.    *)
LEMMA BelowCreate ==
  ASSUME NEW f \in Parents, NEW r \in Pcbs, NEW cur \in Pcbs, NEW new \in Pcbs,
         f[new] = NULL, new # r, new # cur, NULL \notin Pcbs
  PROVE  LET g == [f EXCEPT ![new] = cur] IN
         /\ Below(f, r) \subseteq Below(g, r)
         /\ cur \in Below(f, r) => new \in Below(g, r)
  <1> DEFINE g == [f EXCEPT ![new] = cur]
  <1>1. /\ g \in Parents /\ g[new] = cur
        /\ \A q \in Pcbs : q # new => g[q] = f[q]
    BY DEF Parents
  <1>2. Kids(g) = Kids(f) \cup {new} /\ new \notin Kids(f)
    BY <1>1 DEF Kids
  <1> HIDE DEF g
  <1>3. ASSUME NEW q \in Below(f, r)
        PROVE  q \in Below(g, r)
    <2> SUFFICES ASSUME NEW S \in SUBSET ({r} \cup Kids(g)), r \in S, Closed(g, S)
                 PROVE  q \in S
      BY <1>3 DEF Below
    <2>1. S \ {new} \in SUBSET ({r} \cup Kids(f)) /\ r \in S \ {new}
      BY <1>2
    <2>2. Closed(f, S \ {new})
      BY <1>1, <1>2 DEF Closed, Kids
    <2> QED
      BY <1>3, <2>1, <2>2 DEF Below
  <1>4. ASSUME cur \in Below(f, r)
        PROVE  new \in Below(g, r)
    <2>1. cur \in Below(g, r)
      BY <1>3, <1>4
    <2> QED
      BY <1>1, <1>2, <2>1, BelowFacts
  <1> QED
    BY <1>3, <1>4 DEF g

(* Of the least closed set of r remains what is not below d.               *)
LEMMA BelowTerminate ==
  ASSUME NEW f \in Parents, NEW r \in Pcbs, NEW d \in Kids(f), r \notin Below(f, d)
  PROVE  LET g == [q \in Pcbs |-> IF q \in Below(f, d) THEN NULL ELSE f[q]] IN
         Below(f, r) \ Below(f, d) \subseteq Below(g, r)
  <1> DEFINE dead == Below(f, d)
             g == [q \in Pcbs |-> IF q \in dead THEN NULL ELSE f[q]]
  <1>1. /\ dead \subseteq Kids(f) /\ d \in Pcbs
        /\ \A c \in Kids(f) : f[c] \in dead => c \in dead
    BY BelowFacts DEF Kids
  <1> HIDE DEF dead
  <1>2. Kids(g) = Kids(f) \ dead /\ \A q \in Pcbs \ dead : g[q] = f[q]
    BY DEF Kids
  <1> HIDE DEF g
  <1>3. ASSUME NEW q \in Below(f, r), q \notin dead
        PROVE  q \in Below(g, r)
    <2> SUFFICES ASSUME NEW S \in SUBSET ({r} \cup Kids(g)), r \in S, Closed(g, S)
                 PROVE  q \in S
      BY <1>3 DEF Below
    <2>1. S \cup dead \in SUBSET ({r} \cup Kids(f)) /\ r \in S \cup dead
      BY <1>1, <1>2
    <2>2. Closed(f, S \cup dead)
      BY <1>1, <1>2 DEF Closed, Kids
    <2>3. q \in S \cup dead
      BY <1>3, <2>1, <2>2 DEF Below
    <2> QED
      BY <1>3, <2>3
  <1> QED
    BY <1>3 DEF dead, g

-----------------------------------------------------------------------------
(* The two operations that change the tree.                                *)

LEMMA TreeFacts ==
  ASSUME TreeInv
  PROVE  /\ p_parent \in Parents /\ pcbFree \subseteq Pcbs /\ NULL \notin Pcbs
         /\ \A p \in pcbFree : p_parent[p] = NULL
         /\ \A p \in Live : p_parent[p] \in Live \cup {NULL}
         /\ \A p, q \in Live : p_parent[p] = NULL /\ p_parent[q] = NULL => p = q
         /\ \A p \in Live :
              \E r \in Live : p_parent[r] = NULL /\ p \in Below(p_parent, r)
         /\ current \in Live \cup {NULL}
         /\ Range(ready) \cup Blocked \subseteq Live
  <1>1. /\ p_parent \in Parents /\ pcbFree \subseteq Pcbs /\ NULL \notin Pcbs
        /\ Placed(ready, blocked, pcbFree, current) /\ Family
    BY NucleusAssumption DEF TreeInv, IInv, TypeOK, PlaceInv, Parents
  <1>2. Range(ready) \cup Blocked \subseteq Live
    BY <1>1, RangeType DEF Placed, Live, Blocked, WaitsOn
  <1> QED
    BY <1>1, <1>2, ProgenyBelow DEF Family, Placed, Live

(* What follows for Family' from facts about the parents afterwards.       *)
LEMMA FamilyPrime ==
  ASSUME \A p \in pcbFree' : p_parent'[p] = NULL,
         \A p \in Live' : p_parent'[p] \in Live' \cup {NULL},
         \A p, q \in Live' : p_parent'[p] = NULL /\ p_parent'[q] = NULL => p = q,
         \A p \in Live' :
           \E r \in Live' : p_parent'[r] = NULL /\ p \in Below(p_parent', r)
  PROVE  Family'
  BY ProgenyBelow DEF Family

LEMMA CreateFamily ==
  ASSUME TreeInv, NEW new \in Pcbs, createProcess(new)
  PROVE  Family'
  <1>1. /\ new \in pcbFree /\ pcbFree' = pcbFree \ {new}
        /\ p_parent' = [p_parent EXCEPT ![new] = current]
    BY DEF createProcess
  <1>2. current \in Live /\ current \in Pcbs /\ new # current /\ NULL \notin Pcbs
    BY <1>1, TreeFacts, RunningCurrent DEF TreeInv, createProcess, Live
  <1>3. Live' = Live \cup {new} /\ new \notin Live /\ Live \subseteq Pcbs
    BY <1>1, TreeFacts DEF Live
  <1>4. /\ p_parent'[new] = current /\ p_parent[new] = NULL
        /\ \A p \in Pcbs : p # new => p_parent'[p] = p_parent[p]
    BY <1>1, TreeFacts DEF Parents
  <1>5. \A p \in Live' :
          \E r \in Live' : p_parent'[r] = NULL /\ p \in Below(p_parent', r)
    <2>1. ASSUME NEW r \in Live, p_parent[r] = NULL
          PROVE  /\ r \in Live' /\ p_parent'[r] = NULL
                 /\ Below(p_parent, r) \subseteq Below(p_parent', r)
                 /\ current \in Below(p_parent, r) => new \in Below(p_parent', r)
      BY <1>1, <1>2, <1>3, <1>4, <2>1, TreeFacts, BelowCreate
    <2>2. ASSUME NEW p \in Live
          PROVE  \E r \in Live' : p_parent'[r] = NULL /\ p \in Below(p_parent', r)
      BY <2>1, TreeFacts
    <2>3. \E r \in Live' : p_parent'[r] = NULL /\ new \in Below(p_parent', r)
      BY <1>2, <2>1, TreeFacts
    <2> QED
      BY <1>3, <2>2, <2>3
  <1>6. \A p \in pcbFree' : p_parent'[p] = NULL
    BY <1>1, <1>4, TreeFacts
  <1>7. \A p \in Live' : p_parent'[p] \in Live' \cup {NULL}
    BY <1>2, <1>3, <1>4, TreeFacts
  <1>8. \A p, q \in Live' : p_parent'[p] = NULL /\ p_parent'[q] = NULL => p = q
    BY <1>2, <1>3, <1>4, TreeFacts
  <1> QED
    BY <1>5, <1>6, <1>7, <1>8, FamilyPrime

LEMMA TerminateFamily ==
  ASSUME TreeInv, NEW d \in Live, terminateProcess(d)
  PROVE  Family'
  <1> DEFINE dead == Below(p_parent, d)
  <1>1. /\ pcbFree' = pcbFree \cup dead
        /\ p_parent' = [q \in Pcbs |-> IF q \in dead THEN NULL ELSE p_parent[q]]
    BY ProgenyBelow DEF terminateProcess
  <1>2. /\ dead \subseteq Pcbs /\ d \in dead /\ d \in Pcbs
        /\ dead \subseteq {d} \cup Kids(p_parent)
        /\ \A c \in Kids(p_parent) : p_parent[c] \in dead => c \in dead
    BY TreeFacts, BelowFacts DEF Live
  <1>3. \A p \in Live \ dead : \E r \in Live \ dead :
          p_parent[r] = NULL /\ p \in Below(p_parent', r)
    <2> SUFFICES ASSUME NEW p \in Live \ dead
                 PROVE  \E r \in Live \ dead :
                          p_parent[r] = NULL /\ p \in Below(p_parent', r)
      OBVIOUS
    <2>1. PICK r \in Live : p_parent[r] = NULL /\ p \in Below(p_parent, r)
      BY TreeFacts
    <2>2. r # d
      BY <2>1
    <2>3. d \in Kids(p_parent)
      BY <1>2, <2>1, <2>2, TreeFacts DEF Kids
    <2>4. r \notin dead /\ r \in Pcbs
      BY <1>2, <2>1, <2>2 DEF Kids, Live
    <2>5. p \in Below(p_parent', r)
      BY <1>1, <2>1, <2>3, <2>4, TreeFacts, BelowTerminate
    <2> QED
      BY <2>1, <2>4, <2>5
  <1> HIDE DEF dead
  <1>4. Live' = Live \ dead
    BY <1>1 DEF Live
  <1>5. \A p \in Live' : p_parent'[p] = p_parent[p]
    BY <1>1, <1>4 DEF Live
  <1>6. \A p \in pcbFree' : p_parent'[p] = NULL
    BY <1>1, <1>2, TreeFacts
  <1>7. \A p \in Live' : p_parent'[p] \in Live' \cup {NULL}
    BY <1>2, <1>4, <1>5, TreeFacts DEF Kids, Live
  <1>8. \A p, q \in Live' : p_parent'[p] = NULL /\ p_parent'[q] = NULL => p = q
    BY <1>4, <1>5, TreeFacts
  <1> QED
    BY <1>3, <1>4, <1>5, <1>6, <1>7, <1>8, FamilyPrime

-----------------------------------------------------------------------------

LEMMA InitTree == Init => TreeInv
  <1> SUFFICES ASSUME Init PROVE TreeInv
    OBVIOUS
  <1>1. IInv
    BY InitInv
  <1>2. PICK root \in Pcbs : pcbFree = Pcbs \ {root} /\ Live = {root}
    BY DEF Init, Boot, Live
  <1>3. \A p \in Pcbs : p_parent[p] = NULL
    BY DEF Init, Boot
  <1>4. root \in Below(p_parent, root)
    BY <1>1, BelowFacts DEF IInv, TypeOK, Parents
  <1> QED
    BY <1>1, <1>2, <1>3, <1>4, ProgenyBelow DEF TreeInv, Family

LEMMA NextTree == TreeInv /\ [NextAny]_vars => TreeInv'
  <1> SUFFICES ASSUME TreeInv, [NextAny]_vars PROVE TreeInv'
    OBVIOUS
  <1>1. IInv'
    BY NextInv DEF TreeInv
  <1>2. CASE \E p \in Pcbs : createProcess(p)
    BY <1>1, <1>2, CreateFamily DEF TreeInv
  <1>3. CASE TermSelf \/ passUpOrDie
    <2>1. current \in Live
      BY <1>3, TreeFacts, RunningCurrent DEF TreeInv, TermSelf, passUpOrDie
    <2> QED
      BY <1>1, <1>3, <2>1, TerminateFamily DEF TreeInv, TermSelf, passUpOrDie
  <1>4. CASE \E p \in Pcbs : TermOther(p)
    BY <1>1, <1>4, TreeFacts, TerminateFamily DEF TreeInv, TermOther
  <1>5. CASE UNCHANGED procs
    BY <1>1, <1>5, FamilyPrime, TreeFacts DEF TreeInv, procs, Live
  <1>6. \/ \E p \in Pcbs : createProcess(p)
        \/ TermSelf \/ passUpOrDie
        \/ \E p \in Pcbs : TermOther(p)
        \/ UNCHANGED procs
    BY DEF NextAny, Next, Syscall, Interrupt, vars, procs, passeren, verhogen, doIO,
           clockWait, TermUnknown, interruptHandler, DeviceDone
  <1> QED
    BY <1>2, <1>3, <1>4, <1>5, <1>6

LEMMA TreeInvariant == Init /\ [][NextAny]_vars => []TreeInv
  BY InitTree, NextTree, PTL

(* Nobody outlives its parent and the living form one tree, whatever the   *)
(* programs create and terminate.                                          *)
THEOREM FamilyAlways == Spec => []Family
  <1>1. [Next]_vars => [NextAny]_vars
    BY DEF NextAny
  <1>2. TreeInv => Family
    BY DEF TreeInv
  <1> QED
    BY TreeInvariant, <1>1, <1>2, PTL DEF Spec

-----------------------------------------------------------------------------
(* Counting.  A counter of processes does not wrap around.                 *)

LEMMA CountType ==
  ASSUME NEW S \in SUBSET Pcbs
  PROVE  IsFiniteSet(S) /\ Cardinality(S) \in 0..(UIntMod - 1)
  <1>1. /\ IsFiniteSet(S) /\ Cardinality(S) \in Nat /\ Cardinality(Pcbs) \in Nat
        /\ Cardinality(S) <= Cardinality(Pcbs)
    BY NucleusAssumption, FS_Subset, FS_CardinalityType
  <1>2. UIntMod \in Nat /\ Cardinality(Pcbs) < UIntMod
    BY NucleusAssumption
  <1> QED
    BY <1>1, <1>2

LEMMA SmallMod == \A n \in 0..(UIntMod - 1) : n % UIntMod = n
  BY Unsigned

LEMMA CountAdd ==
  ASSUME NEW S \in SUBSET Pcbs, NEW x \in Pcbs \ S
  PROVE  Plus(Cardinality(S), 1) = Cardinality(S \cup {x})
  <1>1. Cardinality(S \cup {x}) = Cardinality(S) + 1
    BY CountType, FS_AddElement
  <1>2. S \cup {x} \in SUBSET Pcbs
    OBVIOUS
  <1>3. Cardinality(S \cup {x}) \in 0..(UIntMod - 1)
    BY <1>2, CountType
  <1> QED
    BY <1>1, <1>3, SmallMod DEF Plus

LEMMA CountTake ==
  ASSUME NEW S \in SUBSET Pcbs, NEW D \in SUBSET S
  PROVE  Minus(Cardinality(S), Cardinality(D)) = Cardinality(S \ D)
  <1>1. IsFiniteSet(S) /\ Cardinality(S) \in Int
    BY CountType, Unsigned
  <1>2. Cardinality(S \ D) = Cardinality(S) - Cardinality(S \cap D) /\ S \cap D = D
    BY <1>1, FS_Difference
  <1>3. S \ D \in SUBSET Pcbs
    OBVIOUS
  <1>4. Cardinality(S \ D) \in 0..(UIntMod - 1)
    BY <1>3, CountType
  <1> QED
    BY <1>2, <1>4, SmallMod DEF Minus

LEMMA CountSeq ==
  ASSUME NEW q \in Seq(Pcbs), NoRepeats(q)
  PROVE  Cardinality(Range(q)) = Len(q)
  <1>1. Len(q) \in Nat /\ DOMAIN q = 1..Len(q)
    BY LenProperties
  <1>2. IsFiniteSet(1..Len(q)) /\ Cardinality(1..Len(q)) = Len(q)
    BY <1>1, FS_Interval
  <1>3. q \in [1..Len(q) -> Range(q)]
    BY <1>1, LenProperties DEF Range
  <1>4. q \in Surjection(1..Len(q), Range(q))
    BY <1>1, <1>3 DEF Range, Surjection
  <1>5. q \in Injection(1..Len(q), Range(q))
    BY <1>1, <1>3 DEF NoRepeats, Injection, IsInjective
  <1> QED
    BY <1>2, <1>4, <1>5, FS_Surjection

-----------------------------------------------------------------------------
(* Who waits for a device or for the clock.                                *)

SoftIn(B) == {p \in Pcbs : \E s \in SoftSems : p \in Range(B[s])}

LEMMA SoftBlockedIn ==
  SoftBlocked = SoftIn(blocked) /\ SoftBlocked' = SoftIn(blocked')
  BY DEF SoftBlocked, SoftIn, WaitsOn, Sems

LEMMA SoftApart == SoftSems \subseteq Sems /\ USems \subseteq Sems /\ USems \cap SoftSems = {}
  BY NucleusAssumption DEF Sems, SoftSems

LEMMA AwakenedSoft ==
  ASSUME NEW it \in BOOLEAN
  PROVE  AwakenedAt(it) \subseteq SoftSems
  <1>1. Pending \subseteq Regs /\ Installed \subseteq Regs
    BY NucleusAssumption DEF Pending
  <1>2. \A n : Served(n) \subseteq Regs
    BY <1>1 DEF Served
  <1>3. \A h : ServedHalf(h) \subseteq Regs
    BY <1>1 DEF ServedHalf
  <1> QED
    BY <1>2, <1>3 DEF AwakenedAt, AllServed, SoftSems

(* Wherever an action leaves the tree and the queues of the devices and of *)
(* the clock alone, it must leave the counters alone.                      *)
LEMMA CountsStay ==
  ASSUME CountInv, UNCHANGED <<pcbFree, process_count, soft_block_count>>,
         \A s \in SoftSems : Range(blocked'[s]) = Range(blocked[s])
  PROVE  Accounting'
  <1>1. SoftBlocked' = SoftBlocked /\ Live' = Live
    BY SoftBlockedIn DEF SoftIn, Live
  <1> QED
    BY <1>1 DEF CountInv, Accounting

(* P or V of a process.                                                    *)
LEMMA SemCount ==
  ASSUME CountInv, NEW s \in USems, passeren(s) \/ verhogen(s)
  PROVE  Accounting'
  <1>1. UNCHANGED <<pcbFree, process_count, soft_block_count>>
    BY DEF passeren, verhogen, procs, schedule, WakeHead, resume
  <1>2. blocked \in [Sems -> Seq(Pcbs)]
    BY DEF CountInv, TreeInv, IInv, TypeOK
  <1>3. \A t \in SoftSems : blocked'[t] = blocked[t]
    BY <1>2, SoftApart DEF passeren, verhogen, WakeHead, BlockCurrent
  <1> QED
    BY <1>1, <1>3, CountsStay

(* DOIO and CLOCKWAIT: a caller which blocks is counted.                   *)
LEMMA PCount ==
  ASSUME CountInv, Running, NEW s \in SoftSems, NEW c, PThenSchedule(s, c),
         UNCHANGED procs
  PROVE  Accounting'
  <1>1. CASE BlockCurrent(s, c)
             /\ schedule(ready, process_count, Plus(soft_block_count, 1))
    <2>1. /\ current \in Pcbs /\ s \in Sems
          /\ \A t \in Sems : blocked[t] \in Seq(Pcbs) /\ current \notin Range(blocked[t])
      BY RunningCurrent, SoftApart DEF CountInv, TreeInv, Placed
    <2>2. blocked \in [Sems -> Seq(Pcbs)]
      BY DEF CountInv, TreeInv, IInv, TypeOK
    <2>3. Range(Append(blocked[s], current)) = Range(blocked[s]) \cup {current}
      BY <2>1, AppendFacts
    <2>4. \A t \in Sems :
            blocked'[t] = IF t = s THEN Append(blocked[s], current) ELSE blocked[t]
      BY <1>1, <2>1, <2>2 DEF BlockCurrent
    <2>5. SoftBlocked' = SoftBlocked \cup {current} /\ current \notin SoftBlocked
      BY <2>1, <2>3, <2>4, SoftApart, SoftBlockedIn DEF SoftIn
    <2>6. SoftBlocked \in SUBSET Pcbs /\ soft_block_count = Cardinality(SoftBlocked)
      BY DEF SoftBlocked, CountInv, Accounting
    <2>7. soft_block_count' = Cardinality(SoftBlocked')
      BY <1>1, <2>1, <2>5, <2>6, CountAdd DEF schedule
    <2> QED
      BY <1>1, <2>7 DEF CountInv, Accounting, schedule, procs, Live
  <1>2. CASE schedule(ready, process_count, soft_block_count)
             /\ UNCHANGED <<blocked, call>>
    BY <1>2, CountsStay DEF schedule, procs
  <1> QED
    BY <1>1, <1>2 DEF PThenSchedule

LEMMA DoIOCount ==
  ASSUME CountInv, NEW r \in Regs, doIO(r)
  PROVE  Accounting'
  <1>1. r \in SoftSems /\ Running /\ UNCHANGED procs
    BY DEF SoftSems, doIO
  <1>2. CASE PThenSchedule(r, "doIO")
    BY <1>1, <1>2, PCount
  <1>3. CASE schedule(ready, process_count, soft_block_count)
             /\ UNCHANGED <<device, blocked, sem, call>>
    BY <1>1, <1>3, CountsStay DEF schedule, procs
  <1> QED
    BY <1>2, <1>3 DEF doIO

LEMMA CreateCount ==
  ASSUME CountInv, NEW new \in Pcbs, createProcess(new)
  PROVE  Accounting'
  <1>1. new \notin Live /\ Live' = Live \cup {new} /\ Live \in SUBSET Pcbs
    BY DEF createProcess, Live
  <1>2. process_count' = Cardinality(Live')
    BY <1>1, CountAdd DEF CountInv, Accounting, createProcess
  <1>3. SoftBlocked' = SoftBlocked /\ soft_block_count' = soft_block_count
    BY SoftBlockedIn DEF createProcess
  <1> QED
    BY <1>2, <1>3 DEF CountInv, Accounting

(* A process below a living one lives: as many die as are discounted.      *)
LEMMA TerminateCount ==
  ASSUME CountInv, NEW d \in Live, terminateProcess(d)
  PROVE  Accounting'
  <1> DEFINE dead == Progeny(d)
  <1>1. dead \subseteq Live
    <2>1. d \in Pcbs /\ p_parent \in Parents
      BY TreeFacts DEF CountInv, Live
    <2>2. dead \subseteq {d} \cup Kids(p_parent)
      BY <2>1, BelowFacts, ProgenyBelow
    <2> QED
      BY <2>2, TreeFacts DEF CountInv, Kids, Live
  <1>2. /\ pcbFree' = pcbFree \cup dead
        /\ blocked' = [s \in Sems |-> Without(blocked[s], dead)]
        /\ process_count' = Minus(process_count, Cardinality(dead))
        /\ soft_block_count' =
             Minus(soft_block_count, Cardinality(dead \cap SoftBlocked))
    BY DEF terminateProcess, schedule
  <1> HIDE DEF dead
  <1>3. /\ process_count = Cardinality(Live) /\ Live \in SUBSET Pcbs
        /\ soft_block_count = Cardinality(SoftBlocked) /\ SoftBlocked \in SUBSET Pcbs
    BY DEF CountInv, Accounting, Live, SoftBlocked
  <1>4. Live' = Live \ dead
    BY <1>2 DEF Live
  <1>5. \A s \in Sems : Range(blocked'[s]) = Range(blocked[s]) \ dead
    BY <1>2, WithoutRange DEF CountInv, TreeInv, IInv, TypeOK
  <1>6. SoftBlocked' = SoftBlocked \ (dead \cap SoftBlocked)
    BY <1>5, SoftApart, SoftBlockedIn DEF SoftIn
  <1>7. process_count' = Cardinality(Live')
    BY <1>1, <1>2, <1>3, <1>4, CountTake
  <1>8. dead \cap SoftBlocked \in SUBSET SoftBlocked
    OBVIOUS
  <1>9. soft_block_count' = Cardinality(SoftBlocked')
    BY <1>2, <1>3, <1>6, <1>8, CountTake
  <1> QED
    BY <1>7, <1>9 DEF Accounting

(* An interrupt discounts those it wakes, each of which was counted.       *)
LEMMA InterruptCount ==
  ASSUME CountInv, NEW plt \in BOOLEAN, NEW it \in BOOLEAN, interruptHandler(plt, it)
  PROVE  Accounting'
  <1> DEFINE woken == Awakened(it)
  <1>1. /\ blocked' = LeftBlocked(it)
        /\ process_count' = process_count /\ pcbFree' = pcbFree
        /\ soft_block_count' = Minus(soft_block_count, Len(woken))
    BY DEF interruptHandler, Awakened, LeftBlocked, schedule, procs
  <1>2. IInv
    BY DEF CountInv, TreeInv
  <1>3. Woken(woken, AwakenedAt(it))
    BY <1>2, AwakenedWoken
  <1>4. \A s \in Sems : Range(blocked'[s]) = Range(blocked[s]) \ Range(woken)
    BY <1>1, <1>2, LeftFacts
  <1> HIDE DEF woken
  <1>5. Range(woken) \subseteq SoftBlocked
    <2>1. Range(woken) \subseteq Pcbs
      BY <1>3, RangeType DEF Woken
    <2> QED
      BY <1>3, <2>1, AwakenedSoft, SoftBlockedIn DEF Woken, SoftIn
  <1>6. Cardinality(Range(woken)) = Len(woken)
    BY <1>3, CountSeq DEF Woken
  <1>7. SoftBlocked' = SoftBlocked \ Range(woken)
    BY <1>4, SoftApart, SoftBlockedIn DEF SoftIn
  <1>8. SoftBlocked \in SUBSET Pcbs /\ soft_block_count = Cardinality(SoftBlocked)
    BY DEF SoftBlocked, CountInv, Accounting
  <1>9. soft_block_count' = Cardinality(SoftBlocked')
    BY <1>1, <1>5, <1>6, <1>7, <1>8, CountTake
  <1> QED
    BY <1>1, <1>9 DEF CountInv, Accounting, Live

LEMMA InitCount == Init => CountInv
  <1> SUFFICES ASSUME Init PROVE CountInv
    OBVIOUS
  <1>1. TreeInv
    BY InitTree
  <1>2. PICK root \in Pcbs : Live = {root}
    BY DEF Init, Boot, Live
  <1>3. SoftBlocked = {}
    <2>1. \A s \in Sems : Range(blocked[s]) = {}
      BY <1>2, SingleFacts DEF Init, Boot
    <2> QED
      BY <2>1, SoftApart, SoftBlockedIn DEF SoftIn
  <1> QED
    BY <1>1, <1>2, <1>3, FS_Singleton, FS_EmptySet DEF CountInv, Accounting, Init, Boot

LEMMA NextCount == CountInv /\ [Next]_vars => CountInv'
  <1> SUFFICES ASSUME CountInv, [Next]_vars PROVE CountInv'
    OBVIOUS
  <1>1. TreeInv'
    BY NextTree DEF CountInv, NextAny
  <1>2. CASE \E p \in Pcbs : createProcess(p)
    BY <1>1, <1>2, CreateCount DEF CountInv
  <1>3. CASE \E s \in USems : passeren(s) \/ verhogen(s)
    BY <1>1, <1>3, SemCount DEF CountInv
  <1>4. CASE \E r \in Regs : doIO(r)
    BY <1>1, <1>4, DoIOCount DEF CountInv
  <1>5. CASE clockWait
    BY <1>1, <1>5, PCount DEF CountInv, clockWait, SoftSems
  <1>6. CASE TermSelf \/ passUpOrDie
    <2>1. current \in Live
      BY <1>6, TreeFacts, RunningCurrent DEF CountInv, TreeInv, TermSelf, passUpOrDie
    <2> QED
      BY <1>1, <1>6, <2>1, TerminateCount DEF CountInv, TermSelf, passUpOrDie
  <1>7. CASE \E p \in Pcbs : TermOther(p)
    BY <1>1, <1>7, TreeFacts, TerminateCount DEF CountInv, TermOther
  <1>8. CASE Interrupt
    BY <1>1, <1>8, InterruptCount DEF CountInv, Interrupt
  <1>9. CASE (\E r \in Regs : DeviceDone(r)) \/ UNCHANGED vars
    BY <1>1, <1>9, CountsStay DEF CountInv, DeviceDone, procs, vars
  <1> QED
    BY <1>2, <1>3, <1>4, <1>5, <1>6, <1>7, <1>8, <1>9 DEF Next, Syscall

(* process_count and soft_block_count, kept by hand in four files, count   *)
(* the living and those which wait for a device or the clock, and never    *)
(* wrap around: the scheduler's verdict is based on the truth.             *)
THEOREM AccountingAlways == Spec => []Accounting
  <1>1. CountInv => Accounting
    BY DEF CountInv
  <1> QED
    BY InitCount, NextCount, <1>1, PTL DEF Spec

-----------------------------------------------------------------------------
(* Those who wait.                                                         *)

SidesInv == IInv /\ SemaphoreSides
ClockInv == IInv /\ sem[Clock] = 0

-----------------------------------------------------------------------------
(* The sides of a semaphore.                                               *)

(* A step which leaves the semaphores of the programs alone, but for       *)
(* processes that leave their queues.                                      *)
LEMMA SidesStay ==
  ASSUME SidesInv,
         \A s \in USems : /\ sem'[s] = sem[s]
                          /\ Range(blocked'[s]) \subseteq Range(blocked[s]),
         \A s \in USems : \A p \in Range(blocked'[s]) : call'[p] = call[p]
  PROVE  SemaphoreSides'
  BY DEF SidesInv, SemaphoreSides

LEMMA SidesPlaces ==
  ASSUME SidesInv
  PROVE  /\ blocked \in [Sems -> Seq(Pcbs)] /\ sem \in [Sems -> {0, 1}]
         /\ call \in [Pcbs -> Calls]
         /\ \A s \in Sems : /\ NoRepeats(blocked[s]) /\ Range(blocked[s]) \subseteq Pcbs
                            /\ current \notin Range(blocked[s])
         /\ \A s, t \in Sems : Range(blocked[s]) \cap Range(blocked[t]) # {} => s = t
  BY RangeType DEF SidesInv, IInv, TypeOK, PlaceInv, Placed

(* The current process blocks on s in call c.                              *)
LEMMA BlockSides ==
  ASSUME SidesInv, Running, NEW s \in Sems, NEW c, BlockCurrent(s, c), UNCHANGED sem,
         s \in USems => c = IF sem[s] = 0 THEN "passeren" ELSE "verhogen"
  PROVE  SemaphoreSides'
  <1>1. current \in Pcbs
    BY RunningCurrent DEF SidesInv
  <1>2. Range(Append(blocked[s], current)) = Range(blocked[s]) \cup {current}
    BY <1>1, SidesPlaces, AppendFacts
  <1>3. /\ blocked'[s] = Append(blocked[s], current)
        /\ \A t \in Sems : t # s => blocked'[t] = blocked[t]
        /\ call'[current] = c /\ \A p \in Pcbs : p # current => call'[p] = call[p]
    BY <1>1, SidesPlaces DEF BlockCurrent
  <1>4. ASSUME NEW t \in USems, NEW p \in Range(blocked'[t])
        PROVE  call'[p] = IF sem'[t] = 0 THEN "passeren" ELSE "verhogen"
    <2>1. t \in Sems
      BY SoftApart
    <2>2. CASE p = current
      <3>1. t = s
        BY <1>3, <2>1, <2>2, SidesPlaces
      <3> QED
        BY <1>3, <2>2, <3>1
    <2>3. CASE p # current
      <3>1. p \in Range(blocked[t])
        BY <1>2, <1>3, <2>1, <2>3
      <3>2. call'[p] = call[p]
        BY <1>3, <2>1, <2>3, <3>1, SidesPlaces
      <3> QED
        BY <3>1, <3>2 DEF SidesInv, SemaphoreSides
    <2> QED
      BY <2>2, <2>3
  <1> QED
    BY <1>4 DEF SemaphoreSides

(* The process which has waited longest on s is woken.                     *)
LEMMA WakeSides ==
  ASSUME SidesInv, NEW s \in Sems, blocked[s] # <<>>, WakeHead(s), UNCHANGED sem
  PROVE  SemaphoreSides'
  <1>1. /\ Head(blocked[s]) \in Range(blocked[s])
        /\ Range(Tail(blocked[s])) = Range(blocked[s]) \ {Head(blocked[s])}
    BY SidesPlaces, TailFacts
  <1>2. /\ blocked'[s] = Tail(blocked[s])
        /\ \A t \in Sems : t # s => blocked'[t] = blocked[t]
        /\ \A p \in Pcbs : p # Head(blocked[s]) => call'[p] = call[p]
    BY SidesPlaces DEF WakeHead
  <1>3. \A t \in Sems : Range(blocked'[t]) \subseteq Range(blocked[t])
                        /\ Head(blocked[s]) \notin Range(blocked'[t])
    BY <1>1, <1>2, SidesPlaces
  <1> QED
    BY <1>2, <1>3, SidesStay, SidesPlaces, SoftApart

(* The value of a semaphore changes only while nobody waits on it.         *)
LEMMA ValueSides ==
  ASSUME SidesInv, NEW s \in Sems, s \in USems => blocked[s] = <<>>,
         UNCHANGED <<blocked, call>>,
         \A t \in Sems : t # s => sem'[t] = sem[t]
  PROVE  SemaphoreSides'
  <1>1. s \in USems => Range(blocked[s]) = {}
    BY SidesPlaces, EmptyRange
  <1> QED
    BY <1>1, SoftApart DEF SidesInv, SemaphoreSides

LEMMA PasserenSides ==
  ASSUME SidesInv, NEW s \in USems, passeren(s)
  PROVE  SemaphoreSides'
  <1>1. s \in Sems /\ Running
    BY SoftApart DEF passeren
  <1>2. CASE sem[s] = 0 /\ BlockCurrent(s, "passeren") /\ UNCHANGED sem
    BY <1>1, <1>2, BlockSides
  <1>3. CASE blocked[s] # <<>> /\ WakeHead(s) /\ UNCHANGED sem
    BY <1>1, <1>3, WakeSides
  <1>4. CASE blocked[s] = <<>> /\ sem' = [sem EXCEPT ![s] = Minus(@, 1)]
             /\ UNCHANGED <<blocked, call>>
    BY <1>1, <1>4, SidesPlaces, ValueSides
  <1> QED
    BY <1>2, <1>3, <1>4 DEF passeren

LEMMA VerhogenSides ==
  ASSUME SidesInv, NEW s \in USems, verhogen(s)
  PROVE  SemaphoreSides'
  <1>1. s \in Sems /\ Running
    BY SoftApart DEF verhogen
  <1>2. CASE sem[s] = 1 /\ BlockCurrent(s, "verhogen") /\ UNCHANGED sem
    BY <1>1, <1>2, BlockSides
  <1>3. CASE blocked[s] # <<>> /\ WakeHead(s) /\ UNCHANGED sem
    BY <1>1, <1>3, WakeSides
  <1>4. CASE blocked[s] = <<>> /\ sem' = [sem EXCEPT ![s] = Plus(@, 1)]
             /\ UNCHANGED <<blocked, call>>
    BY <1>1, <1>4, SidesPlaces, ValueSides
  <1> QED
    BY <1>2, <1>3, <1>4 DEF verhogen

LEMMA PSides ==
  ASSUME SidesInv, Running, NEW s \in SoftSems, NEW c, PThenSchedule(s, c)
  PROVE  SemaphoreSides'
  <1>1. s \in Sems /\ s \notin USems
    BY SoftApart
  <1>2. CASE BlockCurrent(s, c) /\ UNCHANGED sem
    BY <1>1, <1>2, BlockSides
  <1>3. CASE sem' = [sem EXCEPT ![s] = 0] /\ UNCHANGED <<blocked, call>>
    BY <1>1, <1>3, SidesPlaces, ValueSides
  <1> QED
    BY <1>2, <1>3 DEF PThenSchedule

LEMMA TerminateSides ==
  ASSUME SidesInv, NEW p, terminateProcess(p)
  PROVE  SemaphoreSides'
  <1>1. PICK dead :
          /\ blocked' = [s \in Sems |-> Without(blocked[s], dead)]
          /\ call' = [q \in Pcbs |-> IF q \in dead THEN "none" ELSE call[q]]
          /\ UNCHANGED sem
    BY DEF terminateProcess
  <1>2. \A s \in Sems : Range(blocked'[s]) = Range(blocked[s]) \ dead
    BY <1>1, WithoutRange, SidesPlaces
  <1> QED
    BY <1>1, <1>2, SidesPlaces, SoftApart, SidesStay

(* An interrupt wakes nobody who waits on a semaphore of the programs.     *)
LEMMA InterruptSides ==
  ASSUME SidesInv, NEW plt \in BOOLEAN, NEW it \in BOOLEAN, interruptHandler(plt, it)
  PROVE  SemaphoreSides'
  <1>1. /\ blocked' = LeftBlocked(it)
        /\ call' = [p \in Pcbs |-> IF p \in Range(Awakened(it)) THEN "none" ELSE call[p]]
        /\ \A s \in Sems : s \notin AwakenedAt(it) => sem'[s] = sem[s]
    BY DEF interruptHandler, Awakened, LeftBlocked, AwakenedAt
  <1>2. \A s \in USems : s \in Sems /\ s \notin AwakenedAt(it)
    BY AwakenedSoft, SoftApart
  <1>3. \A s \in USems : Range(blocked'[s]) = Range(blocked[s]) \ Range(Awakened(it))
    BY <1>1, <1>2, LeftFacts DEF SidesInv
  <1>4. \A s \in USems : \A p \in Range(blocked'[s]) : call'[p] = call[p]
    BY <1>1, <1>2, <1>3, SidesPlaces
  <1> QED
    BY <1>1, <1>2, <1>3, <1>4, SidesStay

LEMMA InitSides == Init => SidesInv
  <1> SUFFICES ASSUME Init PROVE SidesInv
    OBVIOUS
  <1>1. IInv
    BY InitInv
  <1>2. \A s \in USems : Range(blocked[s]) = {}
    BY <1>1, EmptyRange, SoftApart DEF Init, Boot, IInv, TypeOK
  <1> QED
    BY <1>1, <1>2 DEF SidesInv, SemaphoreSides

LEMMA NextSides == SidesInv /\ [NextAny]_vars => SidesInv'
  <1> SUFFICES ASSUME SidesInv, [NextAny]_vars PROVE SidesInv'
    OBVIOUS
  <1>1. IInv'
    BY NextInv DEF SidesInv
  <1>2. CASE \E s \in USems : passeren(s) \/ verhogen(s)
    BY <1>1, <1>2, PasserenSides, VerhogenSides DEF SidesInv
  <1>3. CASE \E r \in Installed : Running /\ PThenSchedule(r, "doIO")
    BY <1>1, <1>3, PSides, NucleusAssumption DEF SidesInv, SoftSems
  <1>4. CASE clockWait
    BY <1>1, <1>4, PSides DEF SidesInv, SoftSems, clockWait
  <1>5. CASE TermSelf \/ passUpOrDie \/ \E p \in Pcbs : TermOther(p)
    BY <1>1, <1>5, TerminateSides DEF SidesInv, TermSelf, passUpOrDie, TermOther
  <1>6. CASE Interrupt
    BY <1>1, <1>6, InterruptSides DEF SidesInv, Interrupt
  <1>7. CASE UNCHANGED <<blocked, sem, call>>
    BY <1>1, <1>7, SidesStay DEF SidesInv
  <1>8. \/ \E s \in USems : passeren(s) \/ verhogen(s)
        \/ \E r \in Installed : Running /\ PThenSchedule(r, "doIO")
        \/ clockWait \/ TermSelf \/ passUpOrDie \/ \E p \in Pcbs : TermOther(p)
        \/ Interrupt
        \/ UNCHANGED <<blocked, sem, call>>
    BY DEF NextAny, Next, Syscall, createProcess, doIO, TermUnknown, DeviceDone, vars
  <1> QED
    BY <1>2, <1>3, <1>4, <1>5, <1>6, <1>7, <1>8

(* P and V, both of which may block and both of which may wake, never mix  *)
(* the two kinds of waiters in one queue, nor let anybody wait for what    *)
(* the semaphore has, whatever terminations and interrupts come between.   *)
THEOREM SemaphoreSidesAlways == Spec => []SemaphoreSides
  <1>1. [Next]_vars => [NextAny]_vars
    BY DEF NextAny
  <1>2. SidesInv => SemaphoreSides
    BY DEF SidesInv
  <1> QED
    BY InitSides, NextSides, <1>1, <1>2, PTL DEF Spec

-----------------------------------------------------------------------------
(* Who is forgotten.                                                       *)

(* The processes which have something, or wait for something.              *)
Attended == {current} \cup Range(ready) \cup Blocked

LEMMA ScheduleKeeps ==
  ASSUME NEW q \in Seq(Pcbs), NoRepeats(q), NEW n, NEW k, schedule(q, n, k)
  PROVE  Range(q) \subseteq {current'} \cup Range(ready')
  <1>1. q # <<>> => Range(Tail(q)) = Range(q) \ {Head(q)}
    BY TailFacts
  <1> QED
    BY <1>1 DEF schedule

LEMMA CreateKeeps ==
  ASSUME IInv, NEW new \in Pcbs, createProcess(new)
  PROVE  Attended \cup {new} \subseteq Attended'
  <1>1. <<new>> \in Seq(Pcbs) /\ Range(<<new>>) = {new}
    BY SingleFacts
  <1>2. Range(ready') = Range(ready) \cup {new}
    <2>1. ready \in Seq(Pcbs)
      BY Placement
    <2>2. Range(Enqueue(ready, <<new>>)) = Range(ready) \cup Range(<<new>>)
      BY <1>1, <2>1, EnqueueRange
    <2> QED
      BY <1>1, <2>2 DEF createProcess
  <1> QED
    BY <1>2, Placement DEF Attended, createProcess

LEMMA BlockKeeps ==
  ASSUME IInv, Running, NEW s \in Sems, NEW c, BlockCurrent(s, c),
         NEW n, NEW k, schedule(ready, n, k)
  PROVE  Attended \subseteq Attended'
  <1>1. Range(ready) \subseteq {current'} \cup Range(ready')
    BY Placement, ScheduleKeeps
  <1>2. current \in Pcbs /\ blocked \in [Sems -> Seq(Pcbs)]
    BY RunningCurrent DEF Placed
  <1>3. Range(Append(blocked[s], current)) = Range(blocked[s]) \cup {current}
    BY <1>2, AppendFacts
  <1>4. \A t \in Sems :
          blocked'[t] = IF t = s THEN Append(blocked[s], current) ELSE blocked[t]
    BY <1>2 DEF BlockCurrent
  <1>5. Blocked \cup {current} \subseteq Blocked'
    BY <1>2, <1>3, <1>4, Placement
  <1> QED
    BY <1>1, <1>5 DEF Attended

LEMMA WakeKeeps ==
  ASSUME IInv, NEW s \in Sems, blocked[s] # <<>>, WakeHead(s)
  PROVE  Attended \subseteq Attended'
  <1>1. /\ Head(blocked[s]) \in Range(blocked[s]) /\ Head(blocked[s]) \in Pcbs
        /\ Range(Tail(blocked[s])) = Range(blocked[s]) \ {Head(blocked[s])}
    BY Placement, TailFacts, RangeType
  <1>2. <<Head(blocked[s])>> \in Seq(Pcbs)
        /\ Range(<<Head(blocked[s])>>) = {Head(blocked[s])}
    BY <1>1, SingleFacts
  <1>3. Range(ready') = Range(ready) \cup {Head(blocked[s])} /\ current' = current
    <2>1. ready' = Enqueue(ready, <<Head(blocked[s])>>) /\ current' = current
      BY DEF WakeHead, resume
    <2>2. Range(Enqueue(ready, <<Head(blocked[s])>>)) = Range(ready) \cup {Head(blocked[s])}
      BY <1>2, Placement, EnqueueRange
    <2> QED
      BY <2>1, <2>2
  <1>4. \A t \in Sems : blocked'[t] = IF t = s THEN Tail(blocked[s]) ELSE blocked[t]
    BY DEF WakeHead, IInv, TypeOK
  <1>5. Blocked \subseteq Blocked' \cup {Head(blocked[s])}
    BY <1>1, <1>4, Placement
  <1> QED
    BY <1>3, <1>5 DEF Attended

LEMMA StayKeeps ==
  ASSUME IInv, UNCHANGED <<ready, current, blocked>>
  PROVE  Attended \subseteq Attended'
  BY Placement DEF Attended

LEMMA SemKeeps ==
  ASSUME IInv, NEW s \in USems, passeren(s) \/ verhogen(s)
  PROVE  Attended \subseteq Attended'
  <1>1. s \in Sems /\ Running
    BY SoftApart DEF passeren, verhogen
  <1>2. CASE (\E c : BlockCurrent(s, c)) /\ schedule(ready, process_count, soft_block_count)
    BY <1>1, <1>2, BlockKeeps
  <1>3. CASE blocked[s] # <<>> /\ WakeHead(s)
    BY <1>1, <1>3, WakeKeeps
  <1>4. CASE resume(ready) /\ UNCHANGED <<blocked, call>>
    BY <1>4, StayKeeps DEF resume
  <1> QED
    BY <1>2, <1>3, <1>4 DEF passeren, verhogen

(* The caller of schedule() which is in no queue.                          *)
LEMMA ForgetKeeps ==
  ASSUME IInv, NEW n, NEW k, schedule(ready, n, k), UNCHANGED blocked
  PROVE  Attended \subseteq Attended' \cup {current}
  <1>1. Range(ready) \subseteq {current'} \cup Range(ready')
    BY Placement, ScheduleKeeps
  <1> QED
    BY <1>1, Placement DEF Attended

LEMMA PKeeps ==
  ASSUME IInv, Running, NEW s \in SoftSems, NEW c, PThenSchedule(s, c)
  PROVE  Attended \subseteq Attended' \cup {p \in {current} : sem[s] = 1}
  <1>1. s \in Sems /\ sem[s] \in {0, 1}
    BY SoftApart DEF IInv, TypeOK
  <1>2. CASE BlockCurrent(s, c)
             /\ schedule(ready, process_count, Plus(soft_block_count, 1))
    BY <1>1, <1>2, BlockKeeps
  <1>3. CASE sem[s] > 0 /\ schedule(ready, process_count, soft_block_count)
             /\ UNCHANGED <<blocked, call>>
    BY <1>1, <1>3, ForgetKeeps
  <1> QED
    BY <1>2, <1>3 DEF PThenSchedule

LEMMA DoIOKeeps ==
  ASSUME IInv, NEW r \in Regs, doIO(r)
  PROVE  Attended \subseteq Attended' \cup {p \in {current} : r \in Installed => sem[r] = 1}
  <1>1. r \in SoftSems /\ Running
    BY DEF SoftSems, doIO
  <1>2. CASE r \in Installed /\ PThenSchedule(r, "doIO")
    BY <1>1, <1>2, PKeeps
  <1>3. CASE r \notin Installed /\ schedule(ready, process_count, soft_block_count)
             /\ UNCHANGED <<device, blocked, sem, call>>
    BY <1>3, ForgetKeeps
  <1> QED
    BY <1>2, <1>3 DEF doIO

LEMMA TerminateKeeps ==
  ASSUME IInv, NEW d, terminateProcess(d)
  PROVE  Attended \subseteq Attended' \cup pcbFree' \cup {current}
  <1>1. PICK dead, n, k :
          /\ blocked' = [s \in Sems |-> Without(blocked[s], dead)]
          /\ schedule(Without(ready, dead), n, k)
          /\ pcbFree' = pcbFree \cup dead
    BY DEF terminateProcess
  <1>2. /\ Without(ready, dead) \in Seq(Pcbs) /\ NoRepeats(Without(ready, dead))
        /\ Range(Without(ready, dead)) = Range(ready) \ dead
    BY Placement, WithoutRange, WithoutNoRepeats
  <1>3. Range(ready) \ dead \subseteq {current'} \cup Range(ready')
    BY <1>1, <1>2, ScheduleKeeps
  <1>4. \A s \in Sems : Range(blocked'[s]) = Range(blocked[s]) \ dead
    BY <1>1, Placement, WithoutRange
  <1>5. Blocked \subseteq Blocked' \cup dead
    BY <1>4, Placement
  <1> QED
    BY <1>1, <1>3, <1>5 DEF Attended

(* Whoever is terminated is free.                                          *)
LEMMA DiesItself ==
  ASSUME NEW d \in Pcbs, terminateProcess(d)
  PROVE  d \in pcbFree'
  BY DEF terminateProcess, Progeny

LEMMA InterruptKeeps ==
  ASSUME IInv, NEW plt \in BOOLEAN, NEW it \in BOOLEAN, interruptHandler(plt, it)
  PROVE  Attended \subseteq Attended' \cup {NULL}
  <1> DEFINE woken == Awakened(it)
             q0 == IF plt THEN Enqueue(ready, <<current>>) ELSE ready
             queue == Enqueue(q0, woken)
  <1>1. /\ mode = "run" \/ (mode = "wait" /\ ~plt)
        /\ \/ (plt \/ current = NULL) /\ \E n, k : schedule(queue, n, k)
           \/ ~plt /\ ready' = queue /\ current' = current
        /\ blocked' = LeftBlocked(it)
    BY DEF interruptHandler, Awakened, LeftBlocked
  <1>2. woken \in Seq(Pcbs) /\ NoRepeats(woken)
    BY AwakenedWoken DEF Woken
  <1>3. \A s \in Sems : Range(blocked'[s]) = Range(blocked[s]) \ Range(woken)
    BY <1>1, LeftFacts
  <1> HIDE DEF woken
  <1>4. Blocked \subseteq Blocked' \cup Range(woken)
    BY <1>3, Placement
  <1>5. /\ q0 \in Seq(Pcbs) /\ NoRepeats(q0)
        /\ Range(q0) = Range(ready) \cup (IF plt THEN {current} ELSE {})
    <2>1. CASE plt
      BY <1>1, <2>1, QuantumQueue DEF IInv, PlaceInv
    <2>2. CASE ~plt
      BY <2>2, Placement
    <2> QED
      BY <2>1, <2>2
  <1> HIDE DEF q0
  <1>6. /\ queue \in Seq(Pcbs) /\ Range(queue) = Range(q0) \cup Range(woken)
        /\ NoRepeats(queue)
    BY <1>2, <1>5, EnqueueRange
  <1> HIDE DEF queue
  <1>7. Range(queue) \subseteq {current'} \cup Range(ready')
    BY <1>1, <1>6, ScheduleKeeps
  <1> QED
    BY <1>1, <1>4, <1>5, <1>6, <1>7 DEF Attended

(* There is never a V on the clock's semaphore to claim.                   *)
LEMMA NextClock == ClockInv /\ [NextAny]_vars => ClockInv'
  <1> SUFFICES ASSUME ClockInv, [NextAny]_vars PROVE ClockInv'
    OBVIOUS
  <1>1. IInv'
    BY NextInv DEF ClockInv
  <1>2. Clock \in Sems /\ Clock \notin USems /\ Clock \notin Regs /\ sem \in [Sems -> {0, 1}]
    BY NucleusAssumption DEF ClockInv, IInv, TypeOK, Sems, SoftSems
  <1>3. CASE \E s \in USems : passeren(s) \/ verhogen(s)
    BY <1>1, <1>2, <1>3 DEF passeren, verhogen, ClockInv
  <1>4. CASE \E r \in Regs : doIO(r)
    BY <1>1, <1>2, <1>4 DEF doIO, PThenSchedule, ClockInv
  <1>5. CASE clockWait
    BY <1>1, <1>2, <1>5 DEF clockWait, PThenSchedule, ClockInv
  <1>6. CASE Interrupt
    <2>1. Clock \notin AllServed
      BY ServedApart
    <2> QED
      BY <1>1, <1>2, <1>6, <2>1 DEF Interrupt, interruptHandler, ClockInv
  <1>7. CASE UNCHANGED sem
    BY <1>1, <1>7 DEF ClockInv
  <1>8. \/ \E s \in USems : passeren(s) \/ verhogen(s)
        \/ \E r \in Regs : doIO(r)
        \/ clockWait \/ Interrupt \/ UNCHANGED sem
    BY DEF NextAny, Next, Syscall, createProcess, TermSelf, TermOther, passUpOrDie,
           terminateProcess, TermUnknown, DeviceDone, vars
  <1> QED
    BY <1>1, <1>3, <1>4, <1>5, <1>6, <1>7, <1>8 DEF ClockInv

LEMMA InitClock == Init => ClockInv
  BY InitInv DEF Init, ClockInv, SoftSems

LEMMA NextKeeps ==
  ASSUME ClockInv, [Next]_vars
  PROVE  \A p \in Live \cap Attended :
           \/ p \in pcbFree' \/ p \in Attended'
           \/ p = current /\ \E r \in Regs : doIO(r) /\ (r \in Installed => sem[r] = 1)
           \/ p = current /\ \E q \in Pcbs : TermOther(q)
  <1> SUFFICES ASSUME NEW p \in Live \cap Attended
               PROVE  \/ p \in pcbFree' \/ p \in Attended'
                      \/ p = current
                         /\ \E r \in Regs : doIO(r) /\ (r \in Installed => sem[r] = 1)
                      \/ p = current /\ \E q \in Pcbs : TermOther(q)
    OBVIOUS
  <1>0. p # NULL
    BY NucleusAssumption DEF Live
  <1>1. CASE \E new \in Pcbs : createProcess(new)
    BY <1>1, CreateKeeps DEF ClockInv
  <1>2. CASE \E s \in USems : passeren(s) \/ verhogen(s)
    BY <1>2, SemKeeps DEF ClockInv
  <1>3. CASE \E r \in Regs : doIO(r)
    BY <1>3, DoIOKeeps DEF ClockInv
  <1>4. CASE clockWait
    BY <1>4, PKeeps DEF ClockInv, clockWait, SoftSems
  <1>5. CASE TermSelf \/ passUpOrDie
    <2>1. current \in Pcbs /\ terminateProcess(current)
      BY <1>5, RunningCurrent DEF TermSelf, passUpOrDie, ClockInv
    <2>2. current \in pcbFree'
      BY <2>1, DiesItself
    <2> QED
      BY <2>1, <2>2, TerminateKeeps DEF ClockInv
  <1>6. CASE \E q \in Pcbs : TermOther(q)
    BY <1>6, TerminateKeeps DEF TermOther, ClockInv
  <1>7. CASE Interrupt
    BY <1>0, <1>7, InterruptKeeps DEF Interrupt, ClockInv
  <1>8. CASE (\E r \in Regs : DeviceDone(r)) \/ UNCHANGED vars
    BY <1>8, StayKeeps DEF DeviceDone, vars, ClockInv
  <1> QED
    BY <1>1, <1>2, <1>3, <1>4, <1>5, <1>6, <1>7, <1>8 DEF Next, Syscall

(* Whatever the programs do, no wake-up, tick, time slice, P, V, wait for   *)
(* the clock or exception loses a process: only DOIO on a device which is  *)
(* missing or has an unclaimed V, and TERMPROCESS of another, lose their   *)
(* caller.                                                                 *)
THEOREM ForgottenOnlyByAlways == Spec => ForgottenOnlyBy
  <1>1. ClockInv /\ [Next]_vars =>
          [\A p \in Live :
             p \in {current} \cup Range(ready) \cup Blocked =>
               \/ p \notin Live' \/ p \in ({current} \cup Range(ready) \cup Blocked)'
               \/ p = current /\ \E r \in Regs : doIO(r) /\ (r \in Installed => sem[r] = 1)
               \/ p = current /\ \E q \in Pcbs : TermOther(q)]_vars
    BY NextKeeps DEF Attended, Live
  <1>2. ClockInv /\ [Next]_vars => ClockInv'
    BY NextClock DEF NextAny
  <1> QED
    BY InitClock, <1>1, <1>2, PTL DEF Spec, ForgottenOnlyBy

-----------------------------------------------------------------------------
(* Who waits for a device that does nothing.                               *)

(* Nobody enters the queue of a device but by DOIO.                        *)
LEMMA QueueOfDevice ==
  ASSUME IInv, [Next]_vars, NEW r \in Regs, Stranded(r)', ~Stranded(r)
  PROVE  device[r] = "done" /\ Len(blocked[r]) >= 2
  <1>1. /\ r \in Sems /\ r \notin USems /\ r # Clock
        /\ blocked \in [Sems -> Seq(Pcbs)] /\ blocked[r] \in Seq(Pcbs)
        /\ device \in [Regs -> {"ready", "busy", "done"}]
    BY NucleusAssumption DEF IInv, TypeOK, Sems, SoftSems
  <1>2. CASE \E s \in USems : passeren(s) \/ verhogen(s)
    BY <1>1, <1>2 DEF passeren, verhogen, BlockCurrent, WakeHead, Stranded
  <1>3. CASE \E t \in Regs : doIO(t)
    BY <1>1, <1>3 DEF doIO, PThenSchedule, BlockCurrent, Stranded
  <1>4. CASE clockWait
    BY <1>1, <1>4 DEF clockWait, PThenSchedule, BlockCurrent, Stranded
  <1>5. CASE \E p : terminateProcess(p)
    <2>1. UNCHANGED device /\ \E dead : blocked'[r] = Without(blocked[r], dead)
      BY <1>1, <1>5 DEF terminateProcess
    <2>2. blocked[r] = <<>> => blocked'[r] = <<>>
      BY <1>1, <2>1, EmptyRange, WithoutRange
    <2> QED
      BY <2>1, <2>2 DEF Stranded
  <1>6. CASE Interrupt
    <2>1. PICK it \in BOOLEAN : blocked' = LeftBlocked(it)
      BY <1>6 DEF Interrupt, interruptHandler, LeftBlocked
    <2>2. device'[r] = IF r \in AllServed THEN "ready" ELSE device[r]
      BY <1>6 DEF Interrupt, interruptHandler
    <2>3. blocked'[r] = IF r \in AllServed /\ blocked[r] # <<>>
                        THEN Tail(blocked[r]) ELSE blocked[r]
      BY <1>1, <2>1 DEF LeftBlocked
    <2>4. r \in AllServed /\ blocked[r] # <<>> /\ device[r] # "ready"
          /\ Tail(blocked[r]) # <<>>
      BY <2>2, <2>3 DEF Stranded
    <2>5. device[r] # "busy"
      BY <2>4 DEF AllServed, Served, ServedHalf, Pending
    <2>6. Len(blocked[r]) >= 2
      <3>1. Len(blocked[r]) \in Nat /\ Len(blocked[r]) # 0
        BY <1>1, <2>4, LenProperties, EmptySeq
      <3>2. Tail(blocked[r]) \in Seq(Pcbs) /\ Len(Tail(blocked[r])) = Len(blocked[r]) - 1
        BY <1>1, <2>4, HeadTailProperties
      <3>3. Len(Tail(blocked[r])) # 0
        BY <2>4, <3>2, EmptySeq
      <3> QED
        <4> DEFINE n == Len(blocked[r])
                   m == Len(Tail(blocked[r]))
        <4>1. n \in Nat /\ m = n - 1 /\ n # 0 /\ m # 0
          BY <3>1, <3>2, <3>3
        <4> HIDE DEF n, m
        <4>2. n >= 2
          BY <4>1
        <4> QED
          BY <4>2 DEF n
    <2> QED
      BY <1>1, <2>4, <2>5, <2>6
  <1>7. CASE \E t \in Regs : DeviceDone(t)
    BY <1>1, <1>7 DEF DeviceDone, Stranded
  <1>8. CASE UNCHANGED <<blocked, device>>
    BY <1>8 DEF Stranded
  <1> QED
    BY <1>2, <1>3, <1>4, <1>5, <1>6, <1>7, <1>8
       DEF Next, Syscall, createProcess, TermSelf, passUpOrDie, TermOther, vars

(* Whatever the programs do, a process comes to wait for a device that is  *)
(* doing nothing only behind a process whose operation has just ended.     *)
THEOREM StrandedOnlyByAlways == Spec => StrandedOnlyBy
  <1>1. IInv /\ [Next]_vars =>
          [\A r \in Regs : Stranded(r)' =>
             Stranded(r) \/ (device[r] = "done" /\ Len(blocked[r]) >= 2)]_vars
    BY QueueOfDevice
  <1>2. IInv /\ [Next]_vars => IInv'
    BY NextInv DEF NextAny
  <1> QED
    BY InitInv, <1>1, <1>2, PTL DEF Spec, StrandedOnlyBy

-----------------------------------------------------------------------------
(* Programs which share the devices with care, as those of the phase 2     *)
(* test do: they use installed devices and one half of a terminal, in      *)
(* turns, and terminate nobody who waits for a device, nor anybody but     *)
(* themselves and their ancestors.                                         *)

TakesCare ==
  /\ CarefulIO /\ Regs = Installed /\ "other" \notin KillScope
  /\ \A r, t \in Regs :
       Line(r) = 7 /\ Line(t) = 7 /\ Terminal(r) = Terminal(t) => r = t

(* What schedule() decided on when it found the ready queue empty.         *)
Decided ==
  /\ mode = "halt" => process_count = 0
  /\ mode = "wait" => process_count # 0 /\ soft_block_count > 0
  /\ mode = "panic" => process_count # 0 /\ ~(soft_block_count > 0)
  /\ mode # "run" => ready = <<>>

NoUnclaimedV == \A r \in Regs : sem[r] = 0

IOInv == ClockInv /\ TakesCare /\ IOUnderWay /\ NoUnclaimedV
CareInv == CountInv /\ IOInv /\ NobodyLost /\ Decided

LEMMA IOFacts ==
  ASSUME IOInv
  PROVE  /\ IInv /\ blocked \in [Sems -> Seq(Pcbs)] /\ sem \in [Sems -> {0, 1}]
         /\ device \in [Regs -> {"ready", "busy", "done"}]
         /\ \A r \in Regs : r \in Sems /\ r \notin USems /\ r # Clock
         /\ \A r \in Regs :
              /\ blocked[r] # <<>> => Len(blocked[r]) = 1 /\ device[r] # "ready"
              /\ device[r] # "ready" => blocked[r] # <<>>
              /\ sem[r] = 0
         /\ TakesCare /\ \A r \in Installed : r \in Regs
  BY NucleusAssumption
     DEF IOInv, ClockInv, IInv, TypeOK, Sems, SoftSems, IOUnderWay, NoUnclaimedV, TakesCare

(* What follows from facts about the queues and devices afterwards.        *)
LEMMA IOPrime ==
  ASSUME \A r \in Regs :
           /\ blocked'[r] # <<>> => Len(blocked'[r]) = 1 /\ device'[r] # "ready"
           /\ device'[r] # "ready" => blocked'[r] # <<>>
           /\ sem'[r] = 0
  PROVE  IOUnderWay' /\ NoUnclaimedV'
  BY DEF IOUnderWay, NoUnclaimedV

LEMMA DoIOTurn ==
  ASSUME IOInv, NEW r \in Regs, MayDoIO(r), doIO(r)
  PROVE  IOUnderWay' /\ NoUnclaimedV'
  <1>1. /\ r \in Sems /\ sem[r] = 0 /\ blocked[r] = <<>> /\ r \in Installed
        /\ current \in Pcbs
    BY IOFacts, RunningCurrent DEF MayDoIO, doIO, TakesCare
  <1>2. /\ BlockCurrent(r, "doIO") /\ UNCHANGED sem
        /\ device' = [device EXCEPT ![r] = "busy"]
    BY <1>1 DEF doIO, PThenSchedule
  <1>3. Append(<<>>, current) # <<>> /\ Len(Append(<<>>, current)) = 1
    BY <1>1
  <1>4. \A t \in Regs :
          /\ blocked'[t] = IF t = r THEN Append(<<>>, current) ELSE blocked[t]
          /\ device'[t] = IF t = r THEN "busy" ELSE device[t]
    BY <1>1, <1>2, IOFacts DEF BlockCurrent
  <1> QED
    BY <1>2, <1>3, <1>4, IOFacts, IOPrime

(* Nobody is taken out of the queue of a device.                           *)
LEMMA TerminateTurn ==
  ASSUME IOInv, NEW d, MayKill(d), terminateProcess(d)
  PROVE  IOUnderWay' /\ NoUnclaimedV'
  <1> DEFINE dead == Progeny(d)
  <1>1. /\ blocked' = [s \in Sems |-> Without(blocked[s], dead)]
        /\ UNCHANGED <<sem, device>>
    BY DEF terminateProcess
  <1>2. \A r \in Regs : dead \cap Range(blocked[r]) = {}
    BY IOFacts DEF MayKill, TakesCare
  <1> HIDE DEF dead
  <1>3. ASSUME NEW r \in Regs
        PROVE  Len(blocked'[r]) = Len(blocked[r]) /\ (blocked'[r] = <<>> <=> blocked[r] = <<>>)
    <2>1. /\ blocked[r] \in Seq(Pcbs) /\ NoRepeats(blocked[r])
          /\ blocked'[r] = Without(blocked[r], dead)
      BY <1>1, IOFacts, Placement
    <2>2. blocked'[r] \in Seq(Pcbs) /\ NoRepeats(blocked'[r])
          /\ Range(blocked'[r]) = Range(blocked[r])
      <3>1. /\ Without(blocked[r], dead) \in Seq(Pcbs)
            /\ Range(Without(blocked[r], dead)) = Range(blocked[r]) \ dead
            /\ NoRepeats(Without(blocked[r], dead))
        BY <2>1, WithoutRange, WithoutNoRepeats
      <3> QED
        BY <1>2, <2>1, <3>1
    <2> QED
      BY <2>1, <2>2, CountSeq, EmptyRange
  <1> QED
    BY <1>1, <1>3, IOFacts, IOPrime

(* An interrupt serves devices which are done, each of which has one       *)
(* process waiting for it.                                                 *)
LEMMA InterruptTurn ==
  ASSUME IOInv, NEW plt \in BOOLEAN, NEW it \in BOOLEAN, interruptHandler(plt, it)
  PROVE  IOUnderWay' /\ NoUnclaimedV'
  <1>1. \A r \in AllServed : r \in Regs /\ device[r] = "done"
    <2>1. Pending \subseteq Regs /\ \A r \in Pending : device[r] = "done"
      BY DEF Pending
    <2>2. \A n : Served(n) \subseteq Pending /\ \A t \in Served(n) : Line(t) = n
      BY DEF Served
    <2>3. \A h : ServedHalf(h) \subseteq Served(7)
      BY <2>1, <2>2, IOFacts DEF ServedHalf, TakesCare
    <2> QED
      BY <2>1, <2>2, <2>3 DEF AllServed
  <1>2. \A r \in Regs :
          /\ blocked'[r] = IF r \in AllServed /\ blocked[r] # <<>>
                           THEN Tail(blocked[r]) ELSE blocked[r]
          /\ sem'[r] = IF r \in AllServed /\ blocked[r] = <<>> THEN 1 ELSE sem[r]
          /\ device'[r] = IF r \in AllServed THEN "ready" ELSE device[r]
    BY IOFacts DEF interruptHandler
  <1>3. ASSUME NEW r \in Regs, r \in AllServed
        PROVE  blocked'[r] = <<>> /\ sem'[r] = 0 /\ device'[r] = "ready"
    <2>1. blocked[r] # <<>> /\ Len(blocked[r]) = 1 /\ blocked[r] \in Seq(Pcbs)
      BY <1>1, <1>3, IOFacts
    <2>2. Tail(blocked[r]) \in Seq(Pcbs) /\ Len(Tail(blocked[r])) = 0
      BY <2>1, HeadTailProperties
    <2>3. Tail(blocked[r]) = <<>>
      BY <2>2, EmptySeq
    <2> QED
      BY <1>2, <1>3, <2>1, <2>3, IOFacts
  <1>4. ASSUME NEW r \in Regs, r \notin AllServed
        PROVE  blocked'[r] = blocked[r] /\ sem'[r] = sem[r] /\ device'[r] = device[r]
    BY <1>2, <1>4
  <1> QED
    BY <1>3, <1>4, IOFacts, IOPrime

(* Everything else leaves the devices and their queues alone.              *)
LEMMA OthersTurn ==
  ASSUME IOInv,
         \A r \in Regs : /\ blocked'[r] = blocked[r] /\ sem'[r] = sem[r]
                         /\ device'[r] = device[r] \/ (device[r] = "busy" /\ device'[r] = "done")
  PROVE  IOUnderWay' /\ NoUnclaimedV'
  BY IOFacts, IOPrime

LEMMA NextTurn ==
  ASSUME IOInv, [Next]_vars
  PROVE  IOInv'
  <1>1. ClockInv' /\ TakesCare'
    BY NextClock DEF IOInv, NextAny, TakesCare, Line, Terminal
  <1>2. CASE \E s \in USems : passeren(s) \/ verhogen(s)
    BY <1>1, <1>2, IOFacts, OthersTurn
       DEF IOInv, passeren, verhogen, BlockCurrent, WakeHead
  <1>3. CASE \E r \in Regs : MayDoIO(r) /\ doIO(r)
    BY <1>1, <1>3, DoIOTurn DEF IOInv
  <1>4. CASE clockWait
    BY <1>1, <1>4, IOFacts, OthersTurn DEF IOInv, clockWait, PThenSchedule, BlockCurrent
  <1>5. CASE \E p : MayKill(p) /\ terminateProcess(p)
    BY <1>1, <1>5, TerminateTurn DEF IOInv
  <1>6. CASE Interrupt
    BY <1>1, <1>6, InterruptTurn DEF IOInv, Interrupt
  <1>7. CASE \E r \in Regs : DeviceDone(r)
    BY <1>1, <1>7, IOFacts, OthersTurn DEF IOInv, DeviceDone
  <1>8. CASE UNCHANGED <<blocked, sem, device>>
    BY <1>1, <1>8, OthersTurn DEF IOInv
  <1> QED
    BY <1>2, <1>3, <1>4, <1>5, <1>6, <1>7, <1>8
       DEF Next, Syscall, createProcess, TermSelf, passUpOrDie, TermOther, vars

(* Nobody is forgotten: the calls that could forget their caller block it  *)
(* or are not made.                                                        *)
LEMMA NextAttends ==
  ASSUME IOInv, NobodyLost, [Next]_vars
  PROVE  NobodyLost'
  <1>0. Live \subseteq Attended /\ NULL \notin Live /\ ClockInv /\ IInv
        /\ (Live' \subseteq Attended' => NobodyLost')
    BY NucleusAssumption DEF NobodyLost, Attended, Live, IOInv, ClockInv
  <1>1. CASE \E p \in Pcbs : createProcess(p)
    BY <1>0, <1>1, CreateKeeps DEF createProcess, Live
  <1>2. CASE (\E r \in Regs : doIO(r)) /\ Live' = Live
    BY <1>0, <1>2, DoIOKeeps, IOFacts DEF TakesCare
  <1>3. CASE \E p : /\ terminateProcess(p) /\ current \in Progeny(p)
    <2>1. current \in pcbFree' /\ Live' \subseteq Live /\ Live' \cap pcbFree' = {}
      BY <1>3 DEF terminateProcess, Live
    <2> QED
      BY <1>0, <1>3, <2>1, TerminateKeeps
  <1>4. CASE /\ ~ \E r \in Regs : doIO(r)
             /\ ~ \E p \in Pcbs : TermOther(p)
             /\ Live' = Live
    <2>1. Live \cap pcbFree' = {}
      BY <1>4 DEF Live
    <2> QED
      BY <1>0, <1>4, <2>1, NextKeeps
  <1>5. CASE TermSelf \/ passUpOrDie
    <2>1. terminateProcess(current) /\ current \in Pcbs
      BY <1>0, <1>5, RunningCurrent DEF TermSelf, passUpOrDie
    <2> QED
      BY <1>3, <2>1 DEF Progeny
  <1>6. CASE \E p \in Pcbs : InScope(p) /\ TermOther(p)
    BY <1>3, <1>6, IOFacts DEF InScope, TakesCare, TermOther
  <1>7. CASE UNCHANGED procs
    <2>1. Live' = Live
      BY <1>7 DEF procs, Live
    <2>2. ASSUME NEW p \in Pcbs, TermOther(p)
          PROVE  FALSE
      <3>1. p \in Live /\ p \in pcbFree'
        BY <1>0, <2>2, DiesItself, Placement, RangeType
           DEF TermOther, Placed, Live
      <3> QED
        BY <2>1, <3>1 DEF Live
    <2> QED
      BY <1>2, <1>4, <2>1, <2>2
  <1> QED
    BY <1>1, <1>5, <1>6, <1>7
       DEF Next, Syscall, passeren, verhogen, doIO, clockWait, Interrupt,
           interruptHandler, DeviceDone, vars, procs

-----------------------------------------------------------------------------
(* The verdict of the scheduler.                                           *)

LEMMA ScheduleDecides ==
  ASSUME NEW q, NEW n, NEW k, schedule(q, n, k)
  PROVE  Decided'
  BY DEF schedule, Decided

LEMMA NextDecides ==
  ASSUME IInv, Decided, [NextAny]_vars
  PROVE  Decided'
  <1>1. CASE \E q, n, k : schedule(q, n, k)
    BY <1>1, ScheduleDecides
  <1>2. CASE mode = "run" /\ mode' = mode
    BY <1>2 DEF Decided
  <1>3. CASE UNCHANGED <<ready, mode, process_count, soft_block_count>>
    BY <1>3 DEF Decided
  <1>4. CASE Interrupt
    BY <1>1, <1>2, <1>4 DEF Interrupt, interruptHandler, IInv, PlaceInv
  <1>5. CASE Syscall \/ TermUnknown
    <2>1. mode = "run"
      BY <1>5 DEF Syscall, TermUnknown, createProcess, passeren, verhogen, doIO,
                  clockWait, TermSelf, passUpOrDie, TermOther, Running
    <2> QED
      BY <1>1, <1>2, <1>5, <2>1
         DEF Syscall, TermUnknown, createProcess, passeren, verhogen, doIO, clockWait,
             PThenSchedule, WakeHead, resume, TermSelf, passUpOrDie, TermOther,
             terminateProcess
  <1> QED
    BY <1>3, <1>4, <1>5 DEF NextAny, Next, DeviceDone, vars

LEMMA InitCare == TakesCare /\ Init => CareInv
  <1> SUFFICES ASSUME TakesCare, Init PROVE CareInv
    OBVIOUS
  <1>1. CountInv /\ ClockInv
    BY InitCount, InitClock
  <1>2. IOUnderWay /\ NoUnclaimedV
    BY DEF Init, Boot, IOUnderWay, NoUnclaimedV, Sems, SoftSems
  <1>3. NobodyLost /\ Decided
    BY DEF Init, Boot, NobodyLost, Live, Decided
  <1> QED
    BY <1>1, <1>2, <1>3 DEF CareInv, IOInv

LEMMA NextCare == CareInv /\ [Next]_vars => CareInv'
  BY NextCount, NextTurn, NextAttends, NextDecides DEF CareInv, IOInv, ClockInv, NextAny

LEMMA CareVerdict == CareInv => Verdict
  <1> SUFFICES ASSUME CareInv PROVE Verdict
    OBVIOUS
  <1>1. /\ process_count = Cardinality(Live) /\ IsFiniteSet(Live)
        /\ soft_block_count = Cardinality(SoftBlocked) /\ IsFiniteSet(SoftBlocked)
    BY CountType DEF CareInv, CountInv, Accounting, Live, SoftBlocked
  <1>2. \A p \in Blocked : p \in Live
    BY DEF CareInv, IOInv, ClockInv, IInv, PlaceInv, Placed, Blocked, WaitsOn, Live
  <1>3. SoftBlocked \subseteq Blocked
    BY DEF SoftBlocked, Blocked
  <1>4. mode = "halt" => Live = {}
    BY <1>1, FS_EmptySet DEF CareInv, Decided
  <1>5. ASSUME mode = "wait"
        PROVE  \E p \in Live : \/ p \in Range(blocked[Clock])
                               \/ \E r \in Regs : /\ p \in Range(blocked[r])
                                                 /\ device[r] \in {"busy", "done"}
    <2>1. SoftBlocked # {}
      BY <1>1, <1>5, FS_EmptySet DEF CareInv, Decided
    <2>2. PICK p \in SoftBlocked, s \in SoftSems : p \in Range(blocked[s])
      BY <2>1 DEF SoftBlocked, WaitsOn
    <2>3. p \in Live
      BY <1>2, <1>3
    <2>4. CASE s \in Regs
      <3>1. blocked[s] # <<>>
        BY <2>2, <2>4, IOFacts, EmptyRange DEF CareInv
      <3>2. device[s] \in {"busy", "done"}
        BY <2>4, <3>1, IOFacts DEF CareInv
      <3> QED
        BY <2>2, <2>3, <2>4, <3>2
    <2> QED
      BY <2>2, <2>3, <2>4 DEF SoftSems
  <1>6. ASSUME mode = "panic"
        PROVE  Live # {} /\ \A p \in Live : \E s \in USems : p \in Range(blocked[s])
    <2>1. Live # {} /\ SoftBlocked = {}
      BY <1>1, <1>6, FS_EmptySet, FS_CardinalityType DEF CareInv, Decided
    <2>2. current = NULL /\ Range(ready) = {}
      BY <1>6, EmptyRange
         DEF CareInv, Decided, IOInv, ClockInv, IInv, TypeOK, PlaceInv
    <2>3. \A p \in Live : p \in Blocked
      BY <2>2, NucleusAssumption DEF CareInv, NobodyLost, Live
    <2> QED
      BY <2>1, <2>3 DEF Blocked, SoftBlocked, WaitsOn, Sems
  <1> QED
    BY <1>4, <1>5, <1>6 DEF Verdict

(* Of programs which share the devices with care, none is ever forgotten.  *)
THEOREM NobodyLostAlways == TakesCare => (Spec => []NobodyLost)
  <1>1. CareInv => NobodyLost
    BY DEF CareInv
  <1> QED
    BY InitCare, NextCare, <1>1, PTL DEF Spec

(* Whoever of them waits for a device has an operation under way there,    *)
(* and nobody else has.                                                    *)
THEOREM IOUnderWayAlways == TakesCare => (Spec => []IOUnderWay)
  <1>1. CareInv => IOUnderWay
    BY DEF CareInv, IOInv
  <1> QED
    BY InitCare, NextCare, <1>1, PTL DEF Spec

(* When the ready queue of such programs is empty, the scheduler halts     *)
(* only when nobody is left, waits only when an interrupt will come that   *)
(* readies somebody, and panics only when everybody waits for another      *)
(* process: it detects exactly the deadlocks.                              *)
THEOREM VerdictAlways == TakesCare => (Spec => []Verdict)
  BY InitCare, NextCare, CareVerdict, PTL DEF Spec

-----------------------------------------------------------------------------
(* The life of a process.                                                  *)

(* Life says where a process is.                                           *)
Stages ==
  \A p \in Pcbs :
    /\ Life(p) \in {"free", "running", "ready", "blocked"}
    /\ Life(p) = "free" <=> p \in pcbFree
    /\ Life(p) = "running" <=> p = current
    /\ Life(p) = "ready" <=> p \in Range(ready)
    /\ Life(p) = "blocked" <=> p \in Blocked

LEMMA StagesRight == IInv /\ NobodyLost => Stages
  <1> SUFFICES ASSUME IInv, NobodyLost, NEW p \in Pcbs
               PROVE  /\ Life(p) \in {"free", "running", "ready", "blocked"}
                      /\ Life(p) = "free" <=> p \in pcbFree
                      /\ Life(p) = "running" <=> p = current
                      /\ Life(p) = "ready" <=> p \in Range(ready)
                      /\ Life(p) = "blocked" <=> p \in Blocked
    BY DEF Stages
  <1>1. /\ p \in Blocked => p \notin pcbFree /\ p # current /\ p \notin Range(ready)
        /\ p \in Range(ready) => p \notin pcbFree /\ p # current
        /\ p = current => p \notin pcbFree
    BY Placement DEF Placed
  <1>2. p \in pcbFree \/ p = current \/ p \in Range(ready) \/ p \in Blocked
    BY DEF NobodyLost, Live
  <1> QED
    BY <1>1, <1>2 DEF Life

(* Only the current process blocks.                                        *)
LEMMA NextBlocks ==
  ASSUME IInv, [Next]_vars
  PROVE  Blocked' \subseteq Blocked \cup {current}
  <1>0. blocked \in [Sems -> Seq(Pcbs)]
    BY DEF IInv, TypeOK
  <1>1. CASE \E s \in Sems : \E c : Running /\ BlockCurrent(s, c)
    <2>1. PICK s \in Sems : Running /\ blocked' = [blocked EXCEPT ![s] = Append(@, current)]
      BY <1>1 DEF BlockCurrent
    <2>2. current \in Pcbs
      BY <2>1, RunningCurrent
    <2>3. Range(Append(blocked[s], current)) = Range(blocked[s]) \cup {current}
      BY <1>0, <2>2, AppendFacts
    <2> QED
      BY <1>0, <2>1, <2>3, Placement
  <1>2. CASE \E s \in Sems : blocked[s] # <<>> /\ WakeHead(s)
    <2>1. PICK s \in Sems : blocked[s] # <<>> /\ blocked' = [blocked EXCEPT ![s] = Tail(@)]
      BY <1>2 DEF WakeHead
    <2>2. Range(Tail(blocked[s])) \subseteq Range(blocked[s])
      BY <2>1, Placement, TailFacts
    <2> QED
      BY <1>0, <2>1, <2>2, Placement
  <1>3. CASE UNCHANGED blocked
    BY <1>3, Placement
  <1>4. CASE \E p : terminateProcess(p)
    <2>1. PICK dead : blocked' = [s \in Sems |-> Without(blocked[s], dead)]
      BY <1>4 DEF terminateProcess
    <2>2. \A s \in Sems : Range(blocked'[s]) \subseteq Range(blocked[s])
      BY <1>0, <2>1, WithoutRange
    <2> QED
      BY <2>2, Placement
  <1>5. CASE Interrupt
    <2>1. PICK it \in BOOLEAN : blocked' = LeftBlocked(it)
      BY <1>5 DEF Interrupt, interruptHandler, LeftBlocked
    <2>2. \A s \in Sems : Range(blocked'[s]) \subseteq Range(blocked[s])
      BY <2>1, LeftFacts
    <2> QED
      BY <2>2, Placement
  <1>6. CASE \E s \in USems : passeren(s) \/ verhogen(s)
    BY <1>1, <1>2, <1>3, <1>6, SoftApart DEF passeren, verhogen
  <1>7. CASE (\E r \in Regs : doIO(r)) \/ clockWait
    BY <1>1, <1>3, <1>7, SoftApart DEF doIO, clockWait, PThenSchedule, SoftSems
  <1> QED
    BY <1>3, <1>4, <1>5, <1>6, <1>7
       DEF Next, Syscall, createProcess, TermSelf, passUpOrDie, TermOther, DeviceDone, vars

(* A process is born by createProcess only, which moves nobody else, and   *)
(* nobody dies but by the running process.                                 *)
LEMMA NextBirths ==
  ASSUME IInv, [Next]_vars, NEW p \in pcbFree, p \notin pcbFree'
  PROVE  /\ current \in Pcbs /\ current' = current /\ blocked' = blocked
         /\ pcbFree' = pcbFree \ {p} /\ Range(ready') = Range(ready) \cup {p}
  <1>1. PICK q \in Pcbs : createProcess(q)
    BY DEF Next, Syscall, passeren, verhogen, doIO, clockWait, TermSelf, passUpOrDie,
           TermOther, terminateProcess, Interrupt, interruptHandler, DeviceDone,
           procs, vars
  <1>2. q = p
    BY <1>1 DEF createProcess
  <1>3. <<p>> \in Seq(Pcbs) /\ Range(<<p>>) = {p}
    BY <1>2, SingleFacts
  <1>4. Range(ready') = Range(ready) \cup {p}
    <2>1. ready' = Enqueue(ready, <<p>>)
      BY <1>1, <1>2 DEF createProcess
    <2>2. Range(Enqueue(ready, <<p>>)) = Range(ready) \cup {p}
      BY <1>3, Placement, EnqueueRange
    <2> QED
      BY <2>1, <2>2
  <1> QED
    BY <1>1, <1>2, <1>4, RunningCurrent DEF createProcess

LEMMA NextDeaths ==
  ASSUME IInv, [Next]_vars, NEW p \in pcbFree', p \notin pcbFree
  PROVE  current \in Pcbs
  BY RunningCurrent
     DEF Next, Syscall, createProcess, passeren, verhogen, doIO, clockWait, TermSelf,
         passUpOrDie, TermOther, Interrupt, interruptHandler, DeviceDone, procs, vars

LEMMA NotHalted ==
  ASSUME Next
  PROVE  mode # "halt"
  BY DEF Next, Syscall, createProcess, passeren, verhogen, doIO, clockWait, TermSelf,
         passUpOrDie, TermOther, Running, Interrupt, interruptHandler, DeviceDone

LEMMA InitLife == CareInv /\ Init => PL!Init
  <1> SUFFICES ASSUME CareInv, Init PROVE PL!Init
    OBVIOUS
  <1>1. Stages
    BY StagesRight DEF CareInv, IOInv, ClockInv
  <1>2. PICK root \in Pcbs : pcbFree = Pcbs \ {root} /\ current = root
    BY DEF Init, Boot
  <1>3. \A p \in Pcbs : Life(p) = IF p = root THEN "running" ELSE "free"
    BY <1>1, <1>2 DEF Stages
  <1>4. mode # "halt"
    BY DEF Init, Boot
  <1> QED
    BY <1>3, <1>4 DEF PL!Init

(* The abstract specification counts as this one does.                     *)
LEMMA LifeCardinality == \A S : PL!Cardinality(S) = Cardinality(S)
  BY Zenon DEF PL!Cardinality, Cardinality

LEMMA NextLife ==
  ASSUME CareInv, CareInv', Next
  PROVE  PL!Next
  <1> DEFINE life == [p \in Pcbs |-> Life(p)]
  <1>0. IInv /\ IInv' /\ [Next]_vars /\ mode # "halt"
    BY NotHalted DEF CareInv, IOInv, ClockInv
  <1>1. Stages /\ Stages'
    BY StagesRight, PTL DEF CareInv, IOInv, ClockInv
  <1>2. /\ \A p \in Pcbs : life[p] = Life(p) /\ life'[p] = Life(p)'
        /\ life' = [p \in Pcbs |-> Life(p)']
    OBVIOUS
  <1>3. /\ current' \in Pcbs \cup {NULL} /\ current' \notin pcbFree'
        /\ current' = NULL => Range(ready') = {}
        /\ pcbFree' \subseteq Pcbs
    BY <1>0, EmptyRange, Placement
       DEF CareInv, Decided, IInv, TypeOK, PlaceInv, Placed
  <1>4. life' \in [Pcbs -> {"free", "ready", "running", "blocked"}]
    BY <1>1 DEF Stages
  <1>5. \A p \in Pcbs : Life(p)' = Life(p) \/ <<Life(p), Life(p)'>> \in PL!Moves
    <2> SUFFICES ASSUME NEW p \in Pcbs, Life(p)' # Life(p)
                 PROVE  <<Life(p), Life(p)'>> \in PL!Moves
      OBVIOUS
    <2>1. Life(p) = "free" => Life(p)' = "ready"
      BY <1>0, <1>1, NextBirths DEF Stages
    <2>2. Life(p) = "ready" => Life(p)' # "blocked"
      BY <1>0, <1>1, NextBlocks DEF Stages
    <2> QED
      BY <1>1, <2>1, <2>2 DEF Stages, PL!Moves
  <1>6. Cardinality({p \in Pcbs : Life(p)' = "running"}) <= 1
    <2>1. {p \in Pcbs : Life(p)' = "running"} = {current'} \cap Pcbs
      BY <1>1 DEF Stages
    <2>2. CASE current' \in Pcbs
      BY <2>1, <2>2, FS_Singleton
    <2>3. CASE current' \notin Pcbs
      BY <2>1, <2>3, FS_EmptySet
    <2> QED
      BY <2>2, <2>3
  <1>7. {p \in Pcbs : Life(p)' = "running"} = {} => {p \in Pcbs : Life(p)' = "ready"} = {}
    BY <1>1, <1>3 DEF Stages
  <1>8. ASSUME NEW p \in Pcbs, Life(p) = "free", Life(p)' = "ready"
        PROVE  /\ {q \in Pcbs : Life(q) = "running"} # {}
               /\ {q \in Pcbs : Life(q)' = "running"} = {q \in Pcbs : Life(q) = "running"}
               /\ \A q \in Pcbs \ {p} : Life(q)' = Life(q)
    <2>1. /\ current \in Pcbs /\ current' = current /\ blocked' = blocked
          /\ pcbFree' = pcbFree \ {p} /\ Range(ready') = Range(ready) \cup {p}
      BY <1>0, <1>1, <1>8, NextBirths DEF Stages
    <2>2. \A q \in Pcbs \ {p} : Life(q)' = Life(q)
      BY <2>1 DEF Life, Blocked, WaitsOn
    <2> QED
      BY <1>1, <2>1, <2>2 DEF Stages
  <1>9. \A p \in Pcbs : Life(p) # "free" /\ Life(p)' = "free" =>
          {q \in Pcbs : Life(q) = "running"} # {}
    BY <1>0, <1>1, NextDeaths DEF Stages
  <1>10. mode' = "halt" <=> {p \in Pcbs : Life(p)' = "free"} = Pcbs
    <2>1. {p \in Pcbs : Life(p)' = "free"} = pcbFree'
      BY <1>1, <1>3 DEF Stages
    <2>2. /\ process_count' = Cardinality(Live') /\ IsFiniteSet(Live')
      <3>1. IsFiniteSet(Live')
        BY NucleusAssumption, FS_Subset DEF Live
      <3> QED
        BY <3>1 DEF CareInv, CountInv, Accounting
    <2>3. process_count' = 0 <=> Live' = {}
      BY <2>2, FS_EmptySet
    <2>4. mode' = "halt" => process_count' = 0
      BY DEF CareInv, Decided
    <2>5. Live' = {} => mode' # "run"
      BY <1>0, <1>3 DEF IInv, PlaceInv, Live
    <2>6. mode' \in Modes /\ (mode' \in {"wait", "panic"} => process_count' # 0)
      BY <1>0 DEF IInv, TypeOK, CareInv, Decided
    <2> QED
      BY <1>3, <2>1, <2>3, <2>4, <2>5, <2>6 DEF Live, Modes
  <1>11. /\ \A stage : PL!In(stage) = {p \in Pcbs : Life(p) = stage}
         /\ \A stage : PL!In(stage)' = {p \in Pcbs : Life(p)' = stage}
    BY <1>2 DEF PL!In
  <1> HIDE DEF life
  <1>12. (mode = "halt")' = (PL!In("free")' = Pcbs)
    BY <1>10, <1>11
  <1>13. PL!WorkConserving
    BY <1>7, <1>11 DEF PL!WorkConserving
  <1>14. PL!Cardinality(PL!In("running")') <= 1
    BY <1>6, <1>11, LifeCardinality
  <1>15. PL!Step
    BY <1>0, <1>2, <1>4, <1>5, <1>8, <1>9, <1>11, <1>12, <1>13, <1>14
       DEF PL!Step, life
  <1> QED
    BY <1>15 DEF PL!Next

(* The nucleus keeps what it promises to programs which take care.         *)
THEOREM ImplementsLifeAlways == TakesCare => (Spec => ImplementsLife)
  <1>1. CareInv /\ [Next]_vars => [PL!Next]_(PL!vars)
    <2>1. CareInv /\ Next => PL!Next
      BY NextCare, NextLife
    <2>2. UNCHANGED vars => UNCHANGED PL!vars
      BY DEF vars, PL!vars, Life, Blocked, WaitsOn
    <2> QED
      BY <2>1, <2>2
  <1> QED
    BY InitCare, NextCare, InitLife, <1>1, PTL DEF Spec, ImplementsLife, PL!Spec

-----------------------------------------------------------------------------
(* The processor states (module Context).                                  *)

(* The processes which may get the processor some time.                    *)
Queued == Range(ready) \cup Blocked

ContextInv == IInv /\ GoesOn

-----------------------------------------------------------------------------
(* A step of the nucleus preserves its invariant.                          *)

LEMMA ContextNextIsNext == ContextNext => Next
  BY DEF ContextNext, Next, Syscall, Interrupt, CreateSaves, SemSaves, IOSaves,
         ClockSaves, KillSaves, InterruptSaves

LEMMA ContextIInv ==
  ASSUME IInv, [ContextNext]_contextVars
  PROVE  IInv'
  BY ContextNextIsNext, NextInv DEF NextAny, contextVars

(* A step which puts only saved processes in a queue goes well.            *)
LEMMA SavedGoesOn ==
  ASSUME GoesOn, IInv', NEW ps, Saved(ps), Queued' \subseteq Queued \cup ps
  PROVE  GoesOn'
  <1>2. current' \notin Queued'
    BY DEF IInv, PlaceInv, Placed, Queued, Blocked, WaitsOn
  <1>3. stale' \subseteq (stale \ ps) \cup {current'}
    BY DEF Saved
  <1>4. Queued \cap stale = {}
    BY DEF GoesOn, Queued
  <1>5. Queued' \cap stale' = {}
    BY <1>2, <1>3, <1>4
  <1> QED
    BY <1>5 DEF GoesOn, Queued

-----------------------------------------------------------------------------
(* What the operations put in the queues.                                  *)

LEMMA ScheduleRange ==
  ASSUME NEW q, NEW n, NEW k, schedule(q, n, k),
         q \in Seq(Pcbs), NoRepeats(q)
  PROVE  Range(ready') \subseteq Range(q)
  BY TailFacts DEF schedule

(* The current process blocks.                                             *)
LEMMA BlockQueues ==
  ASSUME IInv, NEW s \in Sems, NEW c, BlockCurrent(s, c), current \in Pcbs,
         NEW n, NEW k, schedule(ready, n, k)
  PROVE  Queued' \subseteq Queued \cup {current}
  <1>1. Range(ready') \subseteq Range(ready)
    BY Placement, ScheduleRange
  <1>2. \A t \in Sems : Range(blocked'[t]) \subseteq Range(blocked[t]) \cup {current}
    <2>1. blocked \in [Sems -> Seq(Pcbs)]
      BY DEF IInv, TypeOK
    <2>2. \A t \in Sems :
            blocked'[t] = IF t = s THEN Append(blocked[s], current) ELSE blocked[t]
      BY <2>1 DEF BlockCurrent
    <2>3. Range(Append(blocked[s], current)) = Range(blocked[s]) \cup {current}
      BY Placement, AppendFacts
    <2> QED
      BY <2>2, <2>3
  <1> QED
    BY <1>1, <1>2, Placement DEF Queued

(* A process which waited becomes ready.                                   *)
LEMMA WakeQueues ==
  ASSUME IInv, NEW s \in Sems, blocked[s] # <<>>, WakeHead(s)
  PROVE  Queued' \subseteq Queued
  <1>1. blocked[s] \in Seq(Pcbs) /\ NoRepeats(blocked[s]) /\ ready \in Seq(Pcbs)
    BY Placement
  <1>2. /\ Head(blocked[s]) \in Range(blocked[s])
        /\ Range(Tail(blocked[s])) \subseteq Range(blocked[s])
    BY <1>1, TailFacts
  <1>3. Head(blocked[s]) \in Pcbs
    BY <1>1, <1>2, RangeType
  <1>4. <<Head(blocked[s])>> \in Seq(Pcbs)
        /\ Range(<<Head(blocked[s])>>) = {Head(blocked[s])}
    BY <1>3, SingleFacts
  <1>5. Range(ready') = Range(ready) \cup {Head(blocked[s])}
    BY <1>1, <1>4, EnqueueRange DEF WakeHead, resume
  <1>6. \A t \in Sems : Range(blocked'[t]) \subseteq Range(blocked[t])
    <2>1. DOMAIN blocked = Sems
      BY DEF IInv, TypeOK
    <2>2. blocked' = [blocked EXCEPT ![s] = Tail(@)]
      BY DEF WakeHead
    <2> QED
      BY <1>2, <2>1, <2>2
  <1> QED
    BY <1>2, <1>3, <1>5, <1>6, Placement DEF Queued

(* P or V of a process, on a semaphore whose value v blocks it.            *)
LEMMA PasserenQueues ==
  ASSUME IInv, NEW s \in USems, passeren(s)
  PROVE  Queued' \subseteq Queued \cup {p \in {current} : sem[s] = 0}
  <1>1. s \in Sems /\ current \in Pcbs
    BY RunningCurrent DEF passeren, Sems
  <1>2. CASE sem[s] = 0 /\ BlockCurrent(s, "passeren")
             /\ schedule(ready, process_count, soft_block_count)
    BY <1>1, <1>2, BlockQueues
  <1>3. CASE blocked[s] # <<>> /\ WakeHead(s)
    BY <1>1, <1>3, WakeQueues
  <1>4. CASE resume(ready) /\ UNCHANGED <<blocked, call>>
    BY <1>4, Placement DEF Queued, resume
  <1> QED
    BY <1>2, <1>3, <1>4 DEF passeren

LEMMA VerhogenQueues ==
  ASSUME IInv, NEW s \in USems, verhogen(s)
  PROVE  Queued' \subseteq Queued \cup {p \in {current} : sem[s] = 1}
  <1>1. s \in Sems /\ current \in Pcbs
    BY RunningCurrent DEF verhogen, Sems
  <1>2. CASE sem[s] = 1 /\ BlockCurrent(s, "verhogen")
             /\ schedule(ready, process_count, soft_block_count)
    BY <1>1, <1>2, BlockQueues
  <1>3. CASE blocked[s] # <<>> /\ WakeHead(s)
    BY <1>1, <1>3, WakeQueues
  <1>4. CASE resume(ready) /\ UNCHANGED <<blocked, call>>
    BY <1>4, Placement DEF Queued, resume
  <1> QED
    BY <1>2, <1>3, <1>4 DEF verhogen

(* DOIO and CLOCKWAIT block the caller, or forget it.                      *)
LEMMA PQueues ==
  ASSUME IInv, Running, NEW s \in Sems, NEW c, PThenSchedule(s, c)
  PROVE  Queued' \subseteq Queued \cup {current}
  <1>1. CASE BlockCurrent(s, c)
             /\ schedule(ready, process_count, Plus(soft_block_count, 1))
    BY <1>1, RunningCurrent, BlockQueues
  <1>2. CASE schedule(ready, process_count, soft_block_count)
             /\ UNCHANGED <<blocked, call>>
    BY <1>2, Placement, ScheduleRange DEF Queued
  <1> QED
    BY <1>1, <1>2 DEF PThenSchedule

LEMMA DoIOQueues ==
  ASSUME IInv, NEW r \in Regs, doIO(r)
  PROVE  Queued' \subseteq Queued \cup {current}
  <1>1. r \in Sems /\ Running
    BY DEF Sems, SoftSems, doIO
  <1>2. CASE PThenSchedule(r, "doIO")
    BY <1>1, <1>2, PQueues
  <1>3. CASE schedule(ready, process_count, soft_block_count)
             /\ UNCHANGED <<device, blocked, sem, call>>
    BY <1>3, Placement, ScheduleRange DEF Queued
  <1> QED
    BY <1>2, <1>3 DEF doIO

(* A termination puts nobody in a queue.                                   *)
LEMMA TerminateQueues ==
  ASSUME IInv, NEW p, terminateProcess(p)
  PROVE  Queued' \subseteq Queued
  <1>1. PICK dead, n, k :
          /\ blocked' = [s \in Sems |-> Without(blocked[s], dead)]
          /\ schedule(Without(ready, dead), n, k)
    BY DEF terminateProcess
  <1>2. /\ Without(ready, dead) \in Seq(Pcbs) /\ NoRepeats(Without(ready, dead))
        /\ Range(Without(ready, dead)) = Range(ready) \ dead
    BY Placement, WithoutRange, WithoutNoRepeats
  <1>3. Range(ready') \subseteq Range(ready)
    BY <1>1, <1>2, ScheduleRange
  <1>4. \A s \in Sems : Range(blocked'[s]) \subseteq Range(blocked[s])
    BY <1>1, Placement, WithoutRange
  <1> QED
    BY <1>3, <1>4, Placement DEF Queued

(* An interrupt wakes only processes which waited, and the end of a time   *)
(* slice puts the current process on the ready queue.                      *)
LEMMA InterruptQueues ==
  ASSUME IInv, IInv', NEW plt \in BOOLEAN, NEW it \in BOOLEAN,
         interruptHandler(plt, it)
  PROVE  Queued' \subseteq Queued \cup (IF plt THEN {current} ELSE {})
  <1> DEFINE woken == Awakened(it)
             q0 == IF plt THEN Enqueue(ready, <<current>>) ELSE ready
             queue == Enqueue(q0, woken)
  <1>1. /\ mode = "run" \/ (mode = "wait" /\ ~plt)
        /\ \/ \E n, k : schedule(queue, n, k)
           \/ ready' = queue
        /\ blocked' = [s \in Sems |->
                         IF s = Clock /\ it THEN <<>>
                         ELSE IF s \in AllServed /\ blocked[s] # <<>>
                              THEN Tail(blocked[s]) ELSE blocked[s]]
    BY DEF interruptHandler, Awakened
  <1>2. woken \in Seq(Pcbs) /\ NoRepeats(woken) /\ Range(woken) \subseteq Blocked
    <2>1. Woken(woken, AwakenedAt(it)) /\ AwakenedAt(it) \subseteq Sems
      BY AwakenedWoken, ServedApart DEF AwakenedAt, Sems, SoftSems
    <2>2. Range(woken) \subseteq Pcbs
      BY <2>1, RangeType DEF Woken
    <2> QED
      BY <2>1, <2>2, Placement DEF Woken
  <1> HIDE DEF woken
  <1>3. /\ q0 \in Seq(Pcbs) /\ NoRepeats(q0)
        /\ Range(q0) = Range(ready) \cup (IF plt THEN {current} ELSE {})
    <2>1. CASE plt
      BY <1>1, <2>1, QuantumQueue DEF IInv, PlaceInv
    <2>2. CASE ~plt
      BY <2>2, Placement
    <2> QED
      BY <2>1, <2>2
  <1> HIDE DEF q0
  <1>4. /\ queue \in Seq(Pcbs) /\ NoRepeats(queue)
        /\ Range(queue) = Range(q0) \cup Range(woken)
    BY <1>2, <1>3, EnqueueRange
  <1> HIDE DEF queue
  <1>5. Range(ready') \subseteq Range(queue)
    BY <1>1, <1>4, ScheduleRange
  <1>6. \A s \in Sems : Range(blocked'[s]) \subseteq Range(blocked[s])
    <2> SUFFICES ASSUME NEW s \in Sems
                 PROVE  Range(blocked'[s]) \subseteq Range(blocked[s])
      OBVIOUS
    <2>1. CASE blocked'[s] = <<>>
      BY <2>1 DEF Range
    <2>2. CASE blocked[s] # <<>> /\ blocked'[s] = Tail(blocked[s])
      BY <2>2, Placement, TailFacts
    <2>3. CASE blocked'[s] = blocked[s]
      BY <2>3
    <2> QED
      BY <1>1, <2>1, <2>2, <2>3
  <1>7. Blocked' \subseteq Blocked
    BY <1>6, Placement
  <1> QED
    BY <1>2, <1>3, <1>4, <1>5, <1>7 DEF Queued

-----------------------------------------------------------------------------

LEMMA ContextInitInv == ContextInit => ContextInv
  <1> SUFFICES ASSUME ContextInit PROVE ContextInv
    OBVIOUS
  <1>1. IInv
    BY InitInv DEF ContextInit
  <1>2. Range(<<>>) = {}
    BY DEF Range
  <1>3. Range(ready) = {} /\ \A s \in Sems : Range(blocked[s]) = {}
    BY <1>2 DEF ContextInit, Init, Boot
  <1> QED
    BY <1>1, <1>3, Placement DEF ContextInv, GoesOn

LEMMA ContextNextInv == ContextInv /\ [ContextNext]_contextVars => ContextInv'
  <1> SUFFICES ASSUME IInv, GoesOn, [ContextNext]_contextVars PROVE ContextInv'
    BY DEF ContextInv
  <1>1. IInv'
    BY ContextIInv
  <1>2. CASE \E p \in Pcbs : CreateSaves(p)
    <2>1. PICK p \in Pcbs : createProcess(p) /\ Saved({p})
      BY <1>2 DEF CreateSaves
    <2>2. <<p>> \in Seq(Pcbs) /\ Range(<<p>>) = {p}
      BY SingleFacts
    <2>3. Range(ready') = Range(ready) \cup {p}
      <3>1. ready \in Seq(Pcbs)
        BY Placement
      <3>2. Range(Enqueue(ready, <<p>>)) = Range(ready) \cup Range(<<p>>)
        BY <2>2, <3>1, EnqueueRange
      <3> QED
        BY <2>1, <2>2, <3>2 DEF createProcess
    <2>4. Blocked' = Blocked
      BY <2>1 DEF createProcess, Blocked, WaitsOn
    <2> QED
      BY <1>1, <2>1, <2>3, <2>4, SavedGoesOn DEF Queued, ContextInv
  <1>3. CASE \E s \in USems : SemSaves(s)
    BY <1>1, <1>3, PasserenQueues, VerhogenQueues, SavedGoesOn DEF SemSaves, ContextInv
  <1>4. CASE IOSaves
    BY <1>1, <1>4, DoIOQueues, SavedGoesOn DEF IOSaves, ContextInv
  <1>5. CASE ClockSaves
    <2>1. Clock \in Sems
      BY DEF Sems, SoftSems
    <2> QED
      BY <1>1, <1>5, <2>1, PQueues, SavedGoesOn DEF ClockSaves, clockWait, ContextInv
  <1>6. CASE KillSaves
    <2>1. Queued' \subseteq Queued \cup {}
      BY <1>6, TerminateQueues DEF KillSaves, TermSelf, passUpOrDie, TermOther
    <2> QED
      BY <1>1, <1>6, <2>1, SavedGoesOn DEF KillSaves, ContextInv
  <1>7. CASE \E plt, it \in BOOLEAN : InterruptSaves(plt, it)
    BY <1>1, <1>7, InterruptQueues, SavedGoesOn DEF InterruptSaves, ContextInv
  <1>8. CASE \E r \in Regs : DeviceDone(r) /\ Saved({})
    <2>1. Queued' \subseteq Queued \cup {}
      BY <1>8, Placement DEF DeviceDone, Queued
    <2> QED
      BY <1>1, <1>8, <2>1, SavedGoesOn DEF ContextInv
  <1>9. CASE UNCHANGED contextVars
    BY <1>1, <1>9, Placement DEF contextVars, vars, GoesOn, ContextInv
  <1> QED
    BY <1>2, <1>3, <1>4, <1>5, <1>6, <1>7, <1>8, <1>9 DEF ContextNext

(* Whatever a program does and whatever stops it, a process that waits for *)
(* the processor or on a semaphore has its processor state in p_s.         *)
THEOREM GoesOnAlways == ContextSpec => []GoesOn
  <1>1. ContextInv => GoesOn
    BY DEF ContextInv
  <1> QED
    BY ContextInitInv, ContextNextInv, <1>1, PTL DEF ContextSpec

(* Keeping track of the states restricts nothing: the nucleus with them is *)
(* the nucleus.                                                            *)
THEOREM ContextIsNucleus == ContextSpec => Spec
  <1>1. ContextInit => Init
    BY DEF ContextInit
  <1>2. [ContextNext]_contextVars => [Next]_vars
    BY ContextNextIsNext DEF contextVars
  <1> QED
    BY <1>1, <1>2, PTL DEF ContextSpec, Spec
-----------------------------------------------------------------------------
(* The phase 2 test.  Its programs are well formed: they name semaphores,  *)
(* devices and programs that there are, and only the last instruction of a *)
(* program ends the process.                                               *)

Steps == [op : {"passeren", "verhogen"}, arg : TestSems]
           \cup [op : {"doIO"}, arg : {33}]
           \cup [op : {"create"}, arg : DOMAIN Programs]
           \cup [op : {"store", "check"}, arg : Pids \cup {"p1p2synch", "reset"}]
           \cup [op : {"clockWait", "synch"}, arg : {NULL}]
Delays == [op : {"untilLong"}, arg : {NULL}]
Ends == [op : {"terminate", "termParent", "trap", "return"}, arg : {NULL}]
Instrs == Steps \cup Delays \cup Ends

(* A piece of program which may be followed, and one that may also start a *)
(* program.                                                                *)
Piece(s) == s \in Seq(Instrs) /\ \A i \in 1..Len(s) : s[i] \notin Ends
Start(s) == Piece(s) /\ s # <<>> /\ s[1] \notin Delays

WellFormed(s) ==
  /\ s \in Seq(Instrs) /\ s # <<>> /\ s[1] \notin Delays
  /\ \A i \in 1..Len(s) : s[i] \in Ends <=> i = Len(s)

(* An instruction is of one kind.                                          *)
LEMMA Kinds ==
  \A i \in Instrs : /\ i \in Delays => i \notin Ends
                    /\ i \in Steps => i \notin Delays \cup Ends
  BY DEF Instrs, Steps, Delays, Ends

LEMMA OneInstr ==
  ASSUME NEW o, NEW a, [op |-> o, arg |-> a] \in Instrs
  PROVE  /\ Instr(o, a) \in Seq(Instrs) /\ Instr(o, a) # <<>> /\ Len(Instr(o, a)) = 1
         /\ Instr(o, a)[1] = [op |-> o, arg |-> a]
  BY DEF Instr

LEMMA StepStarts ==
  ASSUME NEW o, NEW a, [op |-> o, arg |-> a] \in Steps
  PROVE  Start(Instr(o, a)) /\ Piece(Instr(o, a))
  <1>1. [op |-> o, arg |-> a] \in Instrs
    BY DEF Instrs
  <1>2. [op |-> o, arg |-> a] \notin Delays \cup Ends
    BY <1>1, Kinds
  <1> QED
    BY <1>1, <1>2, OneInstr DEF Start, Piece

(* What two sequences put together consist of.                             *)
LEMMA Together ==
  ASSUME NEW s \in Seq(Instrs), NEW t \in Seq(Instrs)
  PROVE  /\ s \o t \in Seq(Instrs) /\ Len(s) \in Nat /\ Len(t) \in Nat
         /\ Len(s \o t) = Len(s) + Len(t)
         /\ \A i \in 1..Len(s) : (s \o t)[i] = s[i]
         /\ \A i \in 1..Len(s \o t) :
              i \notin 1..Len(s) => i - Len(s) \in 1..Len(t) /\ (s \o t)[i] = t[i - Len(s)]
         /\ s # <<>> => Len(s) > 0 /\ s \o t # <<>> /\ (s \o t)[1] = s[1]
  <1>1. /\ s \o t \in Seq(Instrs) /\ Len(s \o t) = Len(s) + Len(t)
        /\ \A i \in 1..(Len(s) + Len(t)) :
             (s \o t)[i] = IF i <= Len(s) THEN s[i] ELSE t[i - Len(s)]
    BY ConcatProperties
  <1>2. Len(s) \in Nat /\ Len(t) \in Nat
    BY LenProperties
  <1>3. \A i \in 1..Len(s) : (s \o t)[i] = s[i]
    BY <1>1, <1>2
  <1>4. ASSUME s # <<>>
        PROVE  Len(s) > 0 /\ s \o t # <<>> /\ (s \o t)[1] = s[1]
    <2>1. Len(s) > 0
      BY <1>2, <1>4, EmptySeq
    <2>2. s \o t # <<>>
      BY <1>1, <1>2, <2>1, EmptySeq
    <2> QED
      BY <1>2, <1>3, <2>1, <2>2
  <1>5. ASSUME NEW i \in 1..Len(s \o t), i \notin 1..Len(s)
        PROVE  i - Len(s) \in 1..Len(t) /\ (s \o t)[i] = t[i - Len(s)]
    BY <1>1, <1>2, <1>5
  <1> QED
    BY <1>1, <1>2, <1>3, <1>4, <1>5

LEMMA PieceConcat ==
  ASSUME NEW s, NEW t, Piece(s), Piece(t)
  PROVE  Piece(s \o t) /\ (Start(s) => Start(s \o t))
  <1>1. s \in Seq(Instrs) /\ t \in Seq(Instrs)
    BY DEF Piece
  <1>2. ASSUME NEW i \in 1..Len(s \o t)
        PROVE  (s \o t)[i] \notin Ends
    BY <1>1, Together DEF Piece
  <1>3. Piece(s \o t)
    BY <1>1, <1>2, Together DEF Piece
  <1> QED
    BY <1>1, <1>3, Together DEF Start

(* A piece that starts a program, in front of a program.                   *)
LEMMA ProgramConcat ==
  ASSUME NEW s, NEW t, Start(s), WellFormed(t)
  PROVE  WellFormed(s \o t)
  <1>1. s \in Seq(Instrs) /\ t \in Seq(Instrs) /\ s # <<>> /\ t # <<>>
    BY DEF Start, Piece, WellFormed
  <1>2. Len(t) > 0
    BY <1>1, Together
  <1>3. ASSUME NEW i \in 1..Len(s \o t)
        PROVE  (s \o t)[i] \in Ends <=> i = Len(s \o t)
    <2>1. Len(s) \in Nat /\ Len(t) \in Nat /\ Len(s \o t) = Len(s) + Len(t)
      BY <1>1, Together
    <2>2. CASE i \in 1..Len(s)
      <3>1. (s \o t)[i] = s[i] /\ s[i] \notin Ends
        BY <1>1, <2>2, Together DEF Start, Piece
      <3> QED
        BY <1>2, <2>1, <2>2, <3>1
    <2>3. CASE i \notin 1..Len(s)
      <3>1. (s \o t)[i] = t[i - Len(s)] /\ i - Len(s) \in 1..Len(t)
        BY <1>1, <2>3, Together
      <3>2. t[i - Len(s)] \in Ends <=> i - Len(s) = Len(t)
        BY <3>1 DEF WellFormed
      <3> QED
        BY <2>1, <3>1, <3>2
    <2> QED
      BY <2>2, <2>3
  <1>4. s \o t \in Seq(Instrs) /\ s \o t # <<>> /\ (s \o t)[1] = s[1]
    BY <1>1, Together
  <1> QED
    BY <1>3, <1>4 DEF Start, WellFormed

LEMMA EndsProgram ==
  ASSUME NEW o \in {"terminate", "termParent", "trap", "return"}
  PROVE  WellFormed(Instr(o, NULL))
  <1>1. [op |-> o, arg |-> NULL] \in Ends /\ [op |-> o, arg |-> NULL] \in Instrs
    BY DEF Ends, Instrs
  <1>2. [op |-> o, arg |-> NULL] \notin Delays
    BY <1>1, Kinds
  <1>3. /\ Instr(o, NULL) \in Seq(Instrs) /\ Instr(o, NULL) # <<>>
        /\ Len(Instr(o, NULL)) = 1 /\ Instr(o, NULL)[1] = [op |-> o, arg |-> NULL]
    BY <1>1, OneInstr
  <1> QED
    BY <1>1, <1>2, <1>3 DEF WellFormed

(* The pieces the programs are put together from.                          *)
LEMMA Pieces ==
  /\ \A s \in TestSems : Start(P(s)) /\ Start(V(s)) /\ Piece(P(s)) /\ Piece(V(s))
  /\ \A q \in DOMAIN Programs : Start(Create(q)) /\ Piece(Create(q))
  /\ \A v \in Pids : Piece(Store(v))
  /\ \A c \in Pids \cup {"p1p2synch", "reset"} : Start(Check(c)) /\ Piece(Check(c))
  /\ Start(ClockWait) /\ Piece(ClockWait)
  /\ Piece(Instr("synch", NULL))
  /\ Piece(Instr("untilLong", NULL))
  /\ Start(Instr("doIO", 33)) /\ Piece(Instr("doIO", 33))
  /\ Piece(<<>>)
  <1>1. \A s \in TestSems : Start(P(s)) /\ Start(V(s)) /\ Piece(P(s)) /\ Piece(V(s))
    <2> TAKE s \in TestSems
    <2>1. /\ [op |-> "passeren", arg |-> s] \in Steps
          /\ [op |-> "verhogen", arg |-> s] \in Steps
      BY DEF Steps
    <2> QED
      BY <2>1, StepStarts DEF P, V
  <1>2. \A q \in DOMAIN Programs : Start(Create(q)) /\ Piece(Create(q))
    <2> TAKE q \in DOMAIN Programs
    <2>1. [op |-> "create", arg |-> q] \in Steps
      BY DEF Steps
    <2> QED
      BY <2>1, StepStarts DEF Create
  <1>3. \A v \in Pids : Piece(Store(v))
    <2> TAKE v \in Pids
    <2>1. [op |-> "store", arg |-> v] \in Steps
      BY DEF Steps
    <2> QED
      BY <2>1, StepStarts DEF Store
  <1>4. \A c \in Pids \cup {"p1p2synch", "reset"} : Start(Check(c)) /\ Piece(Check(c))
    <2> TAKE c \in Pids \cup {"p1p2synch", "reset"}
    <2>1. [op |-> "check", arg |-> c] \in Steps
      BY DEF Steps
    <2> QED
      BY <2>1, StepStarts DEF Check
  <1>5. Start(ClockWait) /\ Piece(ClockWait) /\ Piece(Instr("synch", NULL))
    <2>1. /\ [op |-> "clockWait", arg |-> NULL] \in Steps
          /\ [op |-> "synch", arg |-> NULL] \in Steps
      BY DEF Steps
    <2> QED
      BY <2>1, StepStarts DEF ClockWait
  <1>6. Piece(Instr("untilLong", NULL))
    <2>1. /\ [op |-> "untilLong", arg |-> NULL] \in Delays
          /\ [op |-> "untilLong", arg |-> NULL] \in Instrs
      BY DEF Delays, Instrs
    <2>2. [op |-> "untilLong", arg |-> NULL] \notin Ends
      BY <2>1, Kinds
    <2> QED
      BY <2>1, <2>2, OneInstr DEF Piece
  <1>7. Start(Instr("doIO", 33)) /\ Piece(Instr("doIO", 33))
    <2>1. [op |-> "doIO", arg |-> 33] \in Steps
      BY DEF Steps
    <2> QED
      BY <2>1, StepStarts
  <1>8. Piece(<<>>)
    BY EmptySeq DEF Piece
  <1> QED
    BY <1>1, <1>2, <1>3, <1>4, <1>5, <1>6, <1>7, <1>8

LEMMA EndPrograms ==
  /\ WellFormed(Terminate) /\ WellFormed(Trap) /\ WellFormed(Return)
  /\ WellFormed(Instr("termParent", NULL))
  BY EndsProgram DEF Terminate, Trap, Return

LEMMA PrintPiece == Start(print) /\ Piece(print)
  BY Pieces, PieceConcat DEF print, TestSems

LEMMA TimesPiece ==
  ASSUME NEW s, Start(s), NEW n \in Nat \ {0}
  PROVE  Piece(Times(n, s)) /\ Start(Times(n, s))
  <1> DEFINE l == Len(s)
             t == [i \in 1..(n * l) |-> s[((i - 1) % l) + 1]]
  <1>1. l \in Nat \ {0} /\ s \in Seq(Instrs) /\ Times(n, s) = t
    BY LenProperties, EmptySeq DEF Start, Piece, Times
  <1>2. \A i \in 1..l : s[i] \in Instrs \ Ends
    BY <1>1, ElementOfSeq DEF Start, Piece
  <1> HIDE DEF l
  <1>3. n * l \in Nat /\ n * l > 0
    BY <1>1
  <1>4. ASSUME NEW i \in 1..(n * l)
        PROVE  ((i - 1) % l) + 1 \in 1..l
    <2>1. i - 1 \in Int
      BY <1>3
    <2>2. (i - 1) % l \in 0..(l - 1)
      BY <1>1, <2>1
    <2> QED
      BY <1>1, <2>2
  <1>5. t \in Seq(Instrs) /\ Len(t) = n * l /\ \A i \in 1..(n * l) : t[i] \notin Ends
    <2>1. \A i \in 1..(n * l) : t[i] \in Instrs \ Ends
      BY <1>2, <1>4
    <2> HIDE DEF t
    <2> QED
      BY <1>3, <2>1, IsASeq, LenProperties DEF t
  <1>6. t[1] = s[1] /\ t # <<>>
    <2>1. 1 \in 1..(n * l) /\ (1 - 1) % l = 0
      BY <1>1, <1>3
    <2>2. t[1] = s[((1 - 1) % l) + 1]
      BY <2>1
    <2>3. t # <<>>
      BY <1>3, <1>5, EmptySeq
    <2> QED
      BY <2>1, <2>2, <2>3
  <1> QED
    BY <1>1, <1>5, <1>6 DEF Piece, Start

(* The programs of p2, p3, ..., p11.                                       *)
LEMMA ProgramNames ==
  /\ Tests \subseteq DOMAIN Programs
  /\ {"p2", "p3", "p4", "p5", "p6", "p7", "p8root", "child1", "child2", "p8leaf1",
      "p8leaf2", "p9", "p10", "hp_p1", "hp_p2", "p11", "ns1_a", "ns1_b", "ns2_a",
      "ns2_b"} \subseteq DOMAIN Programs
  BY DEF Tests, Programs

LEMMA FormedP2 == WellFormed(p2)
  BY Pieces, PrintPiece, PieceConcat, ProgramConcat, EndPrograms
     DEF p2, TestSems, Pids

(* A wait for the clock that is to be long, and the loop of them.          *)
LEMMA Waits ==
  /\ Start(LongWait) /\ Piece(LongWait)
  /\ Start(Times(Loops, ClockWait)) /\ Piece(Times(Loops, ClockWait))
  <1>1. Start(LongWait) /\ Piece(LongWait)
    BY Pieces, PieceConcat DEF LongWait
  <1>2. Start(Times(Loops, ClockWait)) /\ Piece(Times(Loops, ClockWait))
    BY Pieces, TimesPiece, LoopsAssumption
  <1> QED
    BY <1>1, <1>2

LEMMA FormedP3 == WellFormed(p3)
  BY Pieces, PrintPiece, Waits, PieceConcat, ProgramConcat, EndPrograms
     DEF p3, TestSems, Pids

LEMMA FormedP4 == WellFormed(p4)
  BY Pieces, PrintPiece, PieceConcat, ProgramConcat, EndPrograms, ProgramNames
     DEF p4, TestSems, Pids

LEMMA FormedP5 == WellFormed(p5)
  BY Pieces, PrintPiece, Waits, PieceConcat, ProgramConcat, EndPrograms
     DEF p5, TestSems

LEMMA FormedTrap == WellFormed(p6) /\ WellFormed(p7) /\ WellFormed(testEnd)
  BY PrintPiece, PieceConcat, ProgramConcat, EndPrograms DEF p6, p7, testEnd

LEMMA FormedP8 == WellFormed(p8root)
  BY Pieces, PrintPiece, PieceConcat, ProgramConcat, EndPrograms, ProgramNames
     DEF p8root, TestSems

LEMMA FormedChild ==
  ASSUME NEW g \in {"p8leaf1", "p8leaf2"}
  PROVE  WellFormed(child(g))
  BY Pieces, PrintPiece, PieceConcat, ProgramConcat, EndPrograms, ProgramNames
     DEF child, TestSems, Pids

LEMMA FormedLeaf ==
  ASSUME NEW s \in TestSems
  PROVE  WellFormed(p8leaf(s))
  BY Pieces, PrintPiece, PieceConcat, ProgramConcat, EndPrograms DEF p8leaf, TestSems

LEMMA FormedP9 == WellFormed(p9) /\ WellFormed(p10)
  <1>1. WellFormed(p9)
    BY Pieces, PrintPiece, PieceConcat, ProgramConcat, EndPrograms, ProgramNames
       DEF p9, TestSems
  <1>2. WellFormed(p10)
    BY Pieces, PrintPiece, PieceConcat, ProgramConcat, EndPrograms DEF p10, Pids
  <1> QED
    BY <1>1, <1>2

LEMMA FormedHp == WellFormed(hp_p1) /\ WellFormed(hp_p2)
  BY PrintPiece, Waits, PieceConcat, ProgramConcat, EndPrograms
     DEF hp_p1, hp_p2

LEMMA FormedNs ==
  ASSUME NEW v \in Pids, NEW s \in TestSems, NEW t \in TestSems
  PROVE  WellFormed(ns_p(v, s, t))
  BY Pieces, PrintPiece, PieceConcat, ProgramConcat, EndPrograms DEF ns_p

LEMMA FormedP11 == WellFormed(p11)
  BY Pieces, PrintPiece, PieceConcat, ProgramConcat, EndPrograms, ProgramNames
     DEF p11, TestSems, Pids

(* The programs of p1, which test() is cut into.                           *)
LEMMA FormedTestP2 == WellFormed(testP2)
  BY Pieces, PrintPiece, PieceConcat, ProgramConcat, FormedTrap, ProgramNames
     DEF testP2, TestSems, Pids

LEMMA FormedTestP3 == WellFormed(testP3)
  BY Pieces, PrintPiece, PieceConcat, ProgramConcat, FormedTrap, ProgramNames
     DEF testP3, TestSems, Pids

LEMMA FormedTestP4 ==
  ASSUME NEW b, NEW a, Start(b) \/ b = <<>>, Piece(a)
  PROVE  WellFormed(testP4(b, a))
  <1> DEFINE c == b \o Create("p4")
             d == c \o Store("p4pid") \o Create("p5") \o a
  <1>1. Start(Create("p4")) /\ Piece(Create("p4"))
    BY Pieces, ProgramNames
  <1>2. Start(c) /\ Piece(c)
    <2>1. CASE Start(b)
      BY <1>1, <2>1, PieceConcat DEF Start
    <2>2. CASE b = <<>>
      <3>1. c = Create("p4")
        BY <1>1, <2>2, ConcatEmptySeq DEF Piece
      <3> QED
        BY <1>1, <3>1
    <2> QED
      BY <2>1, <2>2
  <1> HIDE DEF c
  <1>3. Start(d) /\ Piece(d)
    BY <1>2, Pieces, PieceConcat, ProgramNames DEF Pids
  <1>4. testP4(b, a) = d \o P(sem_endp5) \o print \o P(sem_blkp4) \o testEnd
    BY DEF testP4, c
  <1> HIDE DEF d
  <1> QED
    BY <1>3, <1>4, Pieces, PrintPiece, PieceConcat, ProgramConcat, FormedTrap DEF TestSems

LEMMA FormedTestP8 == WellFormed(testP8)
  <1> DEFINE round == Check("reset") \o Create("p8root") \o Store("p8pid") \o P(sem_endp8)
  <1>1. Start(round)
    BY Pieces, PieceConcat, ProgramNames DEF TestSems, Pids
  <1> HIDE DEF round
  <1>2. Start(Times(Rounds, round))
    BY <1>1, TimesPiece, LoopsAssumption
  <1>3. testP8 = Times(Rounds, round) \o testEnd
    BY DEF testP8, round
  <1> QED
    BY <1>2, <1>3, ProgramConcat, FormedTrap

LEMMA FormedTestP11 == WellFormed(testP11)
  BY Pieces, PrintPiece, PieceConcat, ProgramConcat, FormedTrap, ProgramNames
     DEF testP11, TestSems, Pids

(* Every program is well formed.                                           *)
LEMMA ProgramsFormed == \A q \in DOMAIN Programs : WellFormed(Programs[q])
  <1>1. /\ WellFormed(testP4(Create("hp_p1"), Create("p6") \o Create("p7")))
        /\ WellFormed(testP4(Create("hp_p2"), <<>>))
        /\ WellFormed(testP4(<<>>, Create("p9") \o Store("p9pid")))
    <2>1. /\ Start(Create("hp_p1")) /\ Start(Create("hp_p2"))
          /\ Piece(Create("p6")) /\ Piece(Create("p7")) /\ Piece(Create("p9"))
      BY Pieces, ProgramNames
    <2>2. Piece(Store("p9pid")) /\ Piece(<<>>)
      BY Pieces DEF Pids
    <2>3. Piece(Create("p6") \o Create("p7")) /\ Piece(Create("p9") \o Store("p9pid"))
      BY <2>1, <2>2, PieceConcat
    <2>4. WellFormed(testP4(Create("hp_p1"), Create("p6") \o Create("p7")))
      BY <2>1, <2>3, FormedTestP4, Zenon
    <2>5. WellFormed(testP4(Create("hp_p2"), <<>>))
      BY <2>1, <2>2, FormedTestP4, Zenon
    <2>6. WellFormed(testP4(<<>>, Create("p9") \o Store("p9pid")))
      BY <2>3, FormedTestP4, Zenon
    <2> QED
      BY <2>4, <2>5, <2>6
  <1>2. /\ WellFormed(child("p8leaf1")) /\ WellFormed(child("p8leaf2"))
        /\ WellFormed(p8leaf(sem_endcreate1)) /\ WellFormed(p8leaf(sem_endcreate2))
    <2>1. sem_endcreate1 \in TestSems /\ sem_endcreate2 \in TestSems
      BY DEF TestSems
    <2> QED
      BY <2>1, FormedChild, FormedLeaf, Zenon
  <1>3. /\ WellFormed(ns_p("ns1_a_pid", sem_l_ns1_a, sem_r_ns1_a))
        /\ WellFormed(ns_p("ns1_b_pid", sem_l_ns1_b, sem_r_ns1_b))
        /\ WellFormed(ns_p("ns2_a_pid", sem_l_ns2_a, sem_r_ns2_a))
        /\ WellFormed(ns_p("ns2_b_pid", sem_l_ns2_b, sem_r_ns2_b))
    BY FormedNs DEF TestSems, Pids
  <1> QED
    BY <1>1, <1>2, <1>3, FormedP2, FormedP3, FormedP4, FormedP5, FormedTrap, FormedP8,
       FormedP9, FormedHp, FormedP11, FormedTestP2, FormedTestP3, FormedTestP8,
       FormedTestP11 DEF Programs
(* What the parts of an instruction may be.                                *)
LEMMA OpFacts ==
  \A i \in Instrs :
    /\ i.op \in {"passeren", "verhogen"} => i.arg \in TestSems
    /\ i.op = "doIO" => i.arg = 33
    /\ i.op = "create" => i.arg \in DOMAIN Programs
    /\ i \in Delays <=> i.op = "untilLong"
    /\ i \in Ends <=> i.op \in {"terminate", "termParent", "trap", "return"}
  BY DEF Instrs, Steps, Delays, Ends

-----------------------------------------------------------------------------
(* Every living process is at an instruction of a program.                 *)

TestInv ==
  /\ at \in [Pcbs -> [prog : DOMAIN Programs \cup {"none"}, pc : Nat]]
  /\ \A p \in Live : /\ at[p].prog \in DOMAIN Programs
                     /\ at[p].pc \in 1..Len(Programs[at[p].prog])

(* The next instruction: the first is no delay, and only the last ends.    *)
LEMMA NowFacts ==
  ASSUME IInv, TestInv, Running
  PROVE  /\ current \in Live /\ Now \in Instrs
         /\ at[current].prog \in DOMAIN Programs /\ at[current].pc \in Nat
         /\ Now.op = "untilLong" => at[current].pc > 1
         /\ Now \notin Ends => at[current].pc < Len(Programs[at[current].prog])
         /\ Len(Programs[at[current].prog]) \in Nat
  <1> DEFINE q == Programs[at[current].prog]
             k == at[current].pc
  <1>1. current \in Live
    BY NucleusAssumption DEF IInv, PlaceInv, Placed, TypeOK, Running, Live
  <1>2. at[current].prog \in DOMAIN Programs /\ WellFormed(q) /\ k \in 1..Len(q)
    BY <1>1, ProgramsFormed DEF TestInv
  <1>3. Now = q[k]
    BY DEF Now
  <1> HIDE DEF q, k
  <1>4. Len(q) \in Nat /\ q[k] \in Instrs
    BY <1>2, LenProperties, ElementOfSeq DEF WellFormed
  <1>5. (q[k]).op = "untilLong" => k > 1
    <2>1. q[1] \notin Delays
      BY <1>2 DEF WellFormed
    <2> QED
      BY <1>2, <1>4, <2>1, OpFacts
  <1>6. q[k] \notin Ends => k < Len(q)
    BY <1>2, <1>4 DEF WellFormed
  <1> QED
    BY <1>1, <1>2, <1>3, <1>4, <1>5, <1>6 DEF q, k

(* A process is below its parent.                                          *)
LEMMA ChildBelow ==
  ASSUME NEW c \in Pcbs, p_parent[c] # NULL
  PROVE  c \in Progeny(p_parent[c])
  BY DEF Progeny

(* A call frees the caller if it ends the program, and takes no free pcb.  *)
LEMMA CallFrees ==
  ASSUME IInv, TestInv, Running, DoCall
  PROVE  /\ pcbFree \subseteq pcbFree'
         /\ Now \in Ends => current \in pcbFree'
  <1>1. current \in Pcbs /\ Now \in Instrs
    BY NowFacts DEF Live
  <1>2. Now \in Ends <=> Now.op \in {"terminate", "termParent", "trap", "return"}
    BY <1>1, OpFacts
  <1>3. ASSUME NEW s, passeren(s) \/ verhogen(s) \/ doIO(s) \/ clockWait
        PROVE  pcbFree' = pcbFree
    BY <1>3 DEF passeren, verhogen, doIO, clockWait, procs
  <1>4. ASSUME TermSelf \/ passUpOrDie
        PROVE  pcbFree \subseteq pcbFree' /\ current \in pcbFree'
    BY <1>1, <1>4, DiesItself DEF TermSelf, passUpOrDie, terminateProcess
  <1>5. ASSUME TermOther(p_parent[current])
        PROVE  pcbFree \subseteq pcbFree' /\ current \in pcbFree'
    <2>1. p_parent[current] \in Pcbs
      BY <1>5, RangeType DEF IInv, TypeOK, TermOther, Blocked
    <2>2. current \in Progeny(p_parent[current])
      BY <1>1, <2>1, ChildBelow, NucleusAssumption
    <2>3. pcbFree' = pcbFree \cup Progeny(p_parent[current])
      BY <1>5 DEF TermOther, terminateProcess
    <2> QED
      BY <2>2, <2>3
  <1> QED
    BY <1>2, <1>3, <1>4, <1>5 DEF DoCall

(* After a call everybody who lives is at an instruction.                  *)
LEMMA CallPlaces ==
  ASSUME IInv, TestInv, Running, DoCall
  PROVE  TestInv'
  <1>1. pcbFree \subseteq pcbFree' /\ (Now \in Ends => current \in pcbFree')
    BY CallFrees
  <1>2. at' = [p \in Pcbs |-> IF p \in pcbFree' THEN Off ELSE Advance[p]]
    BY DEF DoCall, Done
  <1>3. /\ current \in Pcbs /\ at[current].pc \in Nat
        /\ at[current].prog \in DOMAIN Programs
        /\ Len(Programs[at[current].prog]) \in Nat
        /\ Now \notin Ends => at[current].pc < Len(Programs[at[current].prog])
    BY NowFacts DEF Live
  <1>4. Off \in [prog : DOMAIN Programs \cup {"none"}, pc : Nat]
    BY DEF Off
  <1>5. /\ Advance \in [Pcbs -> [prog : DOMAIN Programs \cup {"none"}, pc : Nat]]
        /\ Advance[current].prog = at[current].prog
        /\ Advance[current].pc = at[current].pc + 1
        /\ \A p \in Pcbs : p # current => Advance[p] = at[p]
    BY <1>3 DEF Advance, TestInv
  <1>6. at' \in [Pcbs -> [prog : DOMAIN Programs \cup {"none"}, pc : Nat]]
    BY <1>2, <1>4, <1>5
  <1>7. ASSUME NEW p \in Live'
        PROVE  /\ at'[p].prog \in DOMAIN Programs
               /\ at'[p].pc \in 1..Len(Programs[at'[p].prog])
    <2>1. p \in Live /\ at'[p] = Advance[p]
      BY <1>1, <1>2 DEF Live
    <2>2. CASE p = current
      <3>1. Now \notin Ends
        BY <1>1, <2>2 DEF Live
      <3> QED
        BY <1>3, <1>5, <2>1, <2>2, <3>1
    <2>3. CASE p # current
      BY <1>5, <2>1, <2>3 DEF TestInv, Live
    <2> QED
      BY <2>2, <2>3
  <1> QED
    BY <1>6, <1>7 DEF TestInv
(* A process is created: it is at the first instruction of its program.    *)
LEMMA CreatePlaces ==
  ASSUME IInv, TestInv, Running, DoCreate
  PROVE  TestInv' /\ (\E p \in Pcbs : createProcess(p))
  <1>1. PICK new : /\ createProcess(new) /\ Now.op = "create"
                   /\ at' = [Advance EXCEPT ![new] = [prog |-> Now.arg, pc |-> 1]]
    BY DEF DoCreate
  <1>2. new \in pcbFree /\ new \in Pcbs /\ pcbFree' = pcbFree \ {new}
    BY <1>1 DEF createProcess, IInv, TypeOK
  <1>3. /\ current \in Live /\ at[current].pc \in Nat /\ Now \in Instrs
        /\ at[current].prog \in DOMAIN Programs
        /\ Len(Programs[at[current].prog]) \in Nat
        /\ Now \notin Ends => at[current].pc < Len(Programs[at[current].prog])
    BY NowFacts
  <1>4. Now \notin Ends /\ Now.arg \in DOMAIN Programs
    BY <1>1, <1>3, OpFacts
  <1>5. /\ Advance \in [Pcbs -> [prog : DOMAIN Programs \cup {"none"}, pc : Nat]]
        /\ Advance[current].prog = at[current].prog
        /\ Advance[current].pc = at[current].pc + 1
        /\ \A p \in Pcbs : p # current => Advance[p] = at[p]
    BY <1>3 DEF Advance, TestInv, Live
  <1>6. at' \in [Pcbs -> [prog : DOMAIN Programs \cup {"none"}, pc : Nat]]
    BY <1>1, <1>2, <1>4, <1>5
  <1>7. ASSUME NEW p \in Live'
        PROVE  /\ at'[p].prog \in DOMAIN Programs
               /\ at'[p].pc \in 1..Len(Programs[at'[p].prog])
    <2>1. CASE p = new
      <3>1. at'[p].prog = Now.arg /\ at'[p].pc = 1
        BY <1>1, <1>2, <1>5, <2>1
      <3>2. Len(Programs[Now.arg]) \in Nat /\ Len(Programs[Now.arg]) > 0
        BY <1>4, ProgramsFormed, EmptySeq, LenProperties DEF WellFormed
      <3> QED
        BY <1>4, <3>1, <3>2
    <2>2. CASE p # new
      <3>1. p \in Live /\ at'[p] = Advance[p]
        BY <1>1, <1>2, <1>5, <2>2 DEF Live
      <3>2. CASE p = current
        BY <1>3, <1>4, <1>5, <3>1, <3>2
      <3>3. CASE p # current
        BY <1>5, <3>1, <3>3 DEF TestInv, Live
      <3> QED
        BY <3>2, <3>3
    <2> QED
      BY <2>1, <2>2
  <1> QED
    BY <1>1, <1>2, <1>6, <1>7 DEF TestInv

(* An instruction which does not call the kernel.                          *)
LEMMA OwnPlaces ==
  ASSUME IInv, TestInv, Running, DoOwn
  PROVE  TestInv' /\ UNCHANGED vars
  <1>1. /\ current \in Live /\ at[current].pc \in Nat /\ Now \in Instrs
        /\ at[current].prog \in DOMAIN Programs
        /\ Len(Programs[at[current].prog]) \in Nat
        /\ Now.op = "untilLong" => at[current].pc > 1
        /\ Now \notin Ends => at[current].pc < Len(Programs[at[current].prog])
    BY NowFacts
  <1>2. Now.op \in {"store", "check", "synch", "untilLong"}
        /\ (at' = Advance \/ (Now.op = "untilLong" /\ at' = [at EXCEPT ![current].pc = @ - 1]))
    BY DEF DoOwn
  <1>3. Now \notin Ends
    BY <1>1, <1>2, OpFacts
  <1>4. UNCHANGED vars
    BY DEF DoOwn
  <1>5. PICK k \in Nat : /\ k \in 1..Len(Programs[at[current].prog])
                         /\ at' = [at EXCEPT ![current].pc = k]
    <2>1. CASE at' = Advance
      <3>1. at' = [at EXCEPT ![current].pc = at[current].pc + 1]
        BY <1>1, <2>1 DEF Advance, TestInv, Live
      <3>2. at[current].pc + 1 \in 1..Len(Programs[at[current].prog])
        BY <1>1, <1>3
      <3> WITNESS at[current].pc + 1 \in Nat
      <3> QED
        BY <3>1, <3>2
    <2>2. CASE Now.op = "untilLong" /\ at' = [at EXCEPT ![current].pc = @ - 1]
      <3>1. at' = [at EXCEPT ![current].pc = at[current].pc - 1]
        BY <1>1, <2>2 DEF TestInv, Live
      <3>2. at[current].pc - 1 \in 1..Len(Programs[at[current].prog])
        BY <1>1, <1>3, <2>2
      <3>3. at[current].pc - 1 \in Nat
        BY <1>1, <3>2
      <3> WITNESS at[current].pc - 1 \in Nat
      <3> QED
        BY <3>1, <3>2
    <2> QED
      BY <1>2, <2>1, <2>2
  <1>6. at' \in [Pcbs -> [prog : DOMAIN Programs \cup {"none"}, pc : Nat]]
    BY <1>1, <1>5 DEF TestInv, Live
  <1>7. ASSUME NEW p \in Live'
        PROVE  /\ at'[p].prog \in DOMAIN Programs
               /\ at'[p].pc \in 1..Len(Programs[at'[p].prog])
    <2>1. p \in Live
      BY <1>4 DEF vars, Live
    <2>2. CASE p = current
      BY <1>1, <1>5, <2>2 DEF TestInv, Live
    <2>3. CASE p # current
      BY <1>5, <2>1, <2>3 DEF TestInv, Live
    <2> QED
      BY <2>2, <2>3
  <1> QED
    BY <1>4, <1>6, <1>7 DEF TestInv

(* A step which moves nobody and frees and takes no pcb.                   *)
LEMMA StayPlaces ==
  ASSUME TestInv, UNCHANGED <<at, pcbFree>>
  PROVE  TestInv'
  BY DEF TestInv, Live

-----------------------------------------------------------------------------
(* The steps of the test are steps of the nucleus whose processes either   *)
(* may do anything, or are careful as those of the test are.               *)

Latitude ==
  \/ {"self", "ancestor", "other"} \subseteq KillScope /\ ~CarefulIO
  \/ {"self", "ancestor"} \subseteq KillScope /\ Careful

LEMMA CallIsSyscall ==
  ASSUME TestAssumption, IInv, TestInv, Latitude, Running, DoCall
  PROVE  Syscall
  <1>1. /\ current \in Pcbs /\ Now \in Instrs
        /\ Now.op \in {"passeren", "verhogen"} => Now.arg \in USems
        /\ Now.op = "doIO" => Now.arg \in Regs
    BY NowFacts, OpFacts, NucleusAssumption DEF TestAssumption, Live
  <1>2. ASSUME \/ Now.op = "passeren" /\ passeren(Now.arg)
               \/ Now.op = "verhogen" /\ verhogen(Now.arg)
        PROVE  Syscall
    BY <1>1, <1>2 DEF Syscall
  <1>3. ASSUME Now.op = "doIO", doIO(Now.arg)
        PROVE  Syscall
    <2>1. MayDoIO(Now.arg)
      BY <1>3 DEF Latitude, Careful, MayDoIO
    <2> QED
      BY <1>1, <1>3, <2>1 DEF Syscall
  <1>4. ASSUME Now.op \in {"terminate", "trap"}, TermSelf \/ passUpOrDie
        PROVE  Syscall
    <2>1. MayKill(current)
      BY <1>4 DEF Latitude, Careful, MayKill
    <2>2. "self" \in KillScope
      BY DEF Latitude
    <2> QED
      BY <1>4, <2>1, <2>2 DEF Syscall
  <1>5. ASSUME Now.op = "termParent", TermOther(p_parent[current])
        PROVE  Syscall
    <2>1. p_parent[current] \in Pcbs
      BY <1>5, RangeType DEF IInv, TypeOK, TermOther, Blocked
    <2>2. InScope(p_parent[current]) /\ MayKill(p_parent[current])
      BY <1>5 DEF Latitude, Careful, InScope, MayKill
    <2> QED
      BY <1>5, <2>1, <2>2 DEF Syscall
  <1>6. ASSUME clockWait
        PROVE  Syscall
    BY <1>6 DEF Syscall
  <1> QED
    BY <1>2, <1>3, <1>4, <1>5, <1>6 DEF DoCall

LEMMA TestStep ==
  ASSUME TestAssumption, IInv, TestInv, Latitude, [TestNext]_allVars
  PROVE  [Next]_vars /\ TestInv'
  <1>1. CASE Step
    <2>1. CASE DoCreate
      BY <1>1, <2>1, CreatePlaces DEF Step, Next, Syscall
    <2>2. CASE DoCall
      BY <1>1, <2>2, CallPlaces, CallIsSyscall DEF Step, Next
    <2>3. CASE DoOwn
      BY <1>1, <2>3, OwnPlaces DEF Step
    <2> QED
      BY <1>1, <2>1, <2>2, <2>3 DEF Step
  <1>2. CASE \E it \in BOOLEAN : Interrupted(it)
    <2>1. PICK it \in BOOLEAN, plt \in BOOLEAN : interruptHandler(plt, it) /\ at' = at
      BY <1>2 DEF Interrupted
    <2>2. pcbFree' = pcbFree
      BY <2>1 DEF interruptHandler, procs
    <2> QED
      BY <2>1, <2>2, StayPlaces DEF Next, Interrupt
  <1>3. CASE Completed
    <2>1. pcbFree' = pcbFree /\ at' = at
      BY <1>3 DEF Completed, DeviceDone, procs, testVars
    <2> QED
      BY <1>3, <2>1, StayPlaces DEF Next, Completed
  <1>4. CASE UNCHANGED allVars
    BY <1>4, StayPlaces DEF allVars, testVars, vars
  <1> QED
    BY <1>1, <1>2, <1>3, <1>4 DEF TestNext

LEMMA TestStarts ==
  ASSUME TestAssumption, TestInit
  PROVE  Init /\ TestInv
  <1>1. sem \in {v \in [Sems -> {0, 1}] : \A s \in SoftSems : v[s] = 0}
    BY NucleusAssumption DEF TestInit, TestAssumption, TestSems, Sems, SoftSems
  <1>2. PICK t \in Tests : at = [p \in Pcbs |-> IF p = current THEN [prog |-> t, pc |-> 1]
                                                ELSE Off]
    BY DEF TestInit
  <1>3. t \in DOMAIN Programs /\ Len(Programs[t]) \in Nat /\ Len(Programs[t]) > 0
    <2>1. t \in DOMAIN Programs
      BY ProgramNames
    <2>2. Programs[t] \in Seq(Instrs) /\ Programs[t] # <<>>
      BY <2>1, ProgramsFormed DEF WellFormed
    <2> QED
      BY <2>1, <2>2, EmptySeq
  <1>4. Live \subseteq {current}
    BY DEF TestInit, Boot, Live
  <1>5. TestInv
    BY <1>2, <1>3, <1>4 DEF TestInv, Off, Live
  <1> QED
    BY <1>1, <1>5 DEF TestInit, Init

LEMMA TestRun ==
  ASSUME TestAssumption
  PROVE  TestSpec /\ []Latitude => Spec
  <1>1. TestInit => Init /\ IInv /\ TestInv
    BY TestStarts, InitInv
  <1>2. IInv /\ TestInv /\ Latitude /\ [TestNext]_allVars => [Next]_vars /\ IInv' /\ TestInv'
    <2> SUFFICES ASSUME IInv, TestInv, Latitude, [TestNext]_allVars
                 PROVE  [Next]_vars /\ IInv' /\ TestInv'
      OBVIOUS
    <2>1. [Next]_vars /\ TestInv'
      BY TestStep
    <2> QED
      BY <2>1, NextInv DEF NextAny
  <1> QED
    BY <1>1, <1>2, PTL DEF TestSpec, Spec

(* The phase 2 test is a behaviour of the nucleus for any number of        *)
(* processes, loops and rounds (p2test_04.c: its programs make no other    *)
(* calls than those modelled, with the semaphores and devices there are):  *)
(* what is proved of every program holds of it.  The test has no part in   *)
(* KillScope and CarefulIO, which only say what the programs of Spec do.   *)
THEOREM TestIsNucleus ==
  ASSUME TestAssumption, KillScope = {"self", "ancestor", "other"}, ~CarefulIO
  PROVE  TestSpec => Spec
  <1>1. Latitude
    BY DEF Latitude
  <1>2. []Latitude
    BY <1>1, PTL
  <1> QED
    BY <1>2, TestRun, PTL

(* As long as it is as careful as the run finds it (Careful), the test is  *)
(* a behaviour of the nucleus also when its programs are to be careful.    *)
THEOREM CarefulTestIsNucleus ==
  ASSUME TestAssumption, {"self", "ancestor"} \subseteq KillScope
  PROVE  TestSpec /\ []Careful => Spec
  <1>1. Careful => Latitude
    BY DEF Latitude
  <1> QED
    BY <1>1, TestRun, PTL

(* If the nucleus is given the half of the terminal the test prints on,    *)
(* none of its processes is ever forgotten, and the scheduler halts, waits *)
(* and panics when it should, as long as the test is as careful.           *)
THEOREM CarefulTestVerdict ==
  ASSUME TestAssumption, TakesCare, {"self", "ancestor"} \subseteq KillScope
  PROVE  TestSpec /\ []Careful => [](NobodyLost /\ IOUnderWay /\ Verdict)
  <1>1. TestSpec /\ []Careful => Spec
    BY CarefulTestIsNucleus
  <1>2. Spec => []NobodyLost /\ []IOUnderWay /\ []Verdict
    BY NobodyLostAlways, IOUnderWayAlways, VerdictAlways
  <1> QED
    BY <1>1, <1>2, PTL
=============================================================================
