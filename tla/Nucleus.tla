------------------------------ MODULE Nucleus -------------------------------
(***************************************************************************)
(* The PandOS nucleus: scheduler.c, syscall.c, interrupt.c, exception.c,   *)
(* devices.c and main.c of pandos/phase2, on top of the process queues of  *)
(* pandos/phase1/pcb.c and the semaphore table (see Ash, SemQueues).       *)
(*                                                                         *)
(* The kernel runs on one processor with interrupts disabled, so a system  *)
(* call, a trap or an interrupt is handled in one step, from the exception *)
(* to the LDST which ends it.  Concurrency is between the processes, the   *)
(* devices and the two timers: which of them acts next is left open.       *)
(*                                                                         *)
(* Device registers are named by the index of their semaphore in dev_sems: *)
(* (line - 3) * 8 + device for disks, flashes, networks and printers, and  *)
(* 32 + 2 * device (+ 1) for the receiving (transmitting) half of a        *)
(* terminal.                                                               *)
(***************************************************************************)
EXTENDS Queues

CONSTANTS Pcbs,       \* the process control blocks
          USems,      \* the semaphores in the memory of the processes
          Regs,       \* the device registers the processes name in DOIO
          Installed,  \* those of them whose device is installed
          Clock,      \* pseudo_clock_sem
          NULL,       \* the null pointer
          UIntMod,    \* the counters are unsigned: arithmetic is modulo this
          KillScope,  \* whom TERMPROCESS may name
          CarefulIO   \* the processes share the devices with care: see below

SoftSems == Regs \cup {Clock}
Sems == USems \cup SoftSems

ASSUME NucleusAssumption ==
  /\ Regs \subseteq 0..47 /\ Installed \subseteq Regs
  /\ NULL \notin Pcbs \cup Sems
  /\ Clock \notin USems \cup Regs /\ USems \cap Regs = {}
  /\ IsFiniteSet(Pcbs)
  /\ UIntMod \in Nat /\ Cardinality(Pcbs) < UIntMod
  /\ KillScope \subseteq {"self", "ancestor", "other"}
  /\ CarefulIO \in BOOLEAN

VARIABLES pcbFree,           \* pcbFree_h, as a set: any free pcb may be next
          p_parent,          \* the process tree
          ready,             \* ready_queue
          current,           \* current_active_process
          mode,              \* what schedule() last did
          blocked,           \* the queue of every semaphore (SemQueues)
          sem,               \* the value of every semaphore
          process_count,
          soft_block_count,
          device,            \* the status of every register
          call               \* the system call a blocked process is in

vars == <<pcbFree, p_parent, ready, current, mode, blocked, sem,
          process_count, soft_block_count, device, call>>

procs == <<pcbFree, p_parent>>

Live == Pcbs \ pcbFree
WaitsOn(p) == {s \in Sems : p \in Range(blocked[s])}
Blocked == {p \in Pcbs : WaitsOn(p) # {}}
SoftBlocked == {p \in Pcbs : WaitsOn(p) \cap SoftSems # {}}

(* p and all its descendants: the least set which contains p and, with a   *)
(* process, its children.                                                  *)
Progeny(p) ==
  LET children == {c \in Pcbs : p_parent[c] # NULL}
      closed == {S \in SUBSET ({p} \cup children) :
                   p \in S /\ \A c \in children : p_parent[c] \in S => c \in S}
  IN  {q \in Pcbs : \A S \in closed : q \in S}

(* unsigned arithmetic *)
Plus(n, k) == (n + k) % UIntMod
Minus(n, k) == (n - k) % UIntMod

-----------------------------------------------------------------------------
(* Scheduler.                                                              *)

(* Bug for the runs to find: a process is put at the head of the queue.    *)
EnqueueFront(q, ps) == ps \o Without(q, Range(ps))

(* enqueueReady for each of the processes of ps in turn.  insertProcQ      *)
(* unlinks a process before it links it at the tail.  A second call for    *)
(* the same process, as V and its caller make it for a device, is left     *)
(* out: it changes nothing (EnqueueTwice of NucleusProofs).                *)
Enqueue(q, ps) == Without(q, Range(ps)) \o ps

(* Bugs: the machine is halted also when all processes are deadlocked; the *)
(* current process is not forgotten.                                       *)
scheduleHalts(q, n, s) ==
  /\ process_count' = n
  /\ soft_block_count' = s
  /\ \/ /\ q # <<>>
        /\ current' = Head(q) /\ ready' = Tail(q) /\ mode' = "run"
     \/ /\ q = <<>>
        /\ current' = NULL /\ ready' = q
        /\ mode' = IF s > 0 THEN "wait" ELSE "halt"

scheduleRemembers(q, n, s) ==
  /\ process_count' = n
  /\ soft_block_count' = s
  /\ \/ /\ q # <<>>
        /\ current' = Head(q) /\ ready' = Tail(q) /\ mode' = "run"
     \/ /\ q = <<>>
        /\ current' = current /\ ready' = q
        /\ mode' = IF n = 0 THEN "halt" ELSE IF s > 0 THEN "wait" ELSE "panic"

(* schedule(), called with the ready queue q and the counters n and s.     *)
schedule(q, n, s) ==
  /\ process_count' = n
  /\ soft_block_count' = s
  /\ \/ /\ q # <<>>
        /\ current' = Head(q) /\ ready' = Tail(q) /\ mode' = "run"
     \/ /\ q = <<>>
        /\ current' = NULL /\ ready' = q
        /\ mode' = IF n = 0 THEN "halt" ELSE IF s > 0 THEN "wait" ELSE "panic"

(* LDST(excState): the interrupted process goes on.                        *)
resume(q) ==
  /\ ready' = q
  /\ UNCHANGED <<current, mode, process_count, soft_block_count>>

(* After initKernel, initDevSems and the first schedule(): the root        *)
(* process, which executes test(), is running.                             *)
Boot ==
  /\ \E root \in Pcbs : pcbFree = Pcbs \ {root} /\ current = root
  /\ p_parent = [p \in Pcbs |-> NULL]
  /\ ready = <<>>
  /\ mode = "run"
  /\ blocked = [s \in Sems |-> <<>>]
  /\ process_count = 1 /\ soft_block_count = 0
  /\ device = [r \in Regs |-> "ready"]
  /\ call = [p \in Pcbs |-> "none"]

(* The programs give their semaphores the values they like.                *)
Init ==
  /\ Boot
  /\ sem \in {v \in [Sems -> {0, 1}] : \A s \in SoftSems : v[s] = 0}

-----------------------------------------------------------------------------
(* System calls of the running process.                                    *)

(* A process executes no instruction while an interrupt is pending: the    *)
(* processes run with interrupts on and all lines unmasked (main.c).       *)
Pending == {r \in Regs : device[r] = "done"}
Running == mode = "run" /\ Pending = {}

(* SYS 1.  Without a free pcb the call returns -1 and changes nothing.     *)
createProcess(new) ==
  /\ Running /\ new \in pcbFree
  /\ pcbFree' = pcbFree \ {new}
  /\ p_parent' = [p_parent EXCEPT ![new] = current]
  /\ ready' = Enqueue(ready, <<new>>)
  /\ process_count' = Plus(process_count, 1)
  /\ UNCHANGED <<current, mode, blocked, sem, soft_block_count, device, call>>

(* insertBlocked(s, currentProc()), and the state saved for its return.    *)
BlockCurrent(s, c) ==
  /\ blocked' = [blocked EXCEPT ![s] = Append(@, current)]
  /\ call' = [call EXCEPT ![current] = c]

(* Bug: the process taken out of the semaphore is not made ready.          *)
WakeHeadForgets(s) ==
  /\ blocked' = [blocked EXCEPT ![s] = Tail(@)]
  /\ call' = [call EXCEPT ![Head(blocked[s])] = "none"]
  /\ resume(ready)

(* removeBlocked(s) and enqueueReady.                                      *)
WakeHead(s) ==
  /\ blocked' = [blocked EXCEPT ![s] = Tail(@)]
  /\ call' = [call EXCEPT ![Head(blocked[s])] = "none"]
  /\ resume(Enqueue(ready, <<Head(blocked[s])>>))

(* Bugs: a P that wakes a process also takes the value; a V never waits,   *)
(* as if the semaphores were not binary.                                   *)
passerenTakes(s) ==
  /\ Running
  /\ \/ /\ sem[s] = 0
        /\ BlockCurrent(s, "passeren")
        /\ schedule(ready, process_count, soft_block_count)
        /\ UNCHANGED sem
     \/ /\ sem[s] # 0
        /\ sem' = [sem EXCEPT ![s] = Minus(@, 1)]
        /\ IF blocked[s] # <<>> THEN WakeHead(s)
           ELSE resume(ready) /\ UNCHANGED <<blocked, call>>
  /\ UNCHANGED <<procs, device>>

verhogenCounts(s) ==
  /\ Running
  /\ \/ /\ blocked[s] # <<>>
        /\ WakeHead(s)
        /\ UNCHANGED sem
     \/ /\ blocked[s] = <<>>
        /\ sem' = [sem EXCEPT ![s] = Plus(@, 1)]
        /\ resume(ready)
        /\ UNCHANGED <<blocked, call>>
  /\ UNCHANGED <<procs, device>>

(* SYS 3.                                                                  *)
passeren(s) ==
  /\ Running
  /\ \/ /\ sem[s] = 0
        /\ BlockCurrent(s, "passeren")
        /\ schedule(ready, process_count, soft_block_count)
        /\ UNCHANGED sem
     \/ /\ sem[s] # 0 /\ blocked[s] # <<>>
        /\ WakeHead(s)
        /\ UNCHANGED sem
     \/ /\ sem[s] # 0 /\ blocked[s] = <<>>
        /\ sem' = [sem EXCEPT ![s] = Minus(@, 1)]
        /\ resume(ready)
        /\ UNCHANGED <<blocked, call>>
  /\ UNCHANGED <<procs, device>>

(* SYS 4: the semaphores are binary, and a V on a full one waits.          *)
verhogen(s) ==
  /\ Running
  /\ \/ /\ sem[s] = 1
        /\ BlockCurrent(s, "verhogen")
        /\ schedule(ready, process_count, soft_block_count)
        /\ UNCHANGED sem
     \/ /\ sem[s] # 1 /\ blocked[s] # <<>>
        /\ WakeHead(s)
        /\ UNCHANGED sem
     \/ /\ sem[s] # 1 /\ blocked[s] = <<>>
        /\ sem' = [sem EXCEPT ![s] = Plus(@, 1)]
        /\ resume(ready)
        /\ UNCHANGED <<blocked, call>>
  /\ UNCHANGED <<procs, device>>

(* Bugs: the process is not counted as soft blocked; P is off by one and   *)
(* takes a semaphore which is already taken.                               *)
PThenScheduleUncounted(s, c) ==
  \/ /\ sem[s] <= 0
     /\ BlockCurrent(s, c)
     /\ schedule(ready, process_count, soft_block_count)
     /\ UNCHANGED sem
  \/ /\ sem[s] > 0
     /\ sem' = [sem EXCEPT ![s] = 0]
     /\ schedule(ready, process_count, soft_block_count)
     /\ UNCHANGED <<blocked, call>>

PThenScheduleTakes(s, c) ==
  \/ /\ sem[s] < 0
     /\ BlockCurrent(s, c)
     /\ schedule(ready, process_count, Plus(soft_block_count, 1))
     /\ UNCHANGED sem
  \/ /\ sem[s] >= 0
     /\ sem' = [sem EXCEPT ![s] = 0]
     /\ schedule(ready, process_count, soft_block_count)
     /\ UNCHANGED <<blocked, call>>

(* P of interrupt.c on a device or clock semaphore, then schedule().       *)
(* The caller is not put on the ready queue when P does not block it.      *)
PThenSchedule(s, c) ==
  \/ /\ sem[s] <= 0
     /\ BlockCurrent(s, c)
     /\ schedule(ready, process_count, Plus(soft_block_count, 1))
     /\ UNCHANGED sem
  \/ /\ sem[s] > 0
     /\ sem' = [sem EXCEPT ![s] = 0]
     /\ schedule(ready, process_count, soft_block_count)
     /\ UNCHANGED <<blocked, call>>

(* Bug: the command is not written to the device.                          *)
doIOSilent(r) ==
  /\ Running
  /\ \/ /\ r \in Installed
        /\ PThenSchedule(r, "doIO")
     \/ /\ r \notin Installed
        /\ schedule(ready, process_count, soft_block_count)
        /\ UNCHANGED <<blocked, sem, call>>
  /\ UNCHANGED <<procs, device>>

(* SYS 5.  A busy device ignores the command.  For a device which is not   *)
(* installed nothing is written and there is no P, but the system call     *)
(* handler calls schedule() all the same.                                  *)
doIO(r) ==
  /\ Running
  /\ \/ /\ r \in Installed
        /\ device' = [device EXCEPT ![r] = "busy"]
        /\ PThenSchedule(r, "doIO")
     \/ /\ r \notin Installed
        /\ schedule(ready, process_count, soft_block_count)
        /\ UNCHANGED <<device, blocked, sem, call>>
  /\ UNCHANGED procs

(* SYS 7.                                                                  *)
clockWait ==
  /\ Running
  /\ PThenSchedule(Clock, "clockWait")
  /\ UNCHANGED <<procs, device>>

-----------------------------------------------------------------------------
(* Termination.                                                            *)

(* Bugs: the children of p are forgotten; the dead are not taken off the   *)
(* ready queue; those who waited for a device are not discounted.          *)
terminateAlone(p) ==
  /\ pcbFree' = pcbFree \cup {p}
  /\ p_parent' = [p_parent EXCEPT ![p] = NULL]
  /\ blocked' = [s \in Sems |-> Without(blocked[s], {p})]
  /\ call' = [call EXCEPT ![p] = "none"]
  /\ schedule(Without(ready, {p}), Minus(process_count, 1),
              Minus(soft_block_count, Cardinality({p} \cap SoftBlocked)))
  /\ UNCHANGED <<sem, device>>

terminateStillReady(p) ==
  LET dead == Progeny(p) IN
  /\ pcbFree' = pcbFree \cup dead
  /\ p_parent' = [q \in Pcbs |-> IF q \in dead THEN NULL ELSE p_parent[q]]
  /\ blocked' = [s \in Sems |-> Without(blocked[s], dead)]
  /\ call' = [q \in Pcbs |-> IF q \in dead THEN "none" ELSE call[q]]
  /\ schedule(ready, Minus(process_count, Cardinality(dead)),
              Minus(soft_block_count, Cardinality(dead \cap SoftBlocked)))
  /\ UNCHANGED <<sem, device>>

terminateUncounted(p) ==
  LET dead == Progeny(p) IN
  /\ pcbFree' = pcbFree \cup dead
  /\ p_parent' = [q \in Pcbs |-> IF q \in dead THEN NULL ELSE p_parent[q]]
  /\ blocked' = [s \in Sems |-> Without(blocked[s], dead)]
  /\ call' = [q \in Pcbs |-> IF q \in dead THEN "none" ELSE call[q]]
  /\ schedule(Without(ready, dead), Minus(process_count, Cardinality(dead)),
              soft_block_count)
  /\ UNCHANGED <<sem, device>>

(* terminateProcess(p): p and its progeny leave the tree and every queue,  *)
(* wherever they are, and the scheduler is called.  The values of the      *)
(* semaphores they waited on stay as they are.                             *)
terminateProcess(p) ==
  \E dead \in {Progeny(p)} :
  /\ pcbFree' = pcbFree \cup dead
  /\ p_parent' = [q \in Pcbs |-> IF q \in dead THEN NULL ELSE p_parent[q]]
  /\ blocked' = [s \in Sems |-> Without(blocked[s], dead)]
  /\ call' = [q \in Pcbs |-> IF q \in dead THEN "none" ELSE call[q]]
  /\ schedule(Without(ready, dead),
              Minus(process_count, Cardinality(dead)),
              Minus(soft_block_count, Cardinality(dead \cap SoftBlocked)))
  /\ UNCHANGED <<sem, device>>

(* SYS 2 with pid 0.                                                       *)
TermSelf ==
  /\ Running
  /\ terminateProcess(current)

(* An exception of a process without a support structure: a program trap,  *)
(* a TLB exception, a system call in user mode or an unknown one.  With a  *)
(* support structure the exception is passed up: the process goes on in    *)
(* its handler and the kernel changes nothing, as with the system calls    *)
(* that only read (GETTIME, GETSUPPORTPTR, GETPROCESSID, GETCHILDREN).     *)
passUpOrDie ==
  /\ Running
  /\ terminateProcess(current)

(* SYS 2 with the pid of p.  findPcb looks at the ready queue and at the   *)
(* queues of all semaphores.                                               *)
TermOther(p) ==
  /\ Running
  /\ p \in Range(ready) \cup Blocked
  /\ terminateProcess(p)

(* SYS 2 with any other pid: of a process which is gone, or of the caller  *)
(* itself.  findPcb returns NULL, and __terminateProcess(NULL) reads a     *)
(* p_semAdd which is not there: it may or may not look like a device's.    *)
TermUnknown ==
  /\ Running
  /\ \E k \in {0, 1} :
       schedule(ready, Minus(process_count, 1), Minus(soft_block_count, k))
  /\ UNCHANGED <<procs, blocked, sem, device, call>>

-----------------------------------------------------------------------------
(* Interrupts.                                                             *)

Line(r) == IF r >= 32 THEN 7 ELSE 3 + (r \div 8)
Terminal(r) == (r - 32) \div 2

(* Bug: the loop of getInterruptingDevice does not run: it is always the   *)
(* first device of the line.                                               *)
ServedFirst(line) ==
  {r \in Regs : /\ Line(r) = line /\ r % 8 = 0
                /\ \E t \in Pending : Line(t) = line}

(* manageDevices serves one device per line, the pending one with the      *)
(* highest number (getInterruptingDevice).                                 *)
Served(line) ==
  {r \in Pending : Line(r) = line /\ \A t \in Pending : Line(t) = line => t <= r}

(* For the terminal with the highest number, both halves are served unless *)
(* busy, transmission (half 1) first: also a half which is merely ready.   *)
ServedHalf(half) ==
  {r \in Installed :
     /\ Line(r) = 7 /\ r % 2 = half /\ device[r] # "busy"
     /\ \E t \in Served(7) : Terminal(r) = Terminal(t)}

AllServed ==
  Served(3) \cup Served(4) \cup Served(5) \cup Served(6)
    \cup ServedHalf(1) \cup ServedHalf(0)

(* V on the semaphore of the register in R, if there is one: the process   *)
(* it wakes, as a sequence.                                                *)
Wakes(R) ==
  IF \E r \in R : blocked[r] # <<>>
  THEN <<Head(blocked[CHOOSE r \in R : blocked[r] # <<>>])>>
  ELSE <<>>

(* An interrupt: plt and it say whether the local and the interval timer   *)
(* are among the pending interrupts; all devices which are done are.  A    *)
(* time slice ends only while a process runs: its status has the TE bit,   *)
(* that of the waiting scheduler has not.                                  *)
interruptHandler(plt, it) ==
  LET ticked == IF it THEN blocked[Clock] ELSE <<>>
      woken == ticked \o Wakes(Served(3)) \o Wakes(Served(4))
                 \o Wakes(Served(5)) \o Wakes(Served(6))
                 \o Wakes(ServedHalf(1)) \o Wakes(ServedHalf(0))
      queue == Enqueue(IF plt THEN Enqueue(ready, <<current>>) ELSE ready, woken)
      soft  == Minus(soft_block_count, Len(woken))
  IN
  /\ plt \/ it \/ Pending # {}
  /\ mode = "run" \/ (mode = "wait" /\ ~plt)
  /\ blocked' = [s \in Sems |->
                   IF s = Clock /\ it THEN <<>>
                   ELSE IF s \in AllServed /\ blocked[s] # <<>>
                        THEN Tail(blocked[s]) ELSE blocked[s]]
  /\ sem' = [s \in Sems |->
               IF s = Clock /\ it THEN 0
               ELSE IF s \in AllServed /\ blocked[s] = <<>>
                    THEN 1 ELSE sem[s]]
  /\ device' = [r \in Regs |-> IF r \in AllServed THEN "ready" ELSE device[r]]
  /\ call' = [p \in Pcbs |-> IF p \in Range(woken) THEN "none" ELSE call[p]]
  /\ \/ /\ plt \/ current = NULL
        /\ schedule(queue, process_count, soft)
     \/ /\ ~plt /\ current # NULL
        /\ ready' = queue
        /\ soft_block_count' = soft
        /\ UNCHANGED <<current, mode, process_count>>
  /\ UNCHANGED procs

(* A device completes the operation it was given.                          *)
DeviceDone(r) ==
  /\ mode \in {"run", "wait"}
  /\ device[r] = "busy"
  /\ device' = [device EXCEPT ![r] = "done"]
  /\ UNCHANGED <<procs, ready, current, mode, blocked, sem, process_count,
                 soft_block_count, call>>

-----------------------------------------------------------------------------
(* What the processes do.  With CarefulIO they behave as those of the      *)
(* phase 2 test: they take turns at a device, and nobody terminates a      *)
(* process which waits for one.                                            *)
MayDoIO(r) == CarefulIO => blocked[r] = <<>>
MayKill(p) ==
  CarefulIO => \A q \in Progeny(p), r \in Regs : q \notin Range(blocked[r])

InScope(p) == (IF current \in Progeny(p) THEN "ancestor" ELSE "other") \in KillScope

Syscall ==
  \/ \E p \in Pcbs : createProcess(p)
  \/ \E s \in USems : passeren(s) \/ verhogen(s)
  \/ \E r \in Regs : MayDoIO(r) /\ doIO(r)
  \/ clockWait
  \/ "self" \in KillScope /\ MayKill(current) /\ TermSelf
  \/ "self" \in KillScope /\ MayKill(current) /\ passUpOrDie
  \/ \E p \in Pcbs : InScope(p) /\ MayKill(p) /\ TermOther(p)

Interrupt == \E plt, it \in BOOLEAN : interruptHandler(plt, it)

Next ==
  \/ Syscall
  \/ Interrupt
  \/ \E r \in Regs : DeviceDone(r)

Spec == Init /\ [][Next]_vars

(* The processes also name pids which are nobody's.  The counters are      *)
(* wrong after that: only OnePlaceUnknown of NucleusProofs is about this.  *)
SpecUnknown == Init /\ [][Next \/ TermUnknown]_vars

-----------------------------------------------------------------------------
(* Invariants of every program.                                            *)

Modes == {"run", "wait", "halt", "panic"}
Calls == {"none", "passeren", "verhogen", "doIO", "clockWait"}

(* The shape of the state.                                                 *)
TypeOK ==
  /\ pcbFree \subseteq Pcbs
  /\ p_parent \in [Pcbs -> Pcbs \cup {NULL}]
  /\ ready \in Seq(Pcbs)
  /\ current \in Pcbs \cup {NULL}
  /\ mode \in Modes
  /\ blocked \in [Sems -> Seq(Pcbs)]
  /\ sem \in [Sems -> {0, 1}]
  /\ process_count \in 0..(UIntMod - 1)
  /\ soft_block_count \in 0..(UIntMod - 1)
  /\ device \in [Regs -> {"ready", "busy", "done"}]
  /\ call \in [Pcbs -> Calls]

(* p_list links a process into one list at a time: the running process is  *)
(* in none, and nobody is in two, nor twice in one, nor free and in a      *)
(* queue, whoever wakes a process, and although a termination takes        *)
(* processes out of every queue.                                           *)
OnePlace ==
  /\ NoRepeats(ready)
  /\ \A s \in Sems : NoRepeats(blocked[s])
  /\ \A p \in Pcbs : Cardinality(WaitsOn(p)) <= 1
  /\ \A p \in Range(ready) : p \in Live /\ p # current /\ p \notin Blocked
  /\ \A p \in Blocked : p \in Live /\ p # current
  /\ current \in Live \cup {NULL}
  /\ current = NULL <=> mode # "run"

(* The two counters the scheduler decides on count what they say they do.  *)
Accounting ==
  /\ process_count = Cardinality(Live)
  /\ soft_block_count = Cardinality(SoftBlocked)

(* Nobody outlives its parent, and the living form one tree.               *)
Family ==
  /\ \A p \in pcbFree : p_parent[p] = NULL
  /\ \A p \in Live : p_parent[p] \in Live \cup {NULL}
  /\ \A p, q \in Live : p_parent[p] = NULL /\ p_parent[q] = NULL => p = q
  /\ \A p \in Live : \E root \in Live : p_parent[root] = NULL /\ p \in Progeny(root)

(* The processes in the queue of a user semaphore all wait for the same    *)
(* thing, and for something the value of the semaphore denies them.        *)
SemaphoreSides ==
  \A s \in USems : \A p \in Range(blocked[s]) :
    call[p] = IF sem[s] = 0 THEN "passeren" ELSE "verhogen"

(* ------------------------------------------------------------------------ *)
(* Invariants of programs which use the kernel with care.                  *)

(* A process which is alive has the processor, waits for it, or waits on a *)
(* semaphore: the kernel has not forgotten it (scheduler.c:35).            *)
NobodyLost == Live \subseteq {current} \cup Range(ready) \cup Blocked

(* The scheduler's verdict on an empty ready queue is right: it waits when *)
(* an interrupt will come that readies a process, and panics when every    *)
(* process waits for another process (scheduler.c:45-52).                  *)
Verdict ==
  /\ mode = "halt" => Live = {}
  /\ mode = "wait" =>
       \E p \in Live : \/ p \in Range(blocked[Clock])
                      \/ \E r \in Regs : /\ p \in Range(blocked[r])
                                        /\ device[r] \in {"busy", "done"}
  /\ mode = "panic" =>
       Live # {} /\ \A p \in Live : \E s \in USems : p \in Range(blocked[s])

(* A process waiting for a device has an operation under way there, and    *)
(* nobody else has: its interrupt will find it at the head of the queue.   *)
IOUnderWay ==
  \A r \in Regs :
    /\ blocked[r] # <<>> => Len(blocked[r]) = 1 /\ sem[r] = 0 /\ device[r] # "ready"
    /\ device[r] # "ready" => blocked[r] # <<>>

(* ------------------------------------------------------------------------ *)
(* What a step may not do.                                                 *)

(* From queue q to queue r nobody moves ahead of another, nobody leaves    *)
(* before those which stood ahead of him, unless he dies, and newcomers    *)
(* stand behind those which stay.                                          *)
InTurn(q, r, dead) ==
  /\ \A a, b \in Range(q) :
       Before(q, a, b) =>
         /\ ~Before(r, b, a)
         /\ b \in Range(r) \cup dead \/ a \notin Range(r)
  /\ \A a \in Range(q) \cap Range(r), b \in Range(r) \ Range(q) : Before(r, a, b)

(* The ready queue and the queues of the semaphores are first in, first    *)
(* out: no process overtakes another which entered the queue before it,    *)
(* though waking, requeueing and terminating touch the middle of queues;   *)
(* and nobody gets the processor past a process which was ready before.    *)
FIFO ==
  [][ /\ InTurn(ready, ready', pcbFree')
      /\ \A s \in Sems : InTurn(blocked[s], blocked[s]', pcbFree')
      /\ current' \notin {current, NULL} \cup Range(ready) =>
           Range(ready) \cap Range(ready') = {} ]_vars

(* Whatever the programs do, the kernel forgets a process (it lives, but   *)
(* neither has nor awaits anything) on three paths only, and then only the *)
(* caller: DOIO on a missing device; DOIO on a semaphore at which an       *)
(* unclaimed V is left; TERMPROCESS of another.  No wake-up, tick, time    *)
(* slice, P, V or wait for the clock loses anyone.                         *)
ForgottenOnlyBy ==
  [][\A p \in Live :
       p \in {current} \cup Range(ready) \cup Blocked =>
         \/ p \notin Live' \/ p \in ({current} \cup Range(ready) \cup Blocked)'
         \/ p = current /\ \E r \in Regs : doIO(r) /\ (r \in Installed => sem[r] = 1)
         \/ p = current /\ \E q \in Pcbs : TermOther(q)]_vars

(* A process which waits for a device that is doing nothing waits for the   *)
(* next operation of somebody else.  It comes to that in one way only: the *)
(* device has completed an operation for a process that stood ahead of it, *)
(* so that its own command was given to a busy device (syscall.c:216).     *)
Stranded(r) == blocked[r] # <<>> /\ device[r] = "ready"
StrandedOnlyBy ==
  [][\A r \in Regs : Stranded(r)' =>
       Stranded(r) \/ (device[r] = "done" /\ Len(blocked[r]) >= 2)]_vars

(* DOIO is a blocking call (syscall.c:335): whoever makes it waits on a    *)
(* semaphore afterwards, and a device interrupt will wake it.              *)
DoIOBlocks ==
  [][\A p \in Pcbs : p = current /\ (\E r \in Installed : doIO(r))
                       => WaitsOn(p)' # {}]_vars

(* ------------------------------------------------------------------------ *)
(* The life of a process.                                                  *)
Life(p) ==
  IF p \in pcbFree THEN "free"
  ELSE IF p = current THEN "running"
  ELSE IF p \in Range(ready) THEN "ready"
  ELSE IF p \in Blocked THEN "blocked" ELSE "lost"

PL == INSTANCE ProcLife WITH life <- [p \in Pcbs |-> Life(p)],
                             halted <- mode = "halt"
ImplementsLife == PL!Spec

(* ------------------------------------------------------------------------ *)
(* Progress.                                                               *)

(* The interval timer never stops; a device completes what it was told to  *)
(* do; pending interrupts are taken; a process which keeps the processor   *)
(* is interrupted when its time slice is over.                             *)
Fairness ==
  /\ WF_vars(\E plt \in BOOLEAN : interruptHandler(plt, TRUE))
  /\ WF_vars(Pending # {} /\ Interrupt)
  /\ \A r \in Regs : WF_vars(DeviceDone(r))
  /\ \A p \in Pcbs :
       WF_vars(current = p /\ \E it \in BOOLEAN : interruptHandler(TRUE, it))

FairSpec == Spec /\ Fairness

(* Every ready process gets the processor, unless it is terminated first.  *)
ReadyRuns ==
  \A p \in Pcbs : p \in Range(ready) ~> current = p \/ p \in pcbFree

(* A process which waits for a device or for the clock is woken, unless it *)
(* is terminated first.                                                    *)
SoftWaitEnds ==
  \A p \in Pcbs : p \in SoftBlocked ~> p \notin SoftBlocked
=============================================================================
