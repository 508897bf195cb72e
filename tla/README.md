# PandOS in TLA+

PandOS is a small operating system nucleus for the µMPS3 machine, written in C:
process and semaphore data structures (`src/pandos/phase1`) and, on top of them,
a scheduler, ten system calls, exception and interrupt handling
(`src/pandos/phase2`). This directory holds TLA+ models of it, the TLC runs that
check them on small instances and proofs, for every instance, of the main facts
about the semaphore table, the linked lists, the process tree, the nucleus, the
allocation of namespaces, the messages of the kernel and the charging of time.

## 1. Inventory

| Component | Code | State | Operations | Modules |
|---|---|---|---|---|
| Scheduler | `phase2/scheduler.c` | ready queue, current process, process and soft-block counts, start time, pid counter | `schedule`, `enqueueReady`, counters | Nucleus, CpuTime |
| System calls | `phase2/syscall.c` | none of its own | SYS 1-10 | Nucleus, Context, Family, CpuTime |
| Interrupts | `phase2/interrupt.c` | none of its own | time slice, interval timer, devices, terminals, `P`, `V` | Nucleus, Context |
| Exceptions | `phase2/exception.c` | `p_time` | dispatch, pass up or die | Nucleus, Context, CpuTime |
| Device semaphores | `phase2/devices.c` | 48 semaphores and the clock's | access | Nucleus |
| Initialization | `phase2/main.c` | none | `initKernel`, `main` | Nucleus, Family |
| Semaphore table | `phase1/ash.c`, `hashtable.h` | free descriptors, hash chains, keys, queues, `p_semAdd` | `insertBlocked`, `removeBlocked`, `outBlocked`, `headBlocked`, `findPcb` | Ash, SemQueues |
| Process queues | `phase1/pcb.c`, `util.h`, `list.h` | `p_list` of every pcb, list heads | `allocPcb`, `freePcb`, `insertProcQ`, `removeProcQ`, `outProcQ`, `headProcQ` | PcbLists, ListHead, ProcQueues |
| Process tree | `phase1/pcb.c` | `p_parent`, `p_child`, `p_sib` | `insertChild`, `removeChild`, `outChild` | Family, ProcFamily |
| Namespaces | `phase1/ns.c` | free and used descriptors, the namespace of every process | `addNamespace`, `allocNamespace`, `getNamespace` | Family, NsAlloc, NsPool |
| Library | `stdlib/*.c` | output buffer | `printf`, `addokbuf`, `termprint`, `itoa`, `strlen`, `strcpy`, `memcpy` | Strings, KernelPrint, Context |
| Phase 2 test | `phase2/p2test_04.c` | its semaphores, the pids it stores | `test` (p1), p2 ... p11 | P2Test |
| Phase 1 tests | `src/tests/p1test.c`, `hashtest.c` | none | unit tests | not modelled |

How they interact. A process gives the processor to the kernel by a system call
or a trap, the devices and the two timers take it by an interrupt; either way
`exceptionHandler` runs with interrupts disabled until it ends in an `LDST`, of
the same process or, through `schedule`, of another. All components share the
process control blocks: the field `p_list` links a process into the free list,
the ready queue or the queue of one semaphore; `p_semAdd` says which; the two
counters of the scheduler count what is in those queues. There are no messages,
and nothing is persisted.

What is hard about it, and what would make it right:

* **One link for all queues.** A process must be in one place, although it is
  moved, woken and terminated from the middle
  of queues. Properties: OnePlace, FIFO, OneRing, LinksAgree.
* **Counters apart from queues.** The verdict of the scheduler (halt, wait or
  panic) is about queues and is reached from counters. Accounting, Verdict.
* **Who is responsible for the caller.** `schedule` forgets the current process;
  every path to it must have put that process in a queue, or freed it.
  ForgottenOnlyBy, NobodyLost, DoIOBlocks. And its processor state must have been
  copied to `p_s`, which is left to each of these paths. GoesOn.
* **Devices and processes out of step.** A completion may find its process gone,
  a terminal half may be served although nothing happened there, several
  interrupts come at once; a command to a busy device is ignored. IOUnderWay,
  DoIOBlocks, StrandedOnlyBy, SoftWaitEnds.
* **Binary semaphores that hand over.** Both P and V can block. SemaphoreSides.
* **Recycling.** Descriptors, pcbs and namespaces are reused with some of their
  old contents. KeysHashed, DescriptorsConserved, ImplementsQueues, SameSpace.
* **Namespaces inherited down the tree.** SameView, that parent and child agree on
  whether they share one; KeepSpace, that the propagation from a child reaches nobody who
  lived before it. Neither says that a new process gets the right one: SameSpace does.
* **Deletion of a subtree**, recursive, over linked rings. Family, TreeLinked,
  ImplementsFamily.
* **A program on top**, whose processes find each other's pids in shared variables,
  wait for each other through the kernel and kill each other. ChecksPass,
  OnePrints, Careful, TestEnds.
* **A library function on shared lists.** `allocNamespace` runs in the processes, with
  interrupts on: it can be interrupted, or its caller killed, half way, and another call
  can begin meanwhile. PoolWhole, ImplementsPool, NewlyAllocated.
* **Numbers at the edge** in the conversions, and a device that fails in the middle
  of a message. FormatRight, ShownIfTrue, PrintEnds.
* **Time** charged at one place from a start set at another. NotMoreThanReal, and
  the theorem ChargesCorrect.

`PROJECT.json` lists these hazards line by line, with those no property covers
yet and why.

## 2. The modules

Two levels. Below, the data structures of phase 1 each have a detailed module,
close to the pointers, and an abstract one that says what callers rely on. Above,
the nucleus is modelled on the abstract view of those structures.

    ListHead --> PcbLists --implements--> ProcQueues      p_list and the queues
             \-> Family   --implements--> ProcFamily      the tree, namespaces
    Queues  --> Ash       --implements--> SemQueues       the semaphore table
            \-> Nucleus   --implements--> ProcLife        scheduler, calls, interrupts
                 |-> P2Test                               the phase 2 test on the nucleus
                 \-> Context                              the nucleus with the saved states
    ListHead --> NsAlloc  --implements--> NsPool          allocNamespace by access
    Strings --> KernelPrint                                     printf and termprint
                CpuTime                                   the charging of time

**Queues** defines a linked list as the sequence of its elements; `Without`
(deletion by address) is defined without recursion, so that it can be reasoned
about.

**ListHead** is `list.h` at the level of `next` and `prev`. The assignments of a
C function are made in their order by a chain of EXCEPTs on the memory, which
matters when arguments alias.

**PcbLists** is `pcb.c`'s queues over that memory: one node per process for all
lists. **ProcQueues** is the sequences it implements. An observer variable
`last` has the call and its result, so that the refinement compares the results
as well. **ListProofs** has the lemmas about sequences and about `list.h`, for any memory,
and **PcbListsProofs** the proofs about `pcb.c`.

**Ash** is `ash.c`: the free list, the hash chains, `s_key` with its stale
values, one queue per descriptor, `p_semAdd`. `insertBlocked` is one action per
early return. The hash function is a constant, any function from addresses to
buckets. **SemQueues** has just one queue per address, and all it knows of
descriptors is their number, `Limit`: so many addresses can have a queue at a time.
**AshProofs** has the proofs.

**Family** is the process tree on pointers, with `__terminateProcess` as the
recursion it is, and `ns.c`. The system calls run for any living process, as the
tree does not care who is current. `Terminate` is a recursive function on the pointers, the
parents and the free list (`Worlds`), with a number that bounds its depth; that the bound is
never met is part of what is proved. **ProcFamily** is the tree as children lists, and
**FamilyProofs** has the proofs.

**Nucleus** composes the rest of phase 2. State and code: `ready`, `current`,
`process_count`, `soft_block_count` are the variables of `scheduler.c`; `blocked`
is the abstract semaphore table (a queue per semaphore); `sem` the values of the
user, device and clock semaphores; `pcbFree` and `p_parent` the pcbs; `device`
the status of every device register (`ready`, `busy`, `done` with its interrupt
pending); `mode` what `schedule` last did (run a process, `WAIT`, `HALT`,
`PANIC`); `call` remembers which call blocked a process, for the properties. An
exception is one step from `exceptionHandler` to the final `LDST`, because the
kernel runs with interrupts disabled; which process, device or timer acts next is
left open. `Running` says that no instruction of a process is executed while a
device interrupt is pending. `interruptHandler` takes any set of pending
interrupts in one step, in the order of the code. The pid lookup of TERMPROCESS
looks, as `findPcb` does, at the ready queue and at the semaphore queues.
GETTIME, GETSUPPORTPTR, GETPROCESSID and GETCHILDREN change nothing and are not
steps. **NucleusProofs** has the proofs about the queues, on these those
about the tree and the counters, about who waits for what, the refinement of ProcLife, and
those about the saved states of Context.

**ProcLife** is the abstract nucleus: each process is free, ready, running or
blocked, may only move between these in certain ways, the processor is never idle
while a process is ready, and the machine stops when no process is left. A
process that the kernel has forgotten is in none of the four, so a step that
loses one is not a step of ProcLife.

**Context** adds the saved processor states to the nucleus. A state is abstracted to
whether `p_s` is up to date: `stale` is the set of the processes which have executed
since `p_s` was last written. Each action is the one of Nucleus together with the
`memcpy` its code makes, or does not make.

**NsAlloc** is `allocNamespace` as the machine executes it, one action for each read or
write of the list, with processes interrupted or terminated anywhere; `addNamespace`,
part of a system call, is one step. Nothing in the code keeps two processes from
being between the test of the list (`ns.c:69`) and the write that unlinks (`list.h:113`)
at the same time, and nothing in the model does. The history variable `met` is true once it
has happened. After that a pointer may be null, and an access through it trap: the process
dies, which is `Killed`, or in `addNamespace` the machine stops. **NsPool** is what is promised until two calls meet:
a pool in which a call takes effect at one moment. In the phase 2 test one process
allocates, so that no two calls meet there. **NsAllocProofs** has the proofs.

**Strings** is `string.c`, with ints of `WordBits` bits, and **KernelPrint** the way of a message of
the kernel through `printf`, `addokbuf` and `termprint` to the screen. A format is a
sequence of directives with their arguments. The terminal may be in any state at the start,
since a process may be using it, and any command may fail. **KernelPrintProofs** has the
proof about termprint.

**P2Test** composes the test program with the nucleus: the current process
executes the next instruction of its program, and an instruction that is a system
call *is* the action of Nucleus. A program is a sequence of instructions
(`P`, `V`, `Create`, `ClockWait`, `Terminate`, a DOIO, a trap, a comparison or an
assignment), written by concatenation, one operator per C function; `at` says
where every process is, `pids` and `p1p2synch` are the variables of those names.
`test()` starts one group of processes after another and waits for the end of
each; a behaviour has one group (`Tests`). The largest, of p4 and p5 with hp_p1,
hp_p2, p6, p7 and p9, is divided in three: p4 and p5 with hp_p1, p6 and p7, with
hp_p2, and with p9 and p10, as these wait for nobody and nobody waits for them. The prints are what makes processes
overlap: each is P, DOIO, V on the terminal, with one character for all. What is
left out: all but one of the 21 semaphores of p2 and of the two leaves of each
child of p8, the returned times, and what the calls about namespaces return
(Family has that). One assumption on time, which the program makes too: a time
slice of 5 ms is enough for at least one instruction (`stepped`), without which
a child could compare its pid before its parent has stored it. The waits of p3 and p5
for a clock interval of at least half its length (`LongWait`) may turn out short any
number of times, but not always, and whatever they last nothing is assumed of what the others
do meanwhile. p5 means to outlast the death of both p4s in this way, "to be reasonably sure"
(`p2test_04.c:635`); where it does not, its V lets the second p4 pass (`SecondPasses`).
p5 prints six times: at its start, for the bus error, twice for the TLB exception of `p5a`,
when `p5b` is refused in user mode, whose calls are all turned into a trap
(`syscall.c:289-293`), and for the USERSYSCALL of `p5b` in kernel mode.

**CpuTime** is `p_time` and `start_time`; an exception either returns to the
process (`Resumed`) or goes through the scheduler (`Rescheduled`).

Operators before a definition and introduced by a comment "Bug" are wrong
variants of it (a dropped reset, a queue entered at the wrong end, and so on).
Nothing uses them; replacing the definition by its variant breaks the property
`PROJECT.json` pairs them with, which shows that the property can fail.

## 3. The runs

| Run | Instance | Shows |
|---|---|---|
| MCNucleusAny | 4 processes, 1 user semaphore, 1 disk (absent), both halves of a terminal; any program except unknown pids | TypeOK, OnePlace, Accounting, Family, SemaphoreSides, GoesOn, FIFO, ForgottenOnlyBy, StrandedOnlyBy |
| MCNucleusCareful | 3 processes, 1 user semaphore, 2 disks, 1 terminal half; careful programs, fairness | NobodyLost, Verdict, IOUnderWay, ImplementsLife, ReadyRuns, SoftWaitEnds |
| MCP2Test | 11 pcbs, the 24 semaphores of the test, terminal 0; 7 groups of processes, 3 loops, 4 rounds; fairness | ChecksPass, OnePrints, Careful, TestEnds |
| MCAsh | 4 processes, 3 descriptors, 4 addresses in 2 buckets | the table invariants, ImplementsQueues |
| MCPcbLists | 4 processes, 2 queues | LinksAgree, OneRing, ImplementsProcQueues |
| MCFamily | 4 processes, 2 namespaces | TreeLinked, SameView, KeepSpace, ImplementsFamily |
| MCNsAlloc | 3 processes, 3 descriptors, until two calls meet | PoolWhole, ImplementsPool |
| MCPrint | messages of up to three directives, numbers of 18 bits, a buffer of 24 characters; fairness | FormatRight, ShownIfTrue, PrintEnds |

Four more configurations are expected to be violated, and are in section 4, with one property
each: MCNucleusIdleHalf, MCFamilyRecycled, MCNsAllocRace and MCCpuTimeReal (2 processes, 7 clock
units). What is right about the charging of time is a theorem, `ChargesCorrect`, and has no run.

Bounds. There is one state constraint, `NotMet` of MCNsAlloc: a state in which two calls have met is
checked, but TLC does not go on from it. Both properties say nothing of what comes after
it, where the pointers may lead anywhere and the states are too many. MCNsAllocRace, of two processes, has no constraint. The number of processes bounds
everything in the nucleus. With four there can be a running process, a ready one,
two in one semaphore queue, and a tree of three generations in which the caller
kills its grandparent; two registers on one line make the choice of the
interrupting device matter, and two halves of a terminal their coupling.
`UIntMod` is the modulus of the unsigned counters, larger than the number of
processes, so that an overflow or a count below zero shows. In Ash there are more
addresses than descriptors, so that descriptors are recycled under another key, and
more processes than descriptors, so that they run out; three addresses share a
bucket. In NsAlloc a call finds the list with three, two, one and no descriptors while
two others are at any point of theirs. In KernelPrint an int has 18 bits, one more than
the longest binary number `%b` has room for needs with its sign, so that the largest, the least
and the first number with too many digits are among the arguments; the buffer is
filled to its last character, and overrun, by three directives. `Loops` and
`Rounds` say how often the test waits for the clock in a loop (3 for the 10 of the code, as
each turn is like the others; with 10 TLC passes as well)
and starts the tree of p8 (4, as in the code). `MaxTime` bounds the clock of CpuTime and
lets a process be interrupted several times. Symmetry of the processes is used
where no liveness property is checked. `CHECK_DEADLOCK FALSE` is said where the system really
stops: the nucleus and the test after HALT, or
PANIC, Family when the last process is gone,
CpuTime at `MaxTime`.

What the programs may do is a parameter of the nucleus, as the kernel can be used
well or badly. `KillScope` is whom TERMPROCESS may name: the caller, an ancestor,
any other process. Pids that are nobody's are named in the specification
`SpecUnknown` only, since the counters are wrong once one has been. With `CarefulIO` the
processes behave as those of the phase 2 test: one at a time uses a device, and
none that waits for a device is terminated; Careful, checked by MCP2Test, says
that the test is indeed such a program.

Fairness (`Fairness` in Nucleus). The interval timer is reloaded at every tick
and never stops; a device completes an operation it was given; a pending
interrupt is taken, since processes and the waiting scheduler run with all lines
unmasked; a process that keeps the processor meets the end of its time slice, as
`schedule` loads the local timer for whomever it dispatches. All are weak
fairness. Nothing is assumed of the processes: they may compute for ever. In P2Test
the processor also executes the next instruction, or takes the pending interrupt:
that is one fair action, as it has to do one of the two. That time slices end is
not assumed there, as the programs give up the processor by themselves. Strong fairness of
`LongEnough` is the one assumption on how long things last: a process that waits for the clock over and over,
until a wait lasts half an interval, does not begin each wait late in an interval. After a
tick it begins the next one at once, unless others have the processor for half an interval
(50 ms, ten time slices). In KernelPrint the
kernel, which cannot be interrupted, executes its next step, and a terminal
completes a command or reports its failure.

## 4. What disagrees with the code's own words

Each of the following is a run that TLC is expected to refute, and a finding in `PROJECT.json`.

* **MCNucleusIdleHalf**: a terminal interrupt serves both halves of the terminal
  unless they are busy. The idle half gets a V that nobody asked for, so the next
  DOIO there does not block, and since DOIO always calls the scheduler its caller
  is lost. (`interrupt.c:163`, `:177`)
* **MCFamilyRecycled**: the child of a process without a namespace, in a recycled
  pcb, is in the namespace of a dead process. (`syscall.c:52`, `util.c`)
* **MCCpuTimeReal**: time is charged twice to a process that goes on after an
  exception. (`exception.c:32`)
* **MCNsAllocRace**: `allocNamespace` does not return a "newly allocated namespace"
  (`ns.h:45`) when two calls meet: a process has tested the list and perhaps read
  its first descriptor when its time slice ends, another does the same, and both get that one. (`ns.c:69`)

TERMPROCESS of a pid that names nobody decrements the process count all the same
(`syscall.c:312`), so that the machine may halt with processes alive; no run has
it, as no counter is right afterwards.

Three more paths lead to the same loss of the caller. TERMPROCESS of another process
ends in the scheduler as well, and the caller, alive, is in no queue
(`syscall.c:107`). The stray V of `interrupt.c:91-94` is also left behind when the process
that waited for a device was terminated. And DOIO on a missing device returns early,
prepares -1 for the caller, and then calls the scheduler (`syscall.c:189`,
`:340-342`). `ForgottenOnlyBy`, checked of every program, says that these are all there are.
In the same way `StrandedOnlyBy` says how a process comes to wait for a device that
will not answer, in one way only: the device has completed an operation for a process that
stood ahead of it, so that its own command went to a busy device and was ignored (`syscall.c:216`).

The phase 2 test need not end: if p5 is too quick, its V lets the second p4 pass, nothing is left of it
for p1, and the machine panics (`p2test_04.c:645`). TestEnds says that this is
the only way. The program is "reasonably sure" of its delay, and says no more, so that
this is no finding.

`itoa` takes the absolute value in all bases (`string.c:36`), so that `%x` of -255 is FF, that of
255, although "with any other base, value is always considered unsigned" (`string.c:62`).
This has no run: `SignLost` proves that in every base but 10 a number is written as its
negative is, whatever the number of bits. FormatRight defines the meaning of these
conversions as that comment does, and leaves their negative arguments out.

`itoa` also has no digits for the least integer in base 10, and a binary number of more
than 16 digits makes `%b` write zeros far beyond its buffer (`print.c:136`): FormatRight leaves these
out as well.
The last ACK of `termprint` (`print.c:77`) is written also when the terminal was not free.

In the passing runs these situations are either present and harmless to the
properties checked (MCNucleusAny), or excluded by `KillScope` and `CarefulIO`
(MCNucleusCareful).

## 5. The proofs

TLAPS checks, for every finite set of processes and descriptors, every set of
addresses and every hash function (assumption `AshAssumption`), for every finite
set of processes, every set of semaphores and devices and every program
(`NucleusAssumption`), for every finite set of processes and set of list heads
(`PcbListsAssumption`), for every finite set of processes, not empty, and of namespaces
(`FamilyAssumption`), for every finite set of processes and namespace descriptors
(`NsAllocAssumption`), for every set of messages, every number of bits of an int and
every size of the buffer (`PrintAssumption`), and for every length of the run (`CpuTimeAssumption`):

* **AshProofs**: `TypeCorrect`, `TableCorrect` (DescriptorsConserved, KeysHashed
  and WaitersLinked, the first two also as `DescriptorsConservedAlways` and
  `KeysHashedAlways`), `NeverFullAlways`, `FullOnlyWhenExhaustedAlways`, and
  `AshImplementsQueues`, whatever the number of descriptors.
* **PcbListsProofs**: `LinksAgreeAlways`, `OneRingAlways` and
  `ImplementsProcQueuesAlways`, from `MemoryWired`.
* **FamilyProofs**: `TreeLinkedAlways`, `SameViewAlways`, `KeepSpaceAlways` and
  `ImplementsFamilyAlways`, from `FamilyHolds`.
* **NsAllocProofs**: `PoolWholeAlways` and `ImplementsPoolAlways`, of every behaviour up to the
  moment when two calls meet, from `PooledAlways`.
* **NucleusProofs**: `NucleusTypeCorrect`, `OnePlaceAlways` and `FIFOAlways`;
  `OnePlaceUnknown` says of programs that terminate pids which are nobody's what
  `OnePlaceAlways` says of the others. Then `FamilyAlways`, `AccountingAlways`,
  `SemaphoreSidesAlways`, `ForgottenOnlyByAlways`, `StrandedOnlyByAlways`, of every program;
  `NobodyLostAlways`, `IOUnderWayAlways`, `VerdictAlways` and `ImplementsLifeAlways` if the programs take care;
  `GoesOnAlways`, and `ContextIsNucleus`: what is proved of Nucleus holds of Context.
  And of the phase 2 test: `TestIsNucleus`; `CarefulTestIsNucleus` and
  `CarefulTestVerdict`, while Careful holds.
* **KernelPrintProofs**: `ShownIfTrueAlways`, and `SignLost` about `itoa`.
* **CpuTimeProofs**: `ChargesCorrect` (NothingFree, which is that no time goes
  uncharged, and ExactUnlessResumed, that a process all of whose exceptions went through the
  scheduler is charged exactly what it had).

The inductive invariant of the table is TypeOK and the conjunction of the three
table invariants; none of them is inductive alone. That descriptors are
conserved rests on a descriptor being freed only when its queue has become empty,
which rests on WaitersLinked, which needs KeysHashed for the search to lead to
the descriptor a process really waits on. One lemma per operation shows that it
preserves the invariant, with a case for the common tail of `removeBlocked` and
`outBlocked` (`Taken`). NeverFull, which says that `insertBlocked` never fails if there are as many descriptors
as processes, is a counting argument: if no descriptor is
free, each is in use and has a waiter, and no process waits twice, so there are
at least as many waiting processes as descriptors, and the process to be inserted
is not one of them. The refinement maps each call on the table to the
call of SemQueues with the same result; the queue of an address is the queue of the
descriptor the search finds, if any. That it turns a process away at the same moments
needs another count: the descriptors in use correspond one to one to the addresses with
a queue, so that the free list is empty just when `Limit` addresses have one.

What connects pointers and sequences is `Linked` (ListProofs): a memory links a head
and a sequence of nodes into a ring if, at each place of the sequence, the next pointer
leads one place on and the prev pointer of that node leads back. That a ring is whole,
that adding a node at either end is Append or its mirror, that deleting by address is
`Without`, and that a write elsewhere changes nothing, are lemmas about it for any memory;
that a traversal (`Contents`) reads the sequence is the one that needs an induction, which
is made by taking the least place where the two differ. The invariant of PcbLists
(`Wired`) is that some family of disjoint sequences, one per head, is linked in this way,
and that a node in none of them has two null pointers: it is what lets `list_safe_del` be
called for a process wherever it is. LinksAgree and OneRing follow; neither is
inductive, since a half linked ring elsewhere could be reached by a deletion. Each call
of `pcb.c` maps one such family to another, and that map is the call of ProcQueues.

The invariant of Family (`FamilyHolds`) is that the rings, read as children lists, and
`p_parent` describe one family (`Agrees`). TreeLinked alone is not inductive, since it says
nothing of the prev pointers, through which a child is taken out. A birth adds the node of
the new process at the tail of a ring (`BearAgrees`), a death takes one node out of one
(`DetachAgrees`). For the termination the prover has no induction over trees, and the recursive function itself
has to be shown to exist before its equation can be used: both are done by taking the
least number for which the claim fails. The claim is that of `Done`: a process without a
parent, with at most n descendants, is freed with all of them, their parents and rings reset,
and the rest of the family is as it was. Its first child is cut off and terminated with its
own descendants, which are fewer, and what is left of the process has fewer as well
(`LineSplit`), so that the number that bounds the depth is never met. `Line` is the
least set closed under children, as in the proofs about the nucleus. KeepSpace needs only that a pcb
just allocated is nobody's parent.

In NsAlloc the free list is not always a whole ring: a process can be killed between the two
writes that unlink, which leaves a prev pointer that disagrees for ever. The invariant
(`Holds`) therefore follows only the next pointers of that list (`Leads`) and says that
its first descriptor points back to the head, which is what the next call reads: the write
`Back` makes it true of the second descriptor before `Forth` makes that one the first.
`Looks` says that the process in the window is alone there and what it has read is still so,
which is where `~met` is needed and the only place; `Owns` that a process has the descriptor
it is clearing, or was given, for itself. The call takes effect at `Forth`: every other access
is a stutter of NsPool, or the return of what a process had.

The invariant of the nucleus is TypeOK and `PlaceInv`: OnePlace with the two
facts that make it inductive, that the queues of different semaphores are disjoint
and that no free pcb is current. It is stated by `Placed`, an operator on a ready
queue, the semaphore queues, the free pcbs and a current process rather than on
the variables, because the calls take a process through states that are no states
of the machine: each lemma `Placed...` is one thing a call does (a process is
enqueued, blocked, woken, terminated, steps aside), and an action is a chain of
them. An interrupt wakes several processes; `Woken` says of a sequence of
processes that each is at the head of the queue of a different semaphore, or waits
for the clock, and holds of the processes woken at each line and of their
concatenation, as the registers served at different lines are different. The code calls `enqueueReady`
twice for a process woken by a device (`interrupt.c:99`, `:72`) and the model once: `EnqueueTwice` is that the
second call changes nothing. The
counters have their type because they are taken modulo `UIntMod`, which must
exceed the number of processes for a semaphore to hold a 1.

FIFO is an action property and needs no more of the state than that no queue links a
process twice. `Grown` says of a queue before and after an operation that those which stay
keep their order, that only the dead are gone, and that newcomers are behind; deletions and
`enqueueReady` chain, and the head that `schedule` takes at the end has nobody before it.

For the saved states only the current process may be stale, and each path by which it
gets into a queue (a P that blocks, the end of a time slice, an interrupt while it runs)
saves it first.

The tree needs induction, which the prover cannot do over data. `Progeny` is the least
set closed under children instead, and `Below` is the same for any parent function, as
an operation relates two of them: a child that has no children adds itself to what is
below its ancestors (`BelowCreate`), and a termination takes away exactly what is below
the dead (`BelowTerminate`); that a set is the least one is used by exhibiting a smaller
closed set. The counters cannot wrap: with Family, the dead of a termination are all alive
before, and the woken of an interrupt all soft-blocked, so that a counter goes down by as
many as it had been raised for; `UIntMod` exceeds the number of processes.

`SemaphoreSides` is inductive with TypeOK and OnePlace alone. `ForgottenOnlyBy` and
`StrandedOnlyBy` are action properties: beside that invariant they need that the clock's
semaphore is 0 between exceptions (`ClockInv`), as otherwise CLOCKWAIT would not block.

The theorems on what becomes of careful programs, NobodyLostAlways and the three after it, have the condition `TakesCare` on the constants: a process gives a
command only to an installed device nobody uses, the served registers are those installed, no
one of them is the second half of a terminal, and only oneself or an ancestor is
terminated. It is the condition of MCNucleusCareful, and what section 4 tells is why
each part is needed. The invariant `CareInv` is Accounting, Family, NobodyLost, the
turns at each device (`IOInv`: one command, one waiter, and no V that nobody claimed) and that a
verdict was reached by `schedule` on the counters (`Decided`). Verdict
follows from all of them: no soft-blocked process by the counters, and nobody lost, leave
the semaphores of programs to wait on; a soft-blocked process that is on no queue
of the clock has its command under way. The refinement of ProcLife is one lemma per kind of
change (births, deaths, who blocks, who is awakened), with NobodyLost for the fourth stage.

That the phase 2 test is a behaviour of the nucleus (`TestRun`) is proved for any number of
processes and any number of loops and rounds (`Loops` and `Rounds` are any natural numbers but 0). A program is well formed (`WellFormed`) if its
instructions name semaphores, devices and programs that there are, its first does not ask how long a wait was, and
its last, and no other, ends the process; this goes along the concatenations a
program is written with (`PieceConcat`, `ProgramConcat`) and its loops (`TimesPiece`). Hence every living process is at an instruction of a
program at all times (`TestInv`): nobody runs past the end of his program, the
caller is among the dead of a call that ends one, and a new process, in a pcb that may be recycled, is at its first.
Then each instruction that calls the kernel is a disjunct of Nucleus. The constants
`KillScope` and `CarefulIO` say what the programs of Nucleus do, and the test does not read them:
when they allow everything (`TestIsNucleus`) every theorem on all programs holds of the
test. When they demand care, Careful is needed at each step (`CarefulTestIsNucleus`), and with
`TakesCare` the test has NobodyLost, IOUnderWay and Verdict (`CarefulTestVerdict`), where the nucleus
is given the transmitting half of the terminal only. `TestAssumption` is a hypothesis of these
theorems and not an assumption of the module, so that it does not narrow those on Nucleus;
MCP2Test assumes it, for TLC to evaluate.

For the messages of the kernel, what is on the screen and what `termprint` has left are together
the message as long as there was no error, except that the device shows a character before the
pointer moves on (`Left`); an error is noticed at a character which is not on the screen, so
that the message was not shown whole (`OnTheWay`). That `printf` makes a string at all of its
arguments rests on `itoa`, whose recursive function is shown to exist and to return
strings by the least magnitude for which it would not (`ItoaType`).

For the charging of time the invariant adds `SliceInv`: since the last exception
only the current process has had the processor, and for no longer than since
`start_time`; for exactly as long, unless an exception has returned straight to it.

Checked by TLC only: the liveness properties (ENABLED and fairness are beyond the
prover); FormatRight, as the provers know nothing of powers with a base other than 2,
by which a numeral is defined; and ChecksPass, OnePrints and Careful of the phase 2 test. These
rest on the order in which these very programs get the terminal and the clock: p6, p7, hp_p1 and p9
have printed when p1 ends because they queue up at `sem_term_mut`, which is first in,
first out, before p5, for which p1 waits, has printed for the last time; TLC finds OnePrints violated
if p5 printed once only. An invariant for that
would have to describe the reachable states of each group of processes.

## 6. What is not modelled, and why

The phase 1 tests, which are sequences of calls that Ash, PcbLists and Family make as well;
the contents of processor states (Context has whether they are up to date), the addresses of
device registers and the status words returned by devices: no property is about them. Of the
library, the buffers that collect output for a debugger and `memset`. That messages
of the kernel and the commands of a process meet on one terminal is in KernelPrint from
the side of the kernel only. TLB refill, the BIOS and the hardware are
outside the repository, and appear as the environment of Nucleus (DeviceDone, the
timers). `freeNamespace` has no caller, in the kernel or in the tests: how its race with the
other functions of `ns.c` should come out is not for the code to say.

## 7. Plan

1. *(done)* Semaphore table with its refinement proof; process queues on pointers;
   process tree and namespaces; the nucleus; the phase 2 test on it; processor
   time.
2. *(done)* `allocNamespace` at the grain of memory accesses; careless processes at one
   device; the saved processor states; `printf`, `itoa` and `termprint`; the table with too
   few descriptors.
3. *(done)* Proofs for the nucleus: the turns in the queues, the counters, the tree, the waits, the verdicts and the
   refinement of ProcLife.
4. *(done)* Proofs that the pointers of PcbLists and Family agree with their sequences, the
   recursion of the termination included, and that `allocNamespace`, access by access, is a
   pool.
   Proof that `termprint` tells the truth about what it has shown.
5. *(done)* That the phase 2 test is a behaviour of the nucleus for any number of
   processes, so that what is proved of the nucleus holds of it.
6. *(left)* That the test is careful, for any number of processes. Kernel messages and DOIO on
   one terminal.
