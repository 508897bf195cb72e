------------------------------- MODULE P2Test --------------------------------
(***************************************************************************)
(* The test program of phase 2 (p2test_04.c) on the nucleus: the processes *)
(* main() starts with test(), as programs of system calls which the        *)
(* processes of module Nucleus execute.                                    *)
(*                                                                         *)
(* A program is a sequence of instructions.  Computation that neither      *)
(* calls the kernel nor reads what other processes write is left out.  An  *)
(* exception passed up to a handler of p5 only says where p5 goes on.      *)
(* test() starts one group of processes after another; a behaviour of the  *)
(* model has one group, and of p4's company a part.                        *)
(***************************************************************************)
EXTENDS Nucleus

CONSTANTS Loops,    \* how often hp_p2 and p3 wait for the clock in a loop (10)
          Rounds    \* how many trees of processes p1 starts (4)

ASSUME LoopsAssumption == {Loops, Rounds} \subseteq Nat \ {0}

(* The semaphores of the program; sem_s stands for the array s.            *)
CONSTANTS sem_term_mut, sem_testsem, sem_s, sem_startp2, sem_endp2, sem_endp3,
          sem_blkp4, sem_synp4, sem_endp4, sem_endp5, sem_endp8, sem_blkp8,
          sem_endcreate1, sem_endcreate2, sem_blkp9, sem_p11,
          sem_l_ns1_a, sem_l_ns1_b, sem_l_ns2_a, sem_l_ns2_b,
          sem_r_ns1_a, sem_r_ns1_b, sem_r_ns2_a, sem_r_ns2_b

VARIABLES at,        \* the program and next instruction of every process
          ret,       \* the result of its last CREATEPROCESS
          pids,      \* the variables p2pid, p3pid, ...
          p1p2synch,
          stepped    \* has the current process executed an instruction?

testVars == <<at, ret, pids, p1p2synch, stepped>>

-----------------------------------------------------------------------------
(* Instructions.                                                           *)

Instr(op, arg) == << [op |-> op, arg |-> arg] >>
P(s) == Instr("passeren", s)
V(s) == Instr("verhogen", s)
ClockWait == Instr("clockWait", NULL)
Create(prog) == Instr("create", prog)
Store(v) == Instr("store", v)
Check(c) == Instr("check", c)
Terminate == Instr("terminate", NULL)
Trap == Instr("trap", NULL)
Return == Instr("return", NULL)

(* n turns of a loop.                                                      *)
Times(n, body) == [i \in 1..(n * Len(body)) |-> body[((i - 1) % Len(body)) + 1]]

(* Bug for the runs to find: the semaphore is released too early.          *)
printEarlyV == P(sem_term_mut) \o V(sem_term_mut) \o Instr("doIO", 33)

(* print: the characters are written one by one, each by a DOIO; one of    *)
(* them stands for all.                                                    *)
print == P(sem_term_mut) \o Instr("doIO", 33) \o V(sem_term_mut)

-----------------------------------------------------------------------------
(* The programs.                                                           *)

(* A wait for the clock, repeated until one lasts half an interval.        *)
LongWait == ClockWait \o Instr("untilLong", NULL)

(* Bug for the runs to find: p2 says that it is done after the P which     *)
(* lets p1 go on.                                                          *)
p2Late == P(sem_startp2) \o print \o Check("p2pid") \o V(sem_s) \o P(sem_s) \o print
            \o print \o P(sem_endp2) \o Instr("synch", NULL) \o Terminate

(* p2 does V and P on 21 semaphores of its own: one stands for all.        *)
p2 == P(sem_startp2) \o print \o Check("p2pid") \o V(sem_s) \o P(sem_s) \o print
        \o print \o Instr("synch", NULL) \o P(sem_endp2) \o Terminate

p3 == LongWait \o print \o Times(Loops, ClockWait) \o print \o Check("p3pid")
        \o V(sem_endp3) \o Terminate

(* Bug for the runs to find: P and V of sem_synp4 in the other order.      *)
p4Swapped == print \o Check("p4pid") \o P(sem_synp4) \o P(sem_blkp4) \o V(sem_synp4)
               \o Create("p4") \o Store("p4pid") \o P(sem_synp4) \o V(sem_endp4)
               \o print \o Terminate

p4 == print \o Check("p4pid") \o V(sem_synp4) \o P(sem_blkp4) \o P(sem_synp4)
        \o Create("p4") \o Store("p4pid") \o P(sem_synp4) \o V(sem_endp4) \o print
        \o Terminate

(* p5 prints at its start; p5gen for the bus error, p5mm twice for the TLB *)
(* exception of p5a; p5gen when p5b, in user mode, is refused; and p5sys   *)
(* for the call of p5b, which has started again in kernel mode.  The wait  *)
(* is meant to outlast the death of p4, and nothing makes sure of it.      *)
p5 == print \o print \o print \o print \o print \o print
        \o P(sem_endp4) \o LongWait \o V(sem_blkp4) \o V(sem_endp5) \o Terminate

p6 == print \o Trap
p7 == print \o Trap

(* Bug for the runs to find: p8root does not wait for the second leaf.     *)
p8rootHasty == print \o Create("child1") \o Create("child2") \o P(sem_endcreate1)
                 \o V(sem_endp8) \o Terminate

(* Each child of p8 creates one leaf, which stands for two.                *)
p8root == print \o Create("child1") \o Create("child2") \o P(sem_endcreate1)
            \o P(sem_endcreate2) \o V(sem_endp8) \o Terminate

child(gchild) == print \o Check("p8pid") \o Create(gchild) \o P(sem_blkp8) \o Return
p8leaf(sem_endcreate) == print \o V(sem_endcreate) \o P(sem_blkp8) \o Return

p9 == print \o Create("p10") \o P(sem_blkp9) \o Return
p10 == print \o Check("p9pid") \o Instr("termParent", NULL)

hp_p1 == print \o Terminate
hp_p2 == print \o Times(Loops, ClockWait) \o Terminate

(* p11 and its four children, two of them in another namespace.  What      *)
(* GETPROCESSID and GETCHILDREN say across namespaces is in module Family. *)
ns_p(pid, sem_child_ns, sem_ns) ==
  print \o Check(pid) \o print \o P(sem_child_ns) \o print \o V(sem_ns) \o Terminate
p11 == print \o Create("ns1_a") \o Store("ns1_a_pid") \o Create("ns1_b")
         \o Store("ns1_b_pid") \o Create("ns2_a") \o Store("ns2_a_pid")
         \o Create("ns2_b") \o Store("ns2_b_pid") \o print
         \o V(sem_l_ns1_a) \o V(sem_l_ns1_b) \o V(sem_l_ns2_a) \o V(sem_l_ns2_b)
         \o P(sem_r_ns1_a) \o P(sem_r_ns1_b) \o P(sem_r_ns2_a) \o P(sem_r_ns2_b)
         \o V(sem_p11) \o Terminate

(* The parts of test(), each followed by its end: a trap kills p1.         *)
testEnd == print \o Trap
testP2 == V(sem_testsem) \o print \o Create("p2") \o Store("p2pid") \o print
            \o V(sem_startp2) \o V(sem_endp2) \o Check("p1p2synch") \o testEnd
testP3 == Create("p3") \o Store("p3pid") \o print \o P(sem_endp3) \o testEnd
testP4(before, after) ==
  before \o Create("p4") \o Store("p4pid") \o Create("p5") \o after
    \o P(sem_endp5) \o print \o P(sem_blkp4) \o testEnd
testP8 == Times(Rounds, Check("reset") \o Create("p8root") \o Store("p8pid") \o P(sem_endp8))
            \o testEnd
testP11 == Create("p11") \o P(sem_p11) \o testEnd

Tests == {"testP2", "testP3", "testP4Hp1", "testP4Hp2", "testP4P9", "testP8", "testP11"}

Programs ==
  [testP2 |-> testP2, testP3 |-> testP3,
   testP4Hp1 |-> testP4(Create("hp_p1"), Create("p6") \o Create("p7")),
   testP4Hp2 |-> testP4(Create("hp_p2"), <<>>),
   testP4P9 |-> testP4(<<>>, Create("p9") \o Store("p9pid")),
   testP8 |-> testP8, testP11 |-> testP11,
   p2 |-> p2, p3 |-> p3, p4 |-> p4, p5 |-> p5, p6 |-> p6, p7 |-> p7,
   p8root |-> p8root, child1 |-> child("p8leaf1"), child2 |-> child("p8leaf2"),
   p8leaf1 |-> p8leaf(sem_endcreate1), p8leaf2 |-> p8leaf(sem_endcreate2),
   p9 |-> p9, p10 |-> p10, hp_p1 |-> hp_p1, hp_p2 |-> hp_p2, p11 |-> p11,
   ns1_a |-> ns_p("ns1_a_pid", sem_l_ns1_a, sem_r_ns1_a),
   ns1_b |-> ns_p("ns1_b_pid", sem_l_ns1_b, sem_r_ns1_b),
   ns2_a |-> ns_p("ns2_a_pid", sem_l_ns2_a, sem_r_ns2_a),
   ns2_b |-> ns_p("ns2_b_pid", sem_l_ns2_b, sem_r_ns2_b)]

TestSems ==
  {sem_term_mut, sem_testsem, sem_s, sem_startp2, sem_endp2, sem_endp3, sem_blkp4,
   sem_synp4, sem_endp4, sem_endp5, sem_endp8, sem_blkp8, sem_endcreate1,
   sem_endcreate2, sem_blkp9, sem_p11, sem_l_ns1_a, sem_l_ns1_b, sem_l_ns2_a,
   sem_l_ns2_b, sem_r_ns1_a, sem_r_ns1_b, sem_r_ns2_a, sem_r_ns2_b}
Pids == {"p2pid", "p3pid", "p4pid", "p8pid", "p9pid", "ns1_a_pid",
         "ns1_b_pid", "ns2_a_pid", "ns2_b_pid"}

(* What the configurations of the test give the constants.                *)
TestAssumption ==
  /\ USems = TestSems /\ Cardinality(TestSems) = 24
  /\ 33 \in Installed

-----------------------------------------------------------------------------
(* The execution of the programs.                                          *)

Off == [prog |-> "none", pc |-> 0]
Now == Programs[at[current].prog][at[current].pc]

TestInit ==
  /\ Boot
  /\ current = CHOOSE p \in Pcbs : \A q \in Pcbs : p <= q
  /\ sem = [s \in Sems |-> IF s \in {sem_term_mut, sem_endp2, sem_blkp4} THEN 1 ELSE 0]
  /\ \E t \in Tests : at = [p \in Pcbs |-> IF p = current THEN [prog |-> t, pc |-> 1]
                                                          ELSE Off]
  /\ ret = [p \in Pcbs |-> NULL]
  /\ pids = [v \in Pids |-> NULL]
  /\ p1p2synch = FALSE
  /\ stepped = FALSE

(* The instruction of the current process is done, and the dead are off.   *)
Advance == [at EXCEPT ![current].pc = @ + 1]
Done ==
  /\ at' = [p \in Pcbs |-> IF p \in pcbFree' THEN Off ELSE Advance[p]]
  /\ stepped' = (current' = current)

(* allocPcb takes one of the free pcbs, and programs cannot tell which.    *)
(* The new process has a pid which no other had: a variable may still name *)
(* the last process in this pcb, but not the new one.                      *)
DoCreate ==
  LET new == CHOOSE p \in pcbFree : \A q \in pcbFree : p <= q IN
  /\ Now.op = "create" /\ createProcess(new)
  /\ at' = [Advance EXCEPT ![new] = [prog |-> Now.arg, pc |-> 1]]
  /\ ret' = [ret EXCEPT ![current] = new, ![new] = NULL]
  /\ pids' = [v \in Pids |-> IF pids[v] = new THEN NULL ELSE pids[v]]
  /\ stepped' = TRUE
  /\ UNCHANGED p1p2synch

DoCall ==
  /\ \/ Now.op = "passeren" /\ passeren(Now.arg)
     \/ Now.op = "verhogen" /\ verhogen(Now.arg)
     \/ Now.op = "doIO" /\ doIO(Now.arg)
     \/ Now.op = "clockWait" /\ clockWait
     \/ Now.op = "terminate" /\ TermSelf
     \/ Now.op = "termParent" /\ TermOther(p_parent[current])
     \/ Now.op = "trap" /\ passUpOrDie
  /\ Done
  /\ UNCHANGED <<ret, pids, p1p2synch>>

(* The conditions of the program, on which it goes on.                     *)
OwnPid(v) == pids[v] = current
ParentPid(v) == pids[v] = p_parent[current]
Holds(c) ==
  CASE c = "p1p2synch" -> p1p2synch
    [] c \in {"p8pid", "p9pid"} -> ParentPid(c)
    [] c \in Pids \ {"p8pid", "p9pid"} -> OwnPid(c)
    [] c = "reset" -> \A s \in {sem_endp8, sem_blkp8, sem_endcreate1,
                               sem_endcreate2} : sem[s] = 0

(* The instructions which do not call the kernel.                          *)
DoOwn ==
  /\ \/ /\ Now.op = "store"
        /\ pids' = [pids EXCEPT ![Now.arg] = ret[current]]
        /\ ret' = [ret EXCEPT ![current] = NULL]
        /\ at' = Advance
        /\ UNCHANGED p1p2synch
     \/ /\ Now.op = "check" /\ Holds(Now.arg)
        /\ at' = Advance
        /\ UNCHANGED <<ret, pids, p1p2synch>>
     \/ /\ Now.op = "synch"
        /\ p1p2synch' = TRUE
        /\ at' = Advance
        /\ UNCHANGED <<ret, pids>>
     \/ /\ Now.op = "untilLong"
        /\ at' \in {Advance, [at EXCEPT ![current].pc = @ - 1]}
        /\ UNCHANGED <<ret, pids, p1p2synch>>
  /\ stepped' = TRUE
  /\ UNCHANGED vars

Step == Running /\ (DoCreate \/ DoCall \/ DoOwn)

(* A time slice of 5 ms is enough for an instruction: the timer does not   *)
(* interrupt a process which has not executed one since it was dispatched. *)
Interrupted(it) ==
  /\ \E plt \in BOOLEAN :
       /\ plt => stepped
       /\ interruptHandler(plt, it)
       /\ stepped' = (stepped /\ ~plt /\ current' = current)
  /\ UNCHANGED <<at, ret, pids, p1p2synch>>

Completed == (\E r \in Regs : DeviceDone(r)) /\ UNCHANGED testVars

(* A process goes on after a wait for the clock that was long enough.      *)
LongEnough == Step /\ Now.op = "untilLong" /\ at' = Advance

TestNext == Step \/ (\E it \in BOOLEAN : Interrupted(it)) \/ Completed

allVars == <<vars, testVars>>

(* The processor executes instructions and takes pending interrupts, the   *)
(* terminal answers, and the interval timer does not stop.  A wait may be  *)
(* short, if it begins late in an interval, but not each time.             *)
TestSpec ==
  /\ TestInit /\ [][TestNext]_allVars
  /\ WF_allVars(Step \/ (Pending # {} /\ Interrupted(FALSE)))
  /\ WF_allVars(Completed)
  /\ WF_allVars(mode = "wait" /\ Interrupted(TRUE))
  /\ SF_allVars(LongEnough)

-----------------------------------------------------------------------------
(* No PANIC() of the program is reached, whatever the interleaving: every  *)
(* process finds its pid, or that of its parent, where its creator stores  *)
(* it, p1 finds p2 done after the V that blocks, and the semaphores of p8  *)
(* are as they were before each round although processes died in them.     *)
ChecksPass ==
  mode = "run" => /\ Now.op = "check" => Holds(Now.arg)
                  /\ Now.op # "return"

(* Who is between P and V of the terminal's semaphore.                     *)
Prints(p) ==
  /\ p \notin Range(blocked[sem_term_mut])
  /\ LET i == Programs[at[p].prog][at[p].pc] IN
     \/ i.op = "doIO"
     \/ i.op = "verhogen" /\ i.arg = sem_term_mut

(* One process at a time prints, and nobody is killed while it does: the   *)
(* semaphore is taken just as long as there is a process to release it.    *)
OnePrints ==
  Cardinality({p \in Live : Prints(p)}) = IF sem[sem_term_mut] = 0 THEN 1 ELSE 0

(* The program is one of those called careful in Nucleus: DOIO finds       *)
(* nobody waiting, nobody is killed who waits for a device, and a process  *)
(* terminates itself or an ancestor.                                       *)
Careful ==
  Running =>
    /\ Now.op = "doIO" => blocked[Now.arg] = <<>>
    /\ Now.op \in {"terminate", "trap"} =>
         \A q \in Progeny(current), r \in Regs : q \notin Range(blocked[r])
    /\ Now.op = "termParent" =>
         /\ current \in Progeny(p_parent[current])
         /\ \A q \in Progeny(p_parent[current]), r \in Regs : q \notin Range(blocked[r])

(* The second p4 has got past P(sem_blkp4), where it is meant to wait      *)
(* until the first one dies and takes it along.                            *)
SecondPasses ==
  \E p, q \in Live :
    /\ at[p].prog = "p4" /\ at[q].prog = "p4" /\ p_parent[p] = q
    /\ at[p].pc > 1 /\ p4[at[p].pc - 1] = P(sem_blkp4)[1]
    /\ p \notin Range(blocked[sem_blkp4])

(* The program comes to its end, and the machine halts; there is one way   *)
(* in which it does not.  If the wait of p5 was too short for the death of *)
(* the p4s, its V(sem_blkp4) lets the second one pass instead of counting  *)
(* (p2test_04.c:645); p1 then waits for ever, and the machine panics.      *)
TestEnds == <>(mode = "halt") \/ (<>SecondPasses /\ <>(mode = "panic"))
=============================================================================
