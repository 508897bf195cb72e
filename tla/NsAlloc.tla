------------------------------- MODULE NsAlloc ------------------------------
(***************************************************************************)
(* allocNamespace of pandos/phase1/ns.c as the processes run it.           *)
(*                                                                         *)
(* It is no system call: a process calls it (p11 of the phase 2 test) with *)
(* interrupts on, and a time slice may end, or the process be terminated,  *)
(* between any two of its accesses to the list of free descriptors.  The   *)
(* build does not optimise (-O0 in the Makefile), so these are the         *)
(* accesses of the source.  The kernel's addNamespace, as part of a system *)
(* call, is one step.                                                      *)
(***************************************************************************)
EXTENDS ListHead, Queues

CONSTANTS Procs,     \* the processes which allocate
          Spaces,    \* PID_nsd
          nsFree,    \* PID_nsFree_h
          nsList,    \* PID_nsList_h
          NULL       \* the null pointer

ASSUME NsAllocAssumption ==
  /\ IsFiniteSet(Procs) /\ IsFiniteSet(Spaces)
  /\ NULL \notin Procs \cup Spaces /\ {nsFree, nsList} \cap Spaces = {}
  /\ nsFree # nsList /\ NULL \notin {nsFree, nsList}

VARIABLES m,      \* the pointers of the heads and of every n_link
          pc,     \* per process: where in allocNamespace it is
          ns,     \* per process: its variable ns, then the value returned
          prv,    \* per process: the arguments prev and next of __list_del
          nxt,
          known,  \* the descriptors a call has returned
          met     \* history: two calls have been in the window at once

vars == <<m, pc, ns, prv, nxt, known, met>>

(* initNamespaces.                                                         *)
Init ==
  /\ \E f \in {t \in [1..Cardinality(Spaces) -> Spaces] : NoRepeats(t)} :
       LET empty == INIT_LIST_HEAD(INIT_LIST_HEAD(
                      [x \in Spaces \cup {nsFree, nsList} |-> Unlinked(NULL)],
                      nsFree), nsList)
           linked[i \in 0..Len(f)] ==
             IF i = 0 THEN empty ELSE list_add_tail(linked[i - 1], f[i], nsFree)
       IN  m = linked[Len(f)]
  /\ pc = [p \in Procs |-> "idle"]
  /\ ns = [p \in Procs |-> NULL]
  /\ prv = [p \in Procs |-> NULL]
  /\ nxt = [p \in Procs |-> NULL]
  /\ known = {}
  /\ met = FALSE

Goto(p, l) == pc' = [pc EXCEPT ![p] = l]

(* From the test of the list to the write which unlinks, what p has read   *)
(* of the list must stay true.                                             *)
Window == {p \in Procs : pc[p] \in {"first", "links", "back", "forth"}}

-----------------------------------------------------------------------------
(* if (list_empty(&PID_nsFree_h)) return NULL.  The code does not ask      *)
(* whether another process is in the window: met notes that one was.       *)
Test(p) ==
  /\ pc[p] = "idle"
  /\ IF list_empty(m, nsFree)
     THEN ns' = [ns EXCEPT ![p] = NULL] /\ UNCHANGED <<pc, met>>
     ELSE Goto(p, "first") /\ met' = (met \/ Window # {}) /\ UNCHANGED ns
  /\ UNCHANGED <<m, prv, nxt, known>>

(* ns = list_first_entry(&PID_nsFree_h, ...): the head is read again.      *)
First(p) ==
  /\ pc[p] = "first"
  /\ ns' = [ns EXCEPT ![p] = m[nsFree].next]
  /\ Goto(p, "links")
  /\ UNCHANGED <<m, prv, nxt, known, met>>

(* list_del(&ns->n_link): its two pointers are read, its neighbours linked *)
(* to each other, one after the other, and its own pointers cleared.  Once *)
(* two calls have met a pointer may be null.  It traps, and the trap kills *)
(* the process: that is Killed, and the guards say that nothing else is.   *)
Links(p) ==
  /\ pc[p] = "links" /\ ns[p] # NULL
  /\ prv' = [prv EXCEPT ![p] = m[ns[p]].prev]
  /\ nxt' = [nxt EXCEPT ![p] = m[ns[p]].next]
  /\ Goto(p, "back")
  /\ UNCHANGED <<m, ns, known, met>>

Back(p) ==
  /\ pc[p] = "back" /\ nxt[p] # NULL
  /\ m' = [m EXCEPT ![nxt[p]].prev = prv[p]]
  /\ Goto(p, "forth")
  /\ UNCHANGED <<ns, prv, nxt, known, met>>

(* Bug: the head of the list still leads to the descriptor.                *)
ForthNot(p) ==
  /\ pc[p] = "forth"
  /\ Goto(p, "clear next")
  /\ UNCHANGED <<m, ns, prv, nxt, known, met>>

Forth(p) ==
  /\ pc[p] = "forth" /\ prv[p] # NULL
  /\ m' = [m EXCEPT ![prv[p]].next = nxt[p]]
  /\ Goto(p, "clear next")
  /\ UNCHANGED <<ns, prv, nxt, known, met>>

ClearNext(p) ==
  /\ pc[p] = "clear next"
  /\ m' = [m EXCEPT ![ns[p]].next = NULL]
  /\ Goto(p, "clear prev")
  /\ UNCHANGED <<ns, prv, nxt, known, met>>

(* The last write, and the return (n_type has one value only, NS_PID).     *)
ClearPrev(p) ==
  /\ pc[p] = "clear prev"
  /\ m' = [m EXCEPT ![ns[p]].prev = NULL]
  /\ known' = known \cup {ns[p]}
  /\ Goto(p, "idle")
  /\ prv' = [prv EXCEPT ![p] = NULL]
  /\ nxt' = [nxt EXCEPT ![p] = NULL]
  /\ UNCHANGED <<ns, met>>

-----------------------------------------------------------------------------

(* A process is created in a namespace one knows of.  A null pointer stops *)
(* the kernel, and so the machine.                                         *)
addNamespace(s) ==
  /\ s \in known
  /\ m[s] = Unlinked(NULL) \/ NULL \notin {m[s].next, m[s].prev}
  /\ m' = list_add_tail(list_safe_del(m, s, NULL), s, nsList)
  /\ UNCHANGED <<pc, ns, prv, nxt, known, met>>

(* TERMPROCESS of p, wherever it is; a new process gets its pcb.           *)
Killed(p) ==
  /\ Goto(p, "idle")
  /\ ns' = [ns EXCEPT ![p] = NULL]
  /\ prv' = [prv EXCEPT ![p] = NULL]
  /\ nxt' = [nxt EXCEPT ![p] = NULL]
  /\ UNCHANGED <<m, known, met>>

(* Bug: __list_del writes prev->next first.                                *)
Swapped(p) ==
  /\ pc[p] \in {"back", "forth"} /\ NULL \notin {prv[p], nxt[p]}
  /\ IF pc[p] = "back"
     THEN m' = [m EXCEPT ![prv[p]].next = nxt[p]] /\ Goto(p, "forth")
     ELSE m' = [m EXCEPT ![nxt[p]].prev = prv[p]] /\ Goto(p, "clear next")
  /\ UNCHANGED <<ns, prv, nxt, known, met>>

allocSwapped(p) ==
  \/ Test(p) \/ First(p) \/ Links(p) \/ Swapped(p)
  \/ ClearNext(p) \/ ClearPrev(p)

allocNamespace(p) ==
  \/ Test(p) \/ First(p) \/ Links(p) \/ Back(p) \/ Forth(p)
  \/ ClearNext(p) \/ ClearPrev(p)

Next ==
  \/ \E p \in Procs : allocNamespace(p) \/ Killed(p)
  \/ \E s \in Spaces : addNamespace(s)

Spec == Init /\ [][Next]_vars

-----------------------------------------------------------------------------

Free == Contents(m, nsFree)
Used == Contents(m, nsList)
Unlinking == {p \in Procs : pc[p] \in {"clear next", "clear prev"}}
Holder(s) == {p \in Procs : ns[p] = s /\ (pc[p] = "idle" \/ p \in Unlinking)}

(* Wherever a process was interrupted or killed, and as long as no two     *)
(* calls have been in the window at once: the free list leads, once past   *)
(* each, to descriptors which nobody has been given; two processes never   *)
(* have the same one; the list of the kernel is a whole ring; and what was *)
(* returned is in the kernel's list or properly unlinked, so that          *)
(* addNamespace may take it.                                               *)
PoolWhole ==
  ~met => /\ NoRepeats(Free) /\ NoRepeats(Used)
          /\ Range(Free) \cup Range(Used) \subseteq Spaces
          /\ Range(Free) \cap known = {} /\ Range(Used) \subseteq known
          /\ \A s \in Range(Free) : Holder(s) = {}
          /\ \A s \in Spaces : Cardinality(Holder(s)) <= 1
          /\ \A s \in Range(Used) \cup {nsList} : m[m[s].next].prev = s
          /\ \A s \in known \ Range(Used) : m[s] = Unlinked(NULL)

(* In spite of the interleaving, and with the same condition, a call takes *)
(* effect at one moment: when it finds the list empty, or when it unlinks  *)
(* the first descriptor.                                                   *)
Pool == INSTANCE NsPool
          WITH free <- Free, used <- Used,
               got <- [p \in Procs |-> IF p \in Window THEN NULL ELSE ns[p]]
ImplementsPool == Pool!Init /\ [][~met' => [Pool!Next]_(Pool!vars)]_vars

(* What a call returns is newly allocated (ns.h:45): no call has returned  *)
(* it before.  The code does not see to it that two calls cannot meet.     *)
NewlyAllocated ==
  [][\A p \in Procs : ClearPrev(p) => ns[p] \notin known]_vars
=============================================================================
