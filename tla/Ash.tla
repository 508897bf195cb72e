-------------------------------- MODULE Ash ---------------------------------
(***************************************************************************)
(* The table of blocked processes: pandos/phase1/ash.c.                    *)
(*                                                                         *)
(* A semaphore is an address.  It has a descriptor (semd_t) only while     *)
(* some process waits on it: descriptors come from the list semdFree_h,    *)
(* hang in the buckets of the hash table semd_h while in use, and go back  *)
(* to the head of the free list with the last waiter.  A process knows     *)
(* the semaphore it waits on (p_semAdd).  s_key is not cleared when a      *)
(* descriptor is freed.                                                    *)
(*                                                                         *)
(* The module shows that the table behaves as the queues of SemQueues:     *)
(* no descriptor is lost, none is shared, and MAXPROC descriptors are      *)
(* enough for MAXPROC processes.                                           *)
(***************************************************************************)
EXTENDS Queues

CONSTANTS Pcbs,     \* the process control blocks
          Keys,     \* the addresses used as semaphores
          Semds,    \* semdFree_table
          Buckets,  \* the chains of semd_h
          Hash,     \* the bucket of an address (hash_min over 12 bits)
          NULL      \* the null pointer

ASSUME AshAssumption ==
  /\ NULL \notin Pcbs \cup Keys \cup Semds
  /\ IsFiniteSet(Pcbs) /\ IsFiniteSet(Semds)
  /\ Hash \in [Keys -> Buckets]

(* The kernel has MAXPROC of both.  This is not assumed by the module: the *)
(* table is also looked at when it is too small.                           *)
EnoughSemds == Cardinality(Pcbs) <= Cardinality(Semds)

VARIABLES semdFree,  \* semdFree_h, from its head
          semd_h,    \* the chain of every bucket
          s_key,     \* per descriptor: its semaphore, stale once freed
          s_procq,   \* per descriptor: the processes waiting on it
          p_semAdd,  \* per process: the semaphore it waits on, or NULL
          last       \* the last call and what it returned

vars == <<semdFree, semd_h, s_key, s_procq, p_semAdd, last>>
table == <<semdFree, semd_h, s_key, s_procq, p_semAdd>>

Returned(op, ret) == last' = [op |-> op, ret |-> ret]

(* initASH: every descriptor is free and every chain empty.  The loop puts *)
(* the descriptors on the list in some order, which one does not matter.   *)
Init ==
  /\ semdFree \in {f \in [1..Cardinality(Semds) -> Semds] : NoRepeats(f)}
  /\ semd_h = [b \in Buckets |-> <<>>]
  /\ s_key = [d \in Semds |-> NULL]
  /\ s_procq = [d \in Semds |-> <<>>]
  /\ p_semAdd = [p \in Pcbs |-> NULL]
  /\ last = [op |-> "initASH", ret |-> NULL]

(* hash_for_each_possible with the test on s_key: the positions, in the    *)
(* chain of a, of the descriptors of a; the code stops at the first.       *)
Matches(a) == {i \in DOMAIN semd_h[Hash[a]] : s_key[semd_h[Hash[a]][i]] = a}
HasSemd(a) == Matches(a) # {}
SemdOf(a) ==
  semd_h[Hash[a]][CHOOSE i \in Matches(a) : \A j \in Matches(a) : i <= j]

(* Bugs of Taken for the runs to find: the descriptor is freed but left in *)
(* its chain; the process goes on pointing to the semaphore.               *)
TakenKeepsChain(d, p, q) ==
  /\ s_procq' = [s_procq EXCEPT ![d] = q]
  /\ p_semAdd' = [p_semAdd EXCEPT ![p] = NULL]
  /\ semdFree' = IF q = <<>> THEN <<d>> \o semdFree ELSE semdFree
  /\ UNCHANGED <<semd_h, s_key>>

TakenKeepsSemAdd(d, p, q) ==
  /\ s_procq' = [s_procq EXCEPT ![d] = q]
  /\ IF q = <<>>
     THEN /\ semd_h' = [b \in Buckets |-> Without(semd_h[b], {d})]
          /\ semdFree' = <<d>> \o semdFree
     ELSE UNCHANGED <<semd_h, semdFree>>
  /\ UNCHANGED <<s_key, p_semAdd>>

(* The tail of removeBlocked and outBlocked: p has been unlinked from the  *)
(* queue of d, which is now q; a descriptor nobody waits on is freed.      *)
Taken(d, p, q) ==
  /\ s_procq' = [s_procq EXCEPT ![d] = q]
  /\ p_semAdd' = [p_semAdd EXCEPT ![p] = NULL]
  /\ IF q = <<>>
     THEN /\ semd_h' = [b \in Buckets |-> Without(semd_h[b], {d})]
          /\ semdFree' = <<d>> \o semdFree
     ELSE UNCHANGED <<semd_h, semdFree>>
  /\ UNCHANGED s_key

-----------------------------------------------------------------------------

InsertNull(a, p) ==
  /\ a = NULL \/ p = NULL
  /\ Returned("insertBlocked", 1)
  /\ UNCHANGED table

InsertTwice(a, p) ==
  /\ a # NULL /\ p # NULL /\ p_semAdd[p] # NULL
  /\ Returned("insertBlocked", 2)
  /\ UNCHANGED table

(* Bugs: p_semAdd gets the descriptor for the address; a process is put in *)
(* front of those that waited before it.                                   *)
InsertKnownDescriptor(a, p) ==
  /\ a # NULL /\ p # NULL /\ p_semAdd[p] = NULL /\ HasSemd(a)
  /\ s_procq' = [s_procq EXCEPT ![SemdOf(a)] = Append(@, p)]
  /\ p_semAdd' = [p_semAdd EXCEPT ![p] = SemdOf(a)]
  /\ Returned("insertBlocked", 0)
  /\ UNCHANGED <<semdFree, semd_h, s_key>>

InsertKnownFront(a, p) ==
  /\ a # NULL /\ p # NULL /\ p_semAdd[p] = NULL /\ HasSemd(a)
  /\ s_procq' = [s_procq EXCEPT ![SemdOf(a)] = <<p>> \o @]
  /\ p_semAdd' = [p_semAdd EXCEPT ![p] = a]
  /\ Returned("insertBlocked", 0)
  /\ UNCHANGED <<semdFree, semd_h, s_key>>

InsertKnown(a, p) ==
  /\ a # NULL /\ p # NULL /\ p_semAdd[p] = NULL /\ HasSemd(a)
  /\ s_procq' = [s_procq EXCEPT ![SemdOf(a)] = Append(@, p)]
  /\ p_semAdd' = [p_semAdd EXCEPT ![p] = a]
  /\ Returned("insertBlocked", 0)
  /\ UNCHANGED <<semdFree, semd_h, s_key>>

InsertFull(a, p) ==
  /\ a # NULL /\ p # NULL /\ p_semAdd[p] = NULL /\ ~HasSemd(a)
  /\ semdFree = <<>>
  /\ Returned("insertBlocked", 3)
  /\ UNCHANGED table

(* Bug: the key of a recycled descriptor is not updated.                   *)
InsertNewStaleKey(a, p) ==
  /\ a # NULL /\ p # NULL /\ p_semAdd[p] = NULL /\ ~HasSemd(a)
  /\ semdFree # <<>>
  /\ LET d == Head(semdFree) IN
     /\ semdFree' = Tail(semdFree)
     /\ s_key' = [s_key EXCEPT ![d] = IF @ = NULL THEN a ELSE @]
     /\ s_procq' = [s_procq EXCEPT ![d] = <<p>>]
     /\ semd_h' = [semd_h EXCEPT ![Hash[a]] = <<d>> \o @]
  /\ p_semAdd' = [p_semAdd EXCEPT ![p] = a]
  /\ Returned("insertBlocked", 0)

(* A new descriptor is the first free one and goes to the head of its      *)
(* chain (hash_add is hlist_add_head).                                     *)
InsertNew(a, p) ==
  /\ a # NULL /\ p # NULL /\ p_semAdd[p] = NULL /\ ~HasSemd(a)
  /\ semdFree # <<>>
  /\ LET d == Head(semdFree) IN
     /\ semdFree' = Tail(semdFree)
     /\ s_key' = [s_key EXCEPT ![d] = a]
     /\ s_procq' = [s_procq EXCEPT ![d] = <<p>>]
     /\ semd_h' = [semd_h EXCEPT ![Hash[a]] = <<d>> \o @]
  /\ p_semAdd' = [p_semAdd EXCEPT ![p] = a]
  /\ Returned("insertBlocked", 0)

insertBlocked(a, p) ==
  \/ InsertNull(a, p)
  \/ InsertTwice(a, p)
  \/ InsertKnown(a, p)
  \/ InsertFull(a, p)
  \/ InsertNew(a, p)

(* There is something to release: the descriptor exists and has waiters.   *)
CanRemove(a) == a # NULL /\ HasSemd(a) /\ s_procq[SemdOf(a)] # <<>>

removeBlocked(a) ==
  \/ /\ ~CanRemove(a)
     /\ Returned("removeBlocked", NULL)
     /\ UNCHANGED table
  \/ /\ CanRemove(a)
     /\ LET q == s_procq[SemdOf(a)] IN
        /\ Taken(SemdOf(a), Head(q), Tail(q))
        /\ Returned("removeBlocked", Head(q))

outBlocked(p) ==
  \/ /\ ~(p # NULL /\ p_semAdd[p] # NULL /\ HasSemd(p_semAdd[p]))
     /\ Returned("outBlocked", NULL)
     /\ UNCHANGED table
  \/ /\ p # NULL /\ p_semAdd[p] # NULL /\ HasSemd(p_semAdd[p])
     /\ LET d == SemdOf(p_semAdd[p]) IN
          Taken(d, p, Without(s_procq[d], {p}))
     /\ Returned("outBlocked", p)

headBlocked(a) ==
  /\ Returned("headBlocked", IF CanRemove(a) THEN Head(s_procq[SemdOf(a)])
                                             ELSE NULL)
  /\ UNCHANGED table

Next ==
  \/ \E a \in Keys \cup {NULL}, p \in Pcbs \cup {NULL} : insertBlocked(a, p)
  \/ \E a \in Keys \cup {NULL} : removeBlocked(a) \/ headBlocked(a)
  \/ \E p \in Pcbs \cup {NULL} : outBlocked(p)

Spec == Init /\ [][Next]_vars

-----------------------------------------------------------------------------

Chain(b) == Range(semd_h[b])
InUse == UNION {Chain(b) : b \in Buckets}

(* The shape of the state.                                                 *)
TypeOK ==
  /\ semdFree \in Seq(Semds)
  /\ semd_h \in [Buckets -> Seq(Semds)]
  /\ s_key \in [Semds -> Keys \cup {NULL}]
  /\ s_procq \in [Semds -> Seq(Pcbs)]
  /\ p_semAdd \in [Pcbs -> Keys \cup {NULL}]

(* A descriptor is at exactly one place, once: on the free list with       *)
(* nobody waiting on it, or in one chain with at least one waiter.         *)
DescriptorsConserved ==
  /\ NoRepeats(semdFree)
  /\ \A b \in Buckets : NoRepeats(semd_h[b])
  /\ \A d \in Semds :
       \/ d \in Range(semdFree) /\ d \notin InUse /\ s_procq[d] = <<>>
       \/ d \notin Range(semdFree) /\ d \in InUse /\ s_procq[d] # <<>>

(* A search by address finds every descriptor in use, and there is only    *)
(* one per address: it hangs in the bucket its own, current key hashes to. *)
KeysHashed ==
  /\ \A b \in Buckets : \A d \in Chain(b) :
       s_key[d] # NULL /\ Hash[s_key[d]] = b
  /\ \A d, e \in InUse : s_key[d] = s_key[e] => d = e

(* p_semAdd tells the truth: a process stands, once, in the queue of the   *)
(* descriptor its p_semAdd leads to, and in no queue when that is NULL.    *)
WaitersLinked ==
  /\ \A d \in Semds : NoRepeats(s_procq[d])
  /\ \A p \in Pcbs : \A d \in Semds :
       p \in Range(s_procq[d]) <=>
         d \in InUse /\ p_semAdd[p] # NULL /\ s_key[d] = p_semAdd[p]
  /\ \A p \in Pcbs : p_semAdd[p] # NULL => HasSemd(p_semAdd[p])

TableInv == DescriptorsConserved /\ KeysHashed /\ WaitersLinked

(* With as many descriptors as processes, insertBlocked never gives up on  *)
(* a process for want of a descriptor.                                     *)
NeverFull == EnoughSemds => last # [op |-> "insertBlocked", ret |-> 3]

(* However few the descriptors are, insertBlocked gives up only when each  *)
(* of them serves some other semaphore on which a process really waits.    *)
FullOnlyWhenExhausted ==
  last = [op |-> "insertBlocked", ret |-> 3] =>
    \A d \in Semds : \E p \in Pcbs : p_semAdd[p] = s_key[d] /\ p_semAdd[p] # NULL

(* The table implements one queue per semaphore address, and turns a       *)
(* process away just when as many semaphores have a queue as there are     *)
(* descriptors, and that of a is not one of them.                          *)
Queue(a) == IF HasSemd(a) THEN s_procq[SemdOf(a)] ELSE <<>>
Q == INSTANCE SemQueues WITH blocked <- [a \in Keys |-> Queue(a)],
                             Limit <- Cardinality(Semds)
ImplementsQueues == Q!Spec
=============================================================================
