------------------------------- MODULE Queues -------------------------------
(***************************************************************************)
(* Intrusive lists as sequences.                                           *)
(*                                                                         *)
(* Every queue of the kernel (the ready queue, the queue of a semaphore,   *)
(* the free lists) is a circular doubly linked list of list.h.  The        *)
(* modules of this project see such a list as the sequence of its          *)
(* elements from head to tail: list_add_tail is Append, list_first_entry   *)
(* is Head, list_add puts an element in front.  Deletion by address        *)
(* (list_del, list_safe_del) takes an element out of whatever position it  *)
(* has and leaves the order of the others alone.                           *)
(*                                                                         *)
(* Without is written without recursion, so that the modules which use it  *)
(* can be reasoned about with TLAPS.                                       *)
(***************************************************************************)
EXTENDS Integers, Sequences, FiniteSets, Functions

(* The positions of q whose element is not in S, and the place each of     *)
(* them takes once the others are gone.                                    *)
Kept(q, S) == {i \in DOMAIN q : q[i] \notin S}
Rank(q, S, i) == Cardinality({j \in Kept(q, S) : j <= i})

(* The sequence q after every element of S has been deleted from it.       *)
Without(q, S) ==
  [k \in 1..Cardinality(Kept(q, S)) |->
     q[CHOOSE i \in Kept(q, S) : Rank(q, S, i) = k]]

(* No element is linked twice into q.                                      *)
NoRepeats(q) == \A i, j \in DOMAIN q : q[i] = q[j] => i = j

(* Element a is nearer to the head of q than element b.                    *)
Before(q, a, b) ==
  \E i, j \in DOMAIN q : i < j /\ q[i] = a /\ q[j] = b
=============================================================================
