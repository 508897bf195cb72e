------------------------------ MODULE ListHead ------------------------------
(***************************************************************************)
(* The circular doubly linked lists of pandos/phase1/include/list.h and    *)
(* util.h, pointer by pointer.                                             *)
(*                                                                         *)
(* A memory maps every list_head, the heads of the lists and the nodes     *)
(* embedded in the structures alike, to its two pointers; nil is the null  *)
(* pointer.  The operators return the memory after the assignments of the  *)
(* C function, made in the order of the source: with aliased arguments the *)
(* order matters.                                                          *)
(***************************************************************************)
EXTENDS Integers, Sequences, FiniteSets

Unlinked(nil) == [next |-> nil, prev |-> nil]

INIT_LIST_HEAD(m, h) == [m EXCEPT ![h] = [next |-> h, prev |-> h]]

list_link(m, new, prv, nxt) ==
  [m EXCEPT ![nxt].prev = new, ![new].next = nxt,
            ![new].prev = prv, ![prv].next = new]

list_add(m, new, head) == list_link(m, new, head, m[head].next)
list_add_tail(m, new, head) == list_link(m, new, m[head].prev, head)

(* Bug for the runs to find: the pointers of the node itself are left.     *)
list_delKeeps(m, entry, nil) ==
  LET p == m[entry].prev
      n == m[entry].next
  IN  [m EXCEPT ![n].prev = p, ![p].next = n]

list_del(m, entry, nil) ==
  LET p == m[entry].prev
      n == m[entry].next
  IN  [m EXCEPT ![n].prev = p, ![p].next = n, ![entry] = Unlinked(nil)]

(* A node which is in no list has two null pointers: it is left alone.     *)
list_safe_del(m, node, nil) ==
  IF m[node] = Unlinked(nil) THEN m ELSE list_del(m, node, nil)

list_empty(m, head) == m[head].next = head

(* The nodes a traversal of the list passes, in their order:               *)
(* list_for_each_entry, list_search, list_size.                            *)
Contents(m, head) ==
  LET N == 0..Cardinality(DOMAIN m)
      at[i \in N] == IF i = 0 THEN m[head].next
                     ELSE IF at[i - 1] = head THEN head ELSE m[at[i - 1]].next
      n == CHOOSE i \in N : at[i] = head /\ \A j \in 0..(i - 1) : at[j] # head
  IN  [i \in 1..n |-> at[i - 1]]

list_contains(m, node, head) ==
  \E i \in DOMAIN Contents(m, head) : Contents(m, head)[i] = node
=============================================================================
