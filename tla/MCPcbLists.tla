----------------------------- MODULE MCPcbLists -----------------------------
(***************************************************************************)
(* Two queues and four processes: every process can be in the free list,   *)
(* in either queue or in none, and rings of up to four nodes occur, so     *)
(* that deletions at the head, at the tail and in the middle do.           *)
(***************************************************************************)
EXTENDS PcbLists, TLC

CONSTANTS p1, p2, p3, p4, h1, h2

Symmetric == Permutations({p1, p2, p3, p4}) \cup Permutations({h1, h2})
=============================================================================
