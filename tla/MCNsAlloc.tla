----------------------------- MODULE MCNsAlloc ------------------------------
(***************************************************************************)
(* Three processes and three descriptors: a call can find the list full,   *)
(* shorter, with one descriptor left and empty, while the others are at    *)
(* any point of theirs.  Where two calls have met the pointers may be      *)
(* anything: MCNsAlloc checks such a state and does not go on from it,     *)
(* MCNsAllocRace, with two processes, does.                                *)
(***************************************************************************)
EXTENDS NsAlloc, TLC

CONSTANTS p1, p2, p3, n1, n2, n3

NotMet == ~met

Symmetric == Permutations({p1, p2, p3}) \cup Permutations({n1, n2, n3})
=============================================================================
