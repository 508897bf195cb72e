----------------------------- MODULE MCNucleus ------------------------------
(***************************************************************************)
(* Small instances of the nucleus for TLC.                                 *)
(***************************************************************************)
EXTENDS Nucleus, TLC

CONSTANTS p1, p2, p3, p4, s1, s2

(* Processes are interchangeable.                                          *)
Symmetric4 == Permutations({p1, p2, p3, p4})
=============================================================================
