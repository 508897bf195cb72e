----------------------------- MODULE MCContext ------------------------------
(***************************************************************************)
(* A small instance of the nucleus with the saved states, for TLC.         *)
(***************************************************************************)
EXTENDS Context, TLC

CONSTANTS p1, p2, p3, p4, s1

(* Processes are interchangeable.                                          *)
Symmetric4 == Permutations({p1, p2, p3, p4})
=============================================================================
