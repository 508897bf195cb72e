------------------------------ MODULE MCFamily ------------------------------
(***************************************************************************)
(* Four processes, enough for a chain of three generations with siblings,  *)
(* and two namespaces.                                                     *)
(***************************************************************************)
EXTENDS Family, TLC

CONSTANTS p1, p2, p3, p4, n1, n2

Symmetric == Permutations({p1, p2, p3, p4}) \cup Permutations({n1, n2})
=============================================================================
