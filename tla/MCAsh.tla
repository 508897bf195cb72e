------------------------------- MODULE MCAsh --------------------------------
(***************************************************************************)
(* A small table for TLC: four processes and three descriptors, so that    *)
(* the descriptors can run out.  There are more addresses than             *)
(* descriptors, so that descriptors have to be recycled, and three of the  *)
(* addresses share a bucket, so that chains of three descriptors, and      *)
(* deletions anywhere in them, occur.                                      *)
(***************************************************************************)
EXTENDS Ash, TLC

CONSTANTS p1, p2, p3, p4, s1, s2, s3, s4, d1, d2, d3, b1, b2

MCHash == s1 :> b1 @@ s2 :> b1 @@ s3 :> b1 @@ s4 :> b2

(* Processes are interchangeable, and so are the descriptors.              *)
Symmetric == Permutations({p1, p2, p3, p4}) \cup Permutations({d1, d2, d3})
=============================================================================
