----------------------------- MODULE MCCpuTime ------------------------------
(***************************************************************************)
(* Two processes and a clock of a few ticks: enough for several slices of  *)
(* each, with pauses between them.                                         *)
(***************************************************************************)
EXTENDS CpuTime

CONSTANTS p1, p2
=============================================================================
