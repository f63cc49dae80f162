--------------------------- MODULE MCPerpetualOwner ---------------------------
(* Three worker processes: two at a time, and one in place of a dead one.  *)
EXTENDS PerpetualOwner, TLC

CONSTANTS p1, p2, p3

ProcSymmetry == Permutations(Procs)
==============================================================================
