----------------------------- MODULE MCFileMoves -----------------------------
(* Groups of a primary file and a sidecar.                                 *)
EXTENDS FileMoves, TLC

CONSTANTS g1, g2, g3, video, poster

GroupSymmetry == Permutations(Groups)
==============================================================================
