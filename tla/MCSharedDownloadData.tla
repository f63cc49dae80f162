------------------------- MODULE MCSharedDownloadData -------------------------
(* The shared dictionary with two downloads and two Sanic workers, which   *)
(* may change places.                                                      *)
EXTENDS SharedDownloadData, TLC

CONSTANTS d1, d2, w1, w2

\* The properties except the downloads in `undone', which only grows: nothing is left
\* to be checked of a state in which it holds all of them, or of any after it.
StillClaimed == undone # Downloads

SharedSymmetry == Permutations(Downloads) \cup Permutations(Workers)
==============================================================================
