---------------------------- MODULE MCFileWorker ----------------------------
(* Instances of FileWorker for TLC.                                        *)
EXTENDS FileWorker

CONSTANTS r1, m1, b1, b2

OneRefresh == {r1}
OneMove == {m1}
TwoBatches == {b1, b2}

\* One batch has a next collection to go on to; the other can nest around it.
TwoThenOne == [b \in {b1, b2} |-> IF b = b1 THEN 2 ELSE 1]
=============================================================================
