------------------------------- MODULE MCUpload -------------------------------
(* What is dropped in each tab: one file, or two in one of the tabs.         *)
EXTENDS Upload, TLC

CONSTANTS t1, t2, f1, f2

DropsOfOne == [t \in Tabs |-> {<<f1>>}]
DropsOfTwo == [t \in Tabs |-> IF t = t1 THEN {<<f2, f1>>} ELSE {<<f1>>}]
==============================================================================
