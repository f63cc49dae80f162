----------------------------- MODULE MCInventory -----------------------------
(* Two tabs with one inventory.                                              *)
EXTENDS Inventory, TLC

CONSTANTS t1, t2, e1, e2

TabSymmetry == Permutations(Tabs) \cup Permutations(Edits)
==============================================================================
