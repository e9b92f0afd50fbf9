------------------------------- MODULE MCTrash -------------------------------
(* The trash with a few slaves, names and items.  Names and slaves are         *)
(* interchangeable; items are too while none is a directory or stubborn.       *)
EXTENDS Trash, TLC

NameSymmetry == Permutations(Names)
PairSymmetry == Permutations(Names) \cup Permutations(Slaves)
FullSymmetry == PairSymmetry \cup Permutations(Items)
==============================================================================
