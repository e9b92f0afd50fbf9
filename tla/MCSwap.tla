--------------------------------- MODULE MCSwap ---------------------------------
EXTENDS SwapFile, TLC

\* Texts other than the empty one, and files, are compared for equality only.
SwapSymmetry == Permutations(Texts \ {Blank}) \cup Permutations(Files)

==============================================================================
