--------------------------------- MODULE MCUndo ---------------------------------
EXTENDS UndoManager, TLC

\* The addresses are compared for equality and nothing else.
UndoSymmetry == Permutations(Groups) \cup Permutations(Types)

==============================================================================
