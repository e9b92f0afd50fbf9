------------------------------ MODULE MCSelection ------------------------------
EXTENDS Selection

\* Items are compared for equality only.
ItemSymmetry == Permutations(Items)

==============================================================================
