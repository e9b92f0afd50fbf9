-------------------------------- MODULE MCFocus --------------------------------
EXTENDS FocusChain, TLC

CONSTANTS v, w, x

MCApplications == {{v, w}, {x}}
WindowSymmetry == Permutations({v, w})

================================================================================
