CONSTANTS
    Items = {a, b, c, d}
    Batch = 2
    Careful = TRUE
SPECIFICATION Spec
INVARIANTS TypeOK ListenersKnow SetsBehave
PROPERTIES SelectionFollows CurrentFollows
SYMMETRY ItemSymmetry
