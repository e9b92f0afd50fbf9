CONSTANTS
    None = None
    Files = {f1}
    Texts = {t0, t1, t2}
    Blank = t0
    Wrong = Wrong
    Careful = FALSE
    Long = FALSE
    MaxLog = 8
SPECIFICATION Spec
INVARIANTS ReplayedInPlace
SYMMETRY SwapSymmetry
