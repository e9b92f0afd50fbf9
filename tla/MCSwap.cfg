CONSTANTS
    None = None
    Files = {f1, f2}
    Texts = {t0, t1, t2}
    Blank = t0
    Wrong = Wrong
    Careful = TRUE
    Long = FALSE
    MaxLog = 5
SPECIFICATION Spec
INVARIANTS TypeOK Covered Recoverable ReplayedInPlace NoStaleLog
SYMMETRY SwapSymmetry
