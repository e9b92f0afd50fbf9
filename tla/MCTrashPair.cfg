CONSTANTS
    None = None
    Blank = Blank
    Unsaved = Unsaved
    Part = Part
    Slaves = {s1, s2}
    Names = {n1, n2}
    Items = {a, b}
    Dirs = {}
    Stubborn = {}
    Requests = {"trash", "restore", "del"}
    LimitAction = "delete"
    Limit = 2
    TimeLimit = FALSE
    OneDevice = TRUE
    Wrap = 8
    MaxCrashes = 1
SPECIFICATION Spec
INVARIANTS NoClobber
SYMMETRY FullSymmetry
CHECK_DEADLOCK FALSE
