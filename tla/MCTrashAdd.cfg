CONSTANTS
    None = None
    Blank = Blank
    Unsaved = Unsaved
    Part = Part
    Slaves = {s1, s2}
    Names = {n1, n2, n3}
    Items = {a, b}
    Dirs = {}
    Stubborn = {}
    Requests = {"trash", "copy"}
    LimitAction = "off"
    Limit = 3
    TimeLimit = FALSE
    OneDevice = FALSE
    Wrap = 8
    MaxCrashes = 1
SPECIFICATION Spec
INVARIANTS CacheExact
SYMMETRY FullSymmetry
CHECK_DEADLOCK FALSE
