CONSTANTS
    None = None
    Blank = Blank
    Unsaved = Unsaved
    Part = Part
    Slaves = {s1, s2}
    Names = {n1, n2}
    Items = {a, b}
    Dirs = {}
    Stubborn = {}
    Requests = {"trash", "empty"}
    LimitAction = "off"
    Limit = 2
    TimeLimit = FALSE
    OneDevice = TRUE
    Wrap = 8
    MaxCrashes = 0
SPECIFICATION Spec
PROPERTIES OnlyOrphansRemoved
CHECK_DEADLOCK FALSE
