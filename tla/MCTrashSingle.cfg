CONSTANTS
    None = None
    Blank = Blank
    Unsaved = Unsaved
    Part = Part
    Slaves = {s1}
    Names = {n1, n2}
    Items = {a, d}
    Dirs = {d}
    Stubborn = {d}
    Requests = {"trash", "copy", "restore", "extract", "overwrite", "copyout", "del", "empty"}
    LimitAction = "warn"
    Limit = 2
    TimeLimit = TRUE
    OneDevice = FALSE
    Wrap = 8
    MaxCrashes = 1
SPECIFICATION FairSpec
INVARIANTS TypeOK NoLoss FilesListed FlagExact
PROPERTIES EmptyIsComplete RequestsEnd
CHECK_DEADLOCK FALSE
