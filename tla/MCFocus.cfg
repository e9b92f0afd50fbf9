CONSTANTS
    None = None
    v = v
    w = w
    x = x
    Clients = {v, w, x}
    Applications <- MCApplications
    Tabs = {x}
    Fickle = {x}
    MaxDesktops = 2
SPECIFICATION Spec
INVARIANTS TypeOK ChainsAgree
PROPERTIES ActiveStaysFirst FocusPassedOn
SYMMETRY WindowSymmetry
CHECK_DEADLOCK FALSE
