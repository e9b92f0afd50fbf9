CONSTANTS
    None = None
    Groups = {g1, g2, g3, g4, g5, g6}
    Types = {t1, t2}
    Reuse = FALSE
    MaxText = 5
SPECIFICATION Spec
INVARIANTS TypeOK GroupsOwned Chained ModifiedExact
PROPERTIES HistoryKept
SYMMETRY UndoSymmetry
CHECK_DEADLOCK FALSE
