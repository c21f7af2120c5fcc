CONSTANTS
    Whole = Whole
    SkipDone = SkipDone
    NumPages = 1
    Scopes = {}
    Gestures = {"draw", "retype", "delete", "clear", "mask", "area", "undo"}
    HistoryLimit = 2
    Faults = {"save"}
    MaxEdits = 4
    MaxRuns = 0
    MaxRows = 5
SPECIFICATION Spec
INVARIANTS TypeOK HistoryBounded
PROPERTIES SaveReconciles
CHECK_DEADLOCK FALSE
