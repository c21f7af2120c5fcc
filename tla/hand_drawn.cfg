CONSTANTS
    Whole = Whole
    SkipDone = SkipDone
    NumPages = 1
    Scopes <- EveryScope
    Gestures = {"draw"}
    HistoryLimit = 2
    Faults = {}
    MaxEdits = 1
    MaxRuns = 1
    MaxRows = 4
SPECIFICATION Spec
PROPERTIES HandDrawnKept
CHECK_DEADLOCK FALSE
