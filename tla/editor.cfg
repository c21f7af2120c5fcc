CONSTANTS
    Whole = Whole
    SkipDone = SkipDone
    NumPages = 2
    Scopes = {1, Whole, SkipDone}
    Gestures = {"delete", "undo"}
    HistoryLimit = 2
    Faults = {"run", "load", "message"}
    MaxEdits = 2
    MaxRuns = 1
    MaxRows = 4
SPECIFICATION FairSpec
INVARIANTS NothingDropped
PROPERTIES RunIsShown
CHECK_DEADLOCK FALSE
