CONSTANTS
    w1 = w1
    w2 = w2
    A = A
    B = B
    X = X
    None = None
    Windows = {w1, w2}
    Machines = {}
    Candidates = {}
    Materials = {A, B, X}
    Priced = {A, B}
    Processes = 1
    Operations = {"material", "clear", "manual"}
    Overlaps = FALSE
    Lost = TRUE
    MaxWork = 1
    MaxStock = 3
    MaxReads = 1
SPECIFICATION FairSpec
INVARIANT PricedWhenApplied
PROPERTIES ManualLinesKept SavesEnd
CHECK_DEADLOCK FALSE
