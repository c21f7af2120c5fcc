CONSTANTS
    w1 = w1
    w2 = w2
    A = A
    B = B
    X = X
    None = None
    Windows = {w1, w2}
    Machines = {}
    Candidates = {}
    Materials = {A, B, X}
    Priced = {A, B}
    Processes = 1
    Operations = {"material"}
    Overlaps = FALSE
    Lost = FALSE
    MaxWork = 2
    MaxStock = 4
    MaxReads = 1
SPECIFICATION Spec
INVARIANT PricedAsChosen
CHECK_DEADLOCK FALSE
