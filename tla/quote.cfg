CONSTANTS
    w1 = w1
    w2 = w2
    m1 = m1
    m2 = m2
    None = None
    Windows = {w1, w2}
    Machines = {m1, m2}
    Candidates = {m1, m2}
    Materials = {}
    Priced = {}
    Processes = 2
    Operations = {"machine", "force", "rerun"}
    Overlaps = FALSE
    Lost = FALSE
    MaxWork = 4
    MaxStock = 1
    MaxReads = 1
SYMMETRY Interchangeable
SPECIFICATION Spec
INVARIANTS TypeOK SelectionAgrees RecommendationKept
CHECK_DEADLOCK FALSE
