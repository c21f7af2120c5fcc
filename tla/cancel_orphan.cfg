CONSTANTS
    p1 = p1
    p2 = p2
    r1 = r1
    r2 = r2
    Whole = Whole
    SkipDone = SkipDone
    Pages <- MCPages
    Parts = {p1}
    Processed = {p1}
    StageChoices <- AllStages
    RerunQueues = {"Costing"}
    Requests = {r1}
    Operations = {"rerun", "cancel"}
    Faults = {"crash"}
    Capacity <- OneSlot
    MaxJobs = 1
    MaxMessages = 1
    MaxWorkers = 2
    MaxBumps = 1
SPECIFICATION Spec
INVARIANTS CancelledWhileWaiting
CHECK_DEADLOCK FALSE
