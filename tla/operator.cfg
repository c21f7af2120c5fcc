CONSTANTS
    p1 = p1
    p2 = p2
    r1 = r1
    r2 = r2
    Whole = Whole
    SkipDone = SkipDone
    Pages <- MCPages
    Parts = {p1}
    Processed = {p1}
    StageChoices <- AllStages
    RerunQueues = {"NewCostingParts", "Costing", "Ballooning"}
    Requests = {r1}
    Operations = {"rerun", "prioritise"}
    Faults = {"redeliver", "down"}
    Capacity <- OneSlot
    MaxJobs = 3
    MaxMessages = 1
    MaxWorkers = 1
    MaxBumps = 1
SPECIFICATION Spec
INVARIANTS RowAgreesWithMessage ClearedPagesComeBack LinesCountedOnce
CHECK_DEADLOCK FALSE
