CONSTANTS
    p1 = p1
    p2 = p2
    r1 = r1
    r2 = r2
    Whole = Whole
    SkipDone = SkipDone
    Pages <- MCPages
    Parts = {p1, p2}
    Processed = {p1, p2}
    StageChoices <- AllStages
    RerunQueues = {"Costing"}
    Requests = {r1}
    Operations = {"rerun", "cancel", "release", "prioritise", "requeue", "script"}
    Faults = {"crash", "stale"}
    Capacity <- OneSlot
    MaxJobs = 2
    MaxMessages = 1
    MaxWorkers = 2
    MaxBumps = 1
SPECIFICATION FairSpec
INVARIANTS TypeOK OneActiveJob OneThreadPerRow
PROPERTIES PositionOneRunsNext ClosedStaysClosed ImplementsLifecycle EveryJobCloses
CHECK_DEADLOCK FALSE
