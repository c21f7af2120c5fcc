CONSTANTS
    p1 = p1
    p2 = p2
    r1 = r1
    r2 = r2
    Whole = Whole
    SkipDone = SkipDone
    Pages <- MCPages
    Parts = {p1, p2}
    Processed = {}
    StageChoices <- AnyStages
    RerunQueues = {}
    Requests = {}
    Operations = {}
    Faults = {"fail", "enqueue", "abort", "down", "unread"}
    Capacity <- OneSlot
    MaxJobs = 6
    MaxMessages = 1
    MaxWorkers = 1
    MaxBumps = 1
SPECIFICATION FairSpec
INVARIANTS SkippedNeverQueued
PROPERTIES EveryStageEnds
CHECK_DEADLOCK FALSE
