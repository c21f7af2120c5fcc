CONSTANTS
    Parts = {1}
    Active = {1}
    Outcomes <- OneOutcome
    PollLimit = 1
SPECIFICATION FairSpec
PROPERTY QueuedIsPolled
CHECK_DEADLOCK FALSE
