CONSTANTS
    Parts = {1, 2}
    Active = {2}
    Outcomes <- OneOutcome
    PollLimit = 1
SPECIFICATION FairSpec
INVARIANT TypeOK
PROPERTY CardsCatchUp
CHECK_DEADLOCK FALSE
