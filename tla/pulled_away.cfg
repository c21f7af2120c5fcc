CONSTANTS
    Pages = {0}
    Categories = {0, 1}
    Starts = {"through"}
    HandEdits = {}
    EditsDuringScript = FALSE
    Recognised = 3
    MaxBalloons = 3
    MaxNumber = 5
    MaxSub = 2
SPECIFICATION Spec
PROPERTY NeverPulledAway
CHECK_DEADLOCK FALSE
