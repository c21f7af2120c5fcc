CONSTANTS
    Pages = {0}
    Categories = {0}
    Starts = {"through"}
    HandEdits = {"sub"}
    EditsDuringScript = FALSE
    Recognised = 3
    MaxBalloons = 3
    MaxNumber = 5
    MaxSub = 2
SPECIFICATION Spec
PROPERTY ClearedIsItsOwn
CHECK_DEADLOCK FALSE
