CONSTANTS
    Pages = {0, 1, 2}
    Categories = {0, 1}
    Starts = {"through", "pages"}
    HandEdits = {"sub", "filter", "clear", "category"}
    EditsDuringScript = FALSE
    Recognised = 3
    MaxBalloons = 3
    MaxNumber = 4
    MaxSub = 2
SPECIFICATION Spec
INVARIANTS TypeOK
PROPERTIES NumbersDistinct FamiliesWhole StaysNumbered FamiliesStay
CHECK_DEADLOCK FALSE
