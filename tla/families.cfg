CONSTANTS
    Pages = {0, 1, 2}
    Categories = {0}
    Starts = {"through", "pages"}
    HandEdits = {"filter", "clear"}
    EditsDuringScript = FALSE
    Recognised = 4
    MaxBalloons = 4
    MaxNumber = 5
    MaxSub = 3
SPECIFICATION Spec
PROPERTIES FamiliesWhole StaysNumbered FamiliesStay
CHECK_DEADLOCK FALSE
