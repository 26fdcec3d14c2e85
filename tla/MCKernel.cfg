CONSTANTS
    N = 3
    Setups <- AllSetups
    MaxPoints = 2
SPECIFICATION Spec
INVARIANTS
    DrawnIsOfTheSupport
    CouplingsAreFresh
    ResultIsWhole
    SumIsOfThisPoint
PROPERTIES
    SolutionsAreAllFound
    SolutionsAreCountedOnce
CHECK_DEADLOCK FALSE
