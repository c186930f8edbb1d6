CONSTANTS
    None = None
    Missing = Missing
    Ids = {1, 2, 3, 4, 5}
    Specs <- MCSpecs
    Scenarios <- MCScenarios
    PlanStateSupport = TRUE
    Turtles = TRUE
SPECIFICATION Spec
INVARIANT NodeRunsWholeSpec
