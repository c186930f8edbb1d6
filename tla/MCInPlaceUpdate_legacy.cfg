CONSTANTS
    None = None
    Missing = Missing
    Ids = {1, 2, 3, 4}
    Specs <- MCSpecs
    Scenarios <- LegacyScenarios
    PlanStateSupport = FALSE
    Turtles = TRUE
SPECIFICATION Spec
PROPERTY Converges
