CONSTANTS
    None = None
    Missing = Missing
    Ids = {1, 2, 3, 4}
    Specs <- MCSpecs
    Scenarios <- FilesScenarios
    PlanStateSupport = TRUE
    Turtles = TRUE
SPECIFICATION Spec
PROPERTY Converges
