CONSTANTS
    Nil = Nil
    Missing = Missing
    ServedVersion = "v1"
    Scenarios <- MCTemplate
SPECIFICATION Spec
PROPERTY HubDataPreserved
CHECK_DEADLOCK FALSE
