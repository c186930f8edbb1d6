CONSTANTS
    Nil = Nil
    Missing = Missing
    ServedVersion = "v1"
    Scenarios <- MCUpgrade
SPECIFICATION Spec
INVARIANT InitializedKept
CHECK_DEADLOCK FALSE
