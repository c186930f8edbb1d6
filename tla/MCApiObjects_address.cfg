CONSTANTS
    Nil = Nil
    Missing = Missing
    ServedVersion = "v1"
    Scenarios <- MCAddress
SPECIFICATION Spec
INVARIANT JoinAddressSupplied
CHECK_DEADLOCK FALSE
