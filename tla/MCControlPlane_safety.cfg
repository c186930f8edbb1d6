CONSTANTS
    N = 6
    Replicas = {1, 3, 5}
    MaxSurge = 1
    Marked = {2}
    SameNames = FALSE
    Scenarios <- Safety
SPECIFICATION Spec
INVARIANTS TypeOK RemediationPaced OneDisruption
