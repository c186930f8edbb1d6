CONSTANTS
    N = 4
    Replicas = {3}
    MaxSurge = 1
    Marked = {}
    SameNames = FALSE
    Scenarios <- Alarm
SPECIFICATION Spec
PROPERTIES RemediationPreservesQuorum
