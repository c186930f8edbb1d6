CONSTANTS
    N = 2
    Replicas = {1}
    MaxSurge = 1
    Marked = {}
    SameNames = FALSE
    Scenarios <- First
SPECIFICATION Spec
INVARIANTS InitializeOnce
