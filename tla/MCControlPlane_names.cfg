CONSTANTS
    N = 6
    Replicas = {3}
    MaxSurge = 1
    Marked = {}
    SameNames = FALSE
    Scenarios <- Overshoot
SPECIFICATION FairSpec
PROPERTIES Converges
