CONSTANTS
    N = 5
    Replicas = {3}
    MaxSurge = 1
    Marked = {}
    SameNames = FALSE
    Scenarios <- Deletion
SPECIFICATION FairSpec
PROPERTIES Remediated
