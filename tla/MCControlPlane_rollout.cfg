CONSTANTS
    N = 7
    Replicas = {1, 3}
    MaxSurge = 1
    Marked = {}
    SameNames = FALSE
    Scenarios <- Rollout
SPECIFICATION FairSpec
INVARIANTS QuorumKept
PROPERTIES Remediated Converges
