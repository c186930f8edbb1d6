CONSTANTS
    N = 3
    Initial = 2
    Bounds <- MCBounds
SPECIFICATION FairSpec
INVARIANTS SerialRelease NoDeadMember
PROPERTY DeletionCompletes
CHECK_DEADLOCK FALSE
