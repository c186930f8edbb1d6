CONSTANTS
    N = 3
    Initial = 2
    Bounds <- OneNodeDelete
SPECIFICATION FairSpec
PROPERTY DeletionCompletesWithoutNode
CHECK_DEADLOCK FALSE
