CONSTANTS
    N = 3
    Initial = 2
    Bounds <- OneUserDelete
SPECIFICATION Spec
INVARIANT NoDeadMemberAtAll
CHECK_DEADLOCK FALSE
