CONSTANTS
    N = 1
    Initial = 0
    Bounds <- DeletedRCP
SPECIFICATION Spec
INVARIANT NoOrphan
CHECK_DEADLOCK FALSE
