CONSTANTS
    CPMachines = {m1, m2, m3}
    Workers = {}
    None = None
    MaxDeletes = 0
    MaxFaults = 0
SPECIFICATION Spec
SYMMETRY Symmetry
INVARIANT OnlyInitializer
