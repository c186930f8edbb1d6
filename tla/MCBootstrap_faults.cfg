CONSTANTS
    CPMachines = {m1, m2}
    Workers = {w1}
    None = None
    MaxDeletes = 1
    MaxFaults = 2
SPECIFICATION FairSpec
INVARIANTS TypeOK InitExclusive TokenAgreement
PROPERTIES DataStable AllBootstrapped ImplementsContract
