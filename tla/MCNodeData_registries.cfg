CONSTANTS
    Nodes <- MCTwoRegistries
    EntriesOf <- MCEntriesOf
    MaxEdits = 3
SPECIFICATION Spec
INVARIANT EveryRegistryConfigured
CHECK_DEADLOCK FALSE
