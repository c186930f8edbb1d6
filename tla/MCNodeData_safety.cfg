CONSTANTS
    Nodes <- MCNodes
    EntriesOf <- MCEntriesOf
    MaxEdits = 3
SPECIFICATION Spec
INVARIANT NamedFilesArrive
PROPERTY DataPublished
CHECK_DEADLOCK FALSE
