CONSTANTS
    None = None
    Scenarios <- DeletionScenarios
SPECIFICATION Spec
PROPERTY NodeTrustsStored
