CONSTANTS
    None = None
    Scenarios <- MCScenarios
SPECIFICATION Spec
INVARIANTS KubeconfigFromStored
PROPERTIES StoredAuthorityKept NodeTrustsStored ClusterReachable
