CONSTANTS
    Nil = Nil
    Missing = Missing
    ServedVersion = "v1"
    Scenarios <- MCScenarios
SPECIFICATION FairSpec
INVARIANTS PatchesAccepted
PROPERTIES EditKeepsTheRest ScalingRulesKept StatusRecovers
CHECK_DEADLOCK FALSE
