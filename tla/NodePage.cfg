SPECIFICATION Spec
CONSTANTS
    Area = 80
    Keys <- MCKeys
    Refs = {5, 6}
    Levels = {0, 1}
    Configs <- MCConfigs
    Assignments <- MCAssignments
INVARIANTS
    LeafValidates
    SearchesExact
    LossIsSeen
PROPERTY
    FailedCallsKeepEntries
