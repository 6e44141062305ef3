SPECIFICATION MapSpec
CONSTANTS
    FirstDataPageId = 2
    MaxPageId = 8
    InvalidPageId = 15
INVARIANTS
    NeverLosesPages
    SearchesSound
