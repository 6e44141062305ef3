SPECIFICATION FileSpec
CONSTANTS
    PageIds <- MCPageIds
    Marks <- MCMarks
    MaxParts = 6
INVARIANTS
    ReadsAreWritten
    ScanIsSound
PROPERTY
    OpenHealsHeader
