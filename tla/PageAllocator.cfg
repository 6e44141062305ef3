SPECIFICATION Spec
CONSTANTS
    ReservedPageCount = 2
    MaxPageId = 5
    InvalidPageId = 15
    CounterModulus = 8
INVARIANTS
    HoldersExact
    CountExact
    ExhaustedOnlyWhenFull
PROPERTY
    ImplementsPagePool
