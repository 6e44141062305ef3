SPECIFICATION Spec
CONSTANTS
    FirstDataPageId = 1
    MaxPageId = 4
    InvalidPageId = 15
    CounterModulus = 6
    MaxExtentLength = 2
    MaxGrants = 2
    MaxReserved = 1
VIEW WithoutStatistics
INVARIANTS
    NoPageLeaks
    PageHoldersExact
    
PROPERTY
    GrantsComeFromMap
