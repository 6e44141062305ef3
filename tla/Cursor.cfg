SPECIFICATION CursorSpec
CONSTANTS
    MaxKey = 5
    Pages = {1, 2, 3, 4, 5, 6}
    LeafCapacity = 2
    InternalCapacity = 2
    MaxSize = 5
    MaxFaults = 0
INVARIANTS
    ScansAreComplete
    FreshCursorOnEntry

    
