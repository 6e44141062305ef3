SPECIFICATION Spec
CONSTANTS
    MaxKey = 7
    Pages = {1, 2, 3, 4, 5, 6, 7, 8}
    LeafCapacity = 2
    InternalCapacity = 2
    MaxSize = 8
    MaxFaults = 0
INVARIANT InsertedIsFound
