SPECIFICATION Spec
CONSTANTS
    MaxKey = 7
    Pages = {1, 2, 3, 4, 5, 6, 7}
    LeafCapacity = 2
    InternalCapacity = 2
    MaxSize = 7
    MaxFaults = 1
VIEW ShapeView
INVARIANTS
    TreeShape
    SearchOrder
    SizeCoversEntries
    
PROPERTIES
    SuccessLeaksNothing
    InsertKeepsOthers
