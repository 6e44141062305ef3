SPECIFICATION Spec
CONSTANTS
    Keys = {k1, k2}
    BufferRecords = 3
    MaxFaults = 2
SYMMETRY KeySymmetry
INVARIANTS
    PromisesKept
    
    
PROPERTY
    ImplementsStore
