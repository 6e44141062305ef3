SPECIFICATION Spec
CONSTANTS
    GroupBits = 2
    Bits32 = 5
    Bits64 = 7
    WordBytes = 2
    Inputs <- MCInputs
    Steps = {0, 1, 2, 3}
    MaxSize = 3
INVARIANTS
    InsideReadsBack
    DecodeU32Exact
    VarIntRoundTrip
