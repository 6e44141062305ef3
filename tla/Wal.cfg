SPECIFICATION Spec
CONSTANTS
    HeaderSize = 4
    PrefixSize = 2
    Alignment = 4
    ByteBase = 16
    LsnSize = 1
    LengthField = 2
    FixedSize = 4
    BodySizes = {4, 6}
    BufferCapacity = 14
    MaxLsn = 3
    MaxFileSize = 20

    
    
    
PROPERTY
    HistoryKept
