SPECIFICATION MCSpec
CHECK_DEADLOCK FALSE
CONSTANTS
    Scenes = {"payload", "text", "idl"}
    MaxUnits = 3
    Limits = {0, 1, 3, 4, 6}
    MaxBytes = 5
    MaxChars = 3
    BitLengths = {1, 3, 4}
    LongBits = 8
    SafeBits = 6
    MaxQuarters = 1600
    MaxKey = 2
    MaxProperties = 2
    MaxResults = 3
INVARIANTS
    PayloadIntact
    ChunksDecodeAsWhole
    EncodeIntoFits
    IntegersConvert
    ObjectsConvert
