SPECIFICATION MCSpec
CHECK_DEADLOCK FALSE
CONSTANTS
    Scenes = {"payload"}
    MaxUnits = 2
    Limits = {2}
    MaxBytes = 4
    MaxChars = 3
    BitLengths = {1, 3, 4}
    LongBits = 8
    SafeBits = 6
    MaxQuarters = 1600
    MaxKey = 2
    MaxProperties = 2
    MaxResults = 3
INVARIANT
    PayloadWithinLimit
