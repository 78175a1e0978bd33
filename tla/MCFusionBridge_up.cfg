SPECIFICATION FairSpec
CHECK_DEADLOCK FALSE
CONSTANTS
    HostCallers = {h1, h2}
    TextCallers = {}
    BinaryCallers = {}
    MaxDown = 0
    MaxUp = 2
INVARIANTS
    NoOrphanChild
    UpInFlight
    UpKeepsPrefix
PROPERTIES
    UpIsOrderedLink
    HostEndIsExclusiveReceiver
    ReceiveReturnsAfterExit
    ConnectReturns
    ShutdownCompletes
    DropStopsChild
    HeapLimitEndsChild
    SentIsForwarded
