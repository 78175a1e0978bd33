SPECIFICATION FairSpec
CHECK_DEADLOCK FALSE
CONSTANTS
    HostCallers = {}
    TextCallers = {t1, t2}
    BinaryCallers = {b1}
    MaxDown = 2
    MaxUp = 0
INVARIANTS
    DownInFlight
PROPERTIES
    DownAreOrderedLinks
    DownReachesJs
