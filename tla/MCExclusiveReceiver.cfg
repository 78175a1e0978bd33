SPECIFICATION FairSpec
CONSTANTS
    Callers = {c1, c2, c3}
    Messages = {text}
    MaxSends = 2
INVARIANTS
    TypeOK
    MutualExclusion
    NoOrphanWaiter
    Conservation
    ClosedMeansDrained
PROPERTIES
    CloseWakesAll
    MessagesReachCallers
