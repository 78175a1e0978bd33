SPECIFICATION MCSpec
CHECK_DEADLOCK FALSE
CONSTANTS
    Characters <- CharacterSet
    Depths <- DepthSet
    Formats <- FormatSet
    Scenes = {"inspect", "console", "timers"}
    Objects = {1, 2, 3}
    Kinds = {"object", "class", "throwing"}
    Limit = 1
    MaxRefs = 2
    Labels = {"a"}
    MaxArguments = 2
    MaxCalls = 2
    MaxCount = 2
    MaxIndent = 1
    Contexts = {0, 1, 2}
    MaxTimers = 3
INVARIANTS
    InspectionIsExact
PROPERTIES
    CallsAreAtomic
    TimersKeepContexts
