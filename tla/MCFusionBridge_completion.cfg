SPECIFICATION Spec
CHECK_DEADLOCK FALSE
CONSTANTS
    HostCallers = {h1}
    TextCallers = {}
    BinaryCallers = {}
    MaxDown = 0
    MaxUp = 1
INVARIANT
    CompletionDeliversAll
