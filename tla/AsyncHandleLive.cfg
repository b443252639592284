CONSTANTS
    Handles = {h1}
    Ops = {o1, o2}
    MaxPages = 1
    MaxDepth = 2
    NULL = NULL
SPECIFICATION FairSpec
PROPERTIES
    NeverReopened
    EveryOperationEnds
    ImplementsContract
CHECK_DEADLOCK FALSE
