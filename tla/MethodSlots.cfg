CONSTANTS
    Threads = {t1}
    Handles = {h1}
    Methods = {m1}
    Implemented = {"open", "close", "truncate", "get_file_info"}
    MaxDepth = 1
    MaxRefs = 3
    NULL = NULL
SPECIFICATION Spec
INVARIANT
    OwnMethodCalled
CHECK_DEADLOCK FALSE
