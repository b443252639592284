CONSTANTS
    Threads = {t1, t2}
    Handles = {h1}
    Methods = {m1, m2}
    Implemented = {"open", "get_file_info", "close"}
    MaxDepth = 2
    MaxRefs = 3
    NULL = NULL
SPECIFICATION Spec
SYMMETRY Symmetry
INVARIANTS
    TypeOK
    OnlyHolderRuns
    GilGivenBack
    HandleObjectAlive
CHECK_DEADLOCK FALSE
