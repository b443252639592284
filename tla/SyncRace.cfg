CONSTANTS
    Threads = {t1, t2}
    Objects = {o1, o2}
    Directories = {o2}
    Files = {f1, f2, f3}
    MaxDepth = 2
    NULL = NULL
SPECIFICATION Spec
SYMMETRY Symmetry
INVARIANTS
    NoIOOnClosedHandle
CHECK_DEADLOCK FALSE
