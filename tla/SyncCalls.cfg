CONSTANTS
    Threads = {t1, t2}
    URIs = {u1}
    Lists = {l1, l2}
    LibCodes = {"OK", "NOT_FOUND", "BAD_PARAMETERS", "NO_HANDLER"}
    MaxOps = 3
    Attrs = {"name", "uid", "gid", "atime", "permissions", "access"}
    Numbers = {2, 5, 16}
    Strings = {s1}
    Narrow = 4
    Wide = 16
    AccessBits = {"r"}
    ModeBits = {"suid"}
    NULL = NULL
SPECIFICATION Spec
SYMMETRY Symmetry
INVARIANTS
    TypeOK
    LentAlive
    ErrorsSurvive
    ListsFreed
    PythonOnlyWithGil
    ReadsBack
    ValidMeansGiven
CHECK_DEADLOCK FALSE
