CONSTANTS
    Threads = {t1, t2}
    Handles = {h1}
    Methods = {m1, m2}
    Implemented = {"unlink"}
    MaxDepth = 2
    MaxRefs = 3
    NULL = NULL
SPECIFICATION FairSpec
PROPERTY
    EveryCallAnswered
CHECK_DEADLOCK FALSE
