CONSTANTS
    Handles = {h1, h2}
    Ops = {o1, o2, o3}
    MaxPages = 2
    MaxDepth = 2
    NULL = NULL
SPECIFICATION Spec
SYMMETRY Symmetry
INVARIANTS
    TypeOK
    RefsExact
    NoUseAfterFree
    FdTracksHandle
    BufferOutlivesIO
    OnlyCancelLeaks
CHECK_DEADLOCK FALSE
