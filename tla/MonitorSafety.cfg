CONSTANTS
    Monitors = {m1, m2, m3, m4, m5, m6}
    Half = 2
    MaxWatched = 3
    MaxDepth = 2
    NULL = NULL
SPECIFICATION Spec
SYMMETRY Symmetry
INVARIANTS
    TypeOK
    TableExact
    StaleIdsRefused
    RecordOutlivesEvents
CHECK_DEADLOCK FALSE
