CONSTANTS
    Xfers = {x1}
    MaxStages = 3
    MaxHandles = 3
SPECIFICATION FairSpec
INVARIANTS
    TypeOK
    DataOutlivesCallbacks
    LinkOnlyInCallback
    XferLeaksOnlyOnCancel
PROPERTY
    XferEnds
CHECK_DEADLOCK FALSE
