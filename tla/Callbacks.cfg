CONSTANTS
    Records = {r1, r2}
    Objects = {o1, o2}
    Callables = {o1}
    MaxDepth = 2
    NULL = NULL
SPECIFICATION FairSpec
INVARIANTS
    TypeOK
    CalledAlive
    AnswerDelivered
    CallbackRefsExact
PROPERTY CallbacksRun
CHECK_DEADLOCK FALSE
