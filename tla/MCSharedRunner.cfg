\* Safety and refinement: two groups share a priority, a third call has its own.
SPECIFICATION Spec
CONSTANTS
    w1 = w1
    w2 = w2
    a = a
    b = b
    c = c
    Workers = {w1, w2}
    Invocations = {a, b, c}
    Items <- MCItems
    Priority <- MCPriority
    Group <- MCGroup
    ChunkSize = 2
    Expiring = {a}
    Refusing = {c}
    Throwing = {a}
    MayStop = FALSE
    None = None
SYMMETRY Symmetry
INVARIANTS
    LanesMatchWorkers
    NoWorkAfterReturn
    EveryValueOnce
    QueuesHoldWork
    NoWorkForgotten
    NoLostWakeup
\* The pool is idle once every call has returned.
CHECK_DEADLOCK FALSE
