\* One worker serves every priority, and three calls of two batches in one of them.
SPECIFICATION ServiceSpec
CONSTANTS
    w1 = w1
    h = h
    n1 = n1
    n2 = n2
    n3 = n3
    l = l
    Workers = {w1}
    Invocations = {h, n1, n2, n3, l}
    Items <- MCItems
    Priority <- MCPriority
    Group <- MCGroup
    ChunkSize = 1
    Expiring = {l}
    Refusing = {}
    Throwing = {}
    MayStop = FALSE
    None = None
CONSTRAINT
    OneAtATime
INVARIANTS
    PriorityBypassBounded
    WeightedShares
    QueueWaitBounded
\* The pool is idle once every call has returned.
CHECK_DEADLOCK FALSE
