\* The pool may be destroyed: every call of Run returns, and the destructor ends.
SPECIFICATION FairSpec
CONSTANTS
    w1 = w1
    w2 = w2
    a = a
    b = b
    c = c
    Workers = {w1, w2}
    Invocations = {a, b}
    Items <- MCLiveItems
    Priority <- MCLivePriority
    Group <- MCLiveGroup
    ChunkSize = 1
    Expiring = {a}
    Refusing = {}
    Throwing = {a}
    MayStop = TRUE
    None = None
PROPERTIES
    ImplementsParallelFor
    RunReturns
    StopEnds
    ExpiredRunReturnsUnaided
\* The pool stops once every worker has been joined.
CHECK_DEADLOCK FALSE
