\* Two workers, two outer calls that each make an inner one.
SPECIFICATION NestedSpec
CONSTANTS
    w1 = w1
    w2 = w2
    a = a
    b = b
    c = c
    d = d
    Workers = {w1, w2}
    Invocations = {a, b, c, d}
    Items <- NestedItems
    Priority <- NestedPriority
    Group <- NestedGroup
    Outer <- NestedOuter
    ChunkSize = 1
    Expiring = {}
    Refusing = {}
    Throwing = {}
    MayStop = FALSE
    None = None
PROPERTIES
    Reentrant
\* Both workers end up waiting for an inner call.
CHECK_DEADLOCK FALSE
