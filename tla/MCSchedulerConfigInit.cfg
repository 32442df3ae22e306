\* A conversion that meets a lack of memory.
SPECIFICATION Spec
CONSTANTS
    defaults = defaults
    spelled = spelled
    small = small
    huge = huge
    poolOnly = poolOnly
    plain = plain
    direct = direct
    Processors = 6
    Clients = {defaults, spelled, small, huge, poolOnly}
    Request <- MCRequest
    Native = {poolOnly}
    Conversions = {plain, direct}
    Direct = {direct}
    Starved = {plain}
    Cancelled = {}
    Values = 2
INVARIANTS
    InitOnce
CHECK_DEADLOCK FALSE
