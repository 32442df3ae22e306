\* The constants of MCAdmissionWindows.cfg.
SPECIFICATION Spec
CONSTANTS
    batch1 = batch1
    batch2 = batch2
    single = single
    urgent = urgent
    Jobs = {batch1, batch2, single, urgent}
    Groups = {1, 2}
    Priority <- MCPriority
    Group <- MCGroup
    MaximumActive = 2
    Expiring = {batch2, single}
    Throwing = {single}
    Refusing = {batch1}
    None = None
INVARIANT DequeueFindsJob
\* The process ends once every thread has been joined.
CHECK_DEADLOCK FALSE
