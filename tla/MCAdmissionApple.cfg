\* One conversion at a time, four of two requests in two priorities, and five
\* job numbers, so that they wrap around.
SPECIFICATION FairSpec
CONSTANTS
    batch1 = batch1
    batch2 = batch2
    single = single
    urgent = urgent
    Jobs = {batch1, batch2, single, urgent}
    Groups = {1, 2}
    Priority <- MCPriority
    Group <- MCGroup
    MaximumActive = 1
    Timed = {batch2, single}
    Refusing = {batch1}
    IdLimit = 5
INVARIANTS
    RotationMatchesJobs
    CapacityUsed
PROPERTIES
    ImplementsAdmission
    SubmittedIsAnswered
    ExpiredLeavesQueue
\* Everything has been answered.
CHECK_DEADLOCK FALSE
