\* A batch of two and a single call; submissions of the batch may be refused and its
\* operations may throw; and a batch of one without memory for its error, with
\* two conversions at once.
SPECIFICATION FairSpec
CONSTANTS
    batch = batch
    single = single
    poor = poor
    quick = quick
    BatchSize = 2
    Calls = {batch, single, poor, quick}
    Size <- MCSize
    Single = {single}
    Rejected = {quick}
    Limit = 2
    Refusing = {batch}
    Throwing = {batch}
    Starved = {poor}
    GroupLimit = 5
    None = None
INVARIANTS
    OneReply
    ReplyIsVerdict
    GroupsDistinct
PROPERTIES
    EveryCallIsAnswered
\* Every call has been answered.
CHECK_DEADLOCK FALSE
