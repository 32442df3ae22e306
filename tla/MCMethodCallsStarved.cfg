\* Memory for the error message of a batch may lack.
SPECIFICATION FairSpec
CONSTANTS
    batch = batch
    single = single
    poor = poor
    quick = quick
    BatchSize = 2
    Calls = {batch, quick}
    Size <- MCSize
    Single = {}
    Rejected = {}
    Limit = 2
    Refusing = {}
    Throwing = {}
    Starved = {batch}
    GroupLimit = 3
    None = None
PROPERTIES
    EveryBatchIsAnswered
CHECK_DEADLOCK FALSE
