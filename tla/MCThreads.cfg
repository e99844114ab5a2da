SPECIFICATION FairSpec
CONSTANTS
    Workers = {}
    Events = {e}
    Functions = {f}
    SystemQueueSize = 1
    ApplicationQueueSize = 1
    PoolBlocks = 1
    MaxNesting = 1
INVARIANTS PromiseOutlivesUse PoolConserved
PROPERTIES CallsReturn JobsEnd ShutdownHappens
CHECK_DEADLOCK FALSE
