SPECIFICATION Spec
CONSTANTS
    a = a
    t1 = t1
    t2 = t2
    Names <- MCNames
    Tasks <- MCTasks
    Config <- MCConfig
    PoolSize = 2
    MaxChanges = 2
    MaxReads = 1
SYMMETRY Callers
INVARIANT TypeOK
INVARIANT PoolAccounted
INVARIANT EngineInStep
INVARIANT ViewOnDisk
INVARIANT QueryFindsRelation
PROPERTY ImplementsLive
CHECK_DEADLOCK FALSE
