SPECIFICATION FairSpec
CONSTANTS
    a = a
    b = b
    c = c
    Names <- MCNames
    Dag <- FanIn
    Scheduled <- MCScheduled
    MaxReloads = 1
    MaxTicks = 1
INVARIANT TypeOK
INVARIANT IndInv
INVARIANT TriggerCovered
PROPERTY EventuallyFresh
PROPERTY ShutdownCompletes
CHECK_DEADLOCK FALSE
