SPECIFICATION Spec
CONSTANTS
    a = a
    b = b
    c = c
    Names <- MCNames
    Dag <- FanIn
    Scheduled <- MCScheduled
    MaxReloads = 2
    MaxTicks = 0
INVARIANT TriggerSurvivesBuild
CHECK_DEADLOCK FALSE
