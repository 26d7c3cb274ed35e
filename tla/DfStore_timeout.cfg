SPECIFICATION Spec
CONSTANTS
    a = a
    b = b
    m = m
    c1 = c1
    c2 = c2
    Names <- OneName
    Tasks <- MCTasks
    Main <- MCMain
    Scenarios <- Reloads
    MaxCalls = 2
INVARIANT KeepLastGood
CHECK_DEADLOCK FALSE
