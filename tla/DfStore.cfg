SPECIFICATION Spec
CONSTANTS
    a = a
    b = b
    m = m
    c1 = c1
    c2 = c2
    Names <- OneName
    Tasks <- MCTasks
    Main <- MCMain
    Scenarios <- MCScenarios
    MaxCalls = 4
SYMMETRY Workers
INVARIANT TypeOK
INVARIANT PublishedIsLoaded
INVARIANT BuildingIsOwned
INVARIANT EngineAgrees
INVARIANT LoadedIsServed
INVARIANT FirstRegistrationWins
INVARIANT IndInv
PROPERTY ImplementsLive
CHECK_DEADLOCK FALSE
