SPECIFICATION Spec
CONSTANTS
    Tasks = {t1}
    Names <- MCNames
    Lower <- MCLower
    UrlSafe <- MCNames
    Main <- MCMain
    CreateDefs <- MCCreateConst
    ApiDefs <- MCApiDefs
    MaxCalls = 1
    MaxCrashes = 0
INVARIANT RestartAccepted
CHECK_DEADLOCK FALSE
