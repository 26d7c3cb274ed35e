SPECIFICATION Spec
CONSTANTS
    Tasks = {t1, t2}
    Names <- MCNames
    Lower <- MCLower
    UrlSafe <- MCNames
    Main <- MCMain
    CreateDefs <- MCCreateDefs
    ApiDefs <- MCApiDefs
    MaxCalls = 3
    MaxCrashes = 1
INVARIANT TypeOK
INVARIANT AckedOnDisk
INVARIANT DependencyPresent
PROPERTY ConfiguredStays
PROPERTY TtlExpires
CHECK_DEADLOCK FALSE
