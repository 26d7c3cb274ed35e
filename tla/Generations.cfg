SPECIFICATION Spec
CONSTANTS
    q1 = q1
    q2 = q2
    Sqls <- MCSqls
    Residencies = {"auto"}
    MaxGens = 3
    MaxSource = 2
    MaxBoots = 1
SYMMETRY SqlTexts
INVARIANT TypeOK
INVARIANT NewestIsWhole
INVARIANT LiveOnDisk
INVARIANT LiveMatchesConfig
PROPERTY NeverOlder
CHECK_DEADLOCK FALSE
