SPECIFICATION Spec
CONSTANTS
    q1 = q1
    q2 = q2
    Sqls <- MCSqls
    Residencies = {"auto"}
    MaxGens = 3
    MaxSource = 1
    MaxBoots = 0
SYMMETRY SqlTexts
INVARIANT LastGoodQueryable
CHECK_DEADLOCK FALSE
