SPECIFICATION Spec
CONSTANTS
    Lower <- MCLower
    UrlSafe <- MCUrlSafe
    Word = 1000
    Slots = {"s1", "s2"}
    Scenarios <- MCScenarios
INVARIANT TypeOK
INVARIANT AuthorisedAnswers
INVARIANT HiddenStaysHidden
INVARIANT ExportFresh
PROPERTY KeysCatchUp
PROPERTY Answered
CHECK_DEADLOCK FALSE
