SPECIFICATION Spec
CONSTANTS
    Lower <- MCLower
    UrlSafe <- MCUrlSafe
    Prefix <- MCPrefix
    Word = 200000000
    MaxPageSize = 4
    Null <- MCNull
    Spelling <- MCSpelling
INVARIANT QueryAnswers
 
INVARIANT FormatsSound
INVARIANT StartupSound
INVARIANT SourcesSound
CHECK_DEADLOCK FALSE
