CONSTANTS
    Reviews = {r1, r2}
    Keys = {a, b}
    Anywhere = {b}
    Stripped <- OneCategory
    Levels = {1}
    Faulty = TRUE
    NoRun = NoRun
    AtOnce = 2
    LastMarked = 1
    MaxFindings = 2
    MaxThreads = 1
    LastId = 2
    Commits = {c1, c2}
    Unknown = Unknown
SPECIFICATION Spec
SYMMETRY Interchangeable
INVARIANT TypeOK
INVARIANT OneThreadOneRow
INVARIANT AddressesTheLiving
PROPERTY SilenceIsNoFix
PROPERTY AnsweredIsLeftAlone
PROPERTY IdsKeepTheirFinding
