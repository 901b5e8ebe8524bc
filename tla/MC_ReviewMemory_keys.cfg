CONSTANTS
    Reviews = {r1, r2}
    Keys = {a, b}
    Anywhere = {b}
    Stripped <- OneCategory
    Levels = {1}
    Faulty = FALSE
    NoRun = NoRun
    AtOnce = 1
    LastMarked = 1
    MaxFindings = 2
    MaxThreads = 1
    LastId = 2
    Commits = {c1, c2}
    Unknown = Unknown
SPECIFICATION Spec
INVARIANT EveryItemFindsItsRow
