CONSTANTS
    Reviews = {r1, r2}
    Keys = {a, b}
    Anywhere = {b}
    Stripped <- OneCategory
    Levels = {1, 2}
    Commits = {c1, c2}
    Unknown = Unknown
    Faulty = FALSE
    NoRun = NoRun
    AtOnce = 1
    LastMarked = 1
    MaxFindings = 1
    MaxThreads = 1
    LastId = 2
SPECIFICATION Spec
PROPERTY ResolvesOnlyItsDepth
