CONSTANTS
    Turns = {t1, t2}
    Replaces = {r1}
    Undos = {}
    User = User
    Paths = {1}
    IgnoreFile = 1
    Hidden = {}
    Contents = {a, b}
    Hiding = a
    Absent = Absent
    MaxCheckpoints = 1
    AgentEdits = 0
    UserEdits = 0
    LastSecond = 1
    Faulty = FALSE
SPECIFICATION Spec
CHECK_DEADLOCK FALSE
SYMMETRY Interchangeable
INVARIANT PruneKeepsTheNewest
PROPERTY AtMostMaxCheckpoints
