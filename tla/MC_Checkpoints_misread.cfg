CONSTANTS
    Turns = {t1}
    Replaces = {}
    Undos = {u1}
    User = User
    Paths = {1}
    IgnoreFile = 1
    Hidden = {}
    Contents = {a}
    Hiding = a
    Absent = Absent
    MaxCheckpoints = 1
    AgentEdits = 1
    UserEdits = 0
    LastSecond = 0
    Faulty = TRUE
SPECIFICATION Spec
CHECK_DEADLOCK FALSE
INVARIANT RestoreIsExact
