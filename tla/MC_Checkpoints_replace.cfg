CONSTANTS
    Turns = {t1}
    Replaces = {r1}
    Undos = {}
    User = User
    Paths = {1}
    IgnoreFile = 1
    Hidden = {}
    Contents = {a, b}
    Hiding = a
    Absent = Absent
    MaxCheckpoints = 1
    AgentEdits = 1
    UserEdits = 1
    LastSecond = 0
    Faulty = FALSE
SPECIFICATION Spec
CHECK_DEADLOCK FALSE
PROPERTY ReplaceIsUndoable
