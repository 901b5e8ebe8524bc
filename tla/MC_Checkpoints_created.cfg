CONSTANTS
    Turns = {t1}
    Replaces = {}
    Undos = {u1}
    User = User
    Paths = {1, 2}
    IgnoreFile = 1
    Hidden = {2}
    Contents = {a}
    Hiding = a
    Absent = Absent
    MaxCheckpoints = 1
    AgentEdits = 1
    UserEdits = 0
    LastSecond = 0
    Faulty = FALSE
SPECIFICATION Spec
CHECK_DEADLOCK FALSE
PROPERTY RemovesOnlyWhatWasCreated
