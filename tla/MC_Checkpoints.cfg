CONSTANTS
    Turns = {t1, t2}
    Replaces = {}
    Undos = {u1}
    User = User
    Paths = {1}
    IgnoreFile = 1
    Hidden = {}
    Contents = {a}
    Hiding = a
    Absent = Absent
    MaxCheckpoints = 1
    AgentEdits = 1
    UserEdits = 1
    LastSecond = 0
    Faulty = TRUE
SPECIFICATION Spec
CHECK_DEADLOCK FALSE
SYMMETRY Interchangeable
INVARIANT TypeOK
INVARIANT AgentEditsUndoable
INVARIANT RestoreMissesOnlyTheMisread
