CONSTANTS
    MaxCalls = 1
    Paths = {p}
    None = None
    BufferSize = 2
    Window = 1
    MaxChanges = 1
    MaxNoise = 2
SPECIFICATION FairSpec
CHECK_DEADLOCK FALSE
PROPERTY EveryChangeIsAnnounced
