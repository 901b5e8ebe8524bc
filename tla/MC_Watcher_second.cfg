CONSTANTS
    MaxCalls = 2
    Paths = {p}
    None = None
    BufferSize = 1
    Window = 1
    MaxChanges = 1
    MaxNoise = 1
SPECIFICATION Spec
CHECK_DEADLOCK FALSE
INVARIANT OneWatcherAPath
