CONSTANTS
    MaxCalls = 3
    Paths = {p}
    None = None
    BufferSize = 1
    Window = 1
    MaxChanges = 2
    MaxNoise = 1
SPECIFICATION FairSpec
CHECK_DEADLOCK FALSE
INVARIANT StoppedOnce
INVARIANT OnlyARaceLeaks
PROPERTY EveryCallReturns
PROPERTY WhatIsHeardIsAnnounced
