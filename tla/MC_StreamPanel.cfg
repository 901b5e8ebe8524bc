CONSTANTS
    Conns = {c1, c2}
    Ids = {c1, c2}
    Senders = {}
    None = None
    QueueSize = 1
    MaxSends = 0
SPECIFICATION PanelSpec
CHECK_DEADLOCK FALSE
PROPERTY FailureClosesOnlyItsOwn
