CONSTANTS
    Conns = {c1}
    Ids = {i1}
    Senders = {s1}
    None = None
    QueueSize = 2
    MaxSends = 3
SPECIFICATION FairSpec
CHECK_DEADLOCK FALSE
PROPERTY EndsWhenAsked
PROPERTY EndsWhenLeft
