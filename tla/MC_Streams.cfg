CONSTANTS
    Conns = {c1, c2}
    Ids = {i1}
    Senders = {s1}
    None = None
    QueueSize = 1
    MaxSends = 2
SPECIFICATION Spec
CHECK_DEADLOCK FALSE
SYMMETRY Interchangeable
INVARIANT RegistryHoldsTheLiving
INVARIANT GoodbyeFirst
INVARIANT GoodbyeIsNoFailure
