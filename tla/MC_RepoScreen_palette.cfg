CONSTANTS
    Repos = {a}
    Plain = {}
    None = None
    Tasks = {t1, t2}
    Slices = {"status", "branches"}
    Commands = {"checkout", "fetch"}
    Faulty = FALSE
    MaxSeq = 2
SPECIFICATION Spec
INVARIANT WatcherShowsNoHalfCheckout
