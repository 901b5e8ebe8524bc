CONSTANTS
    Repos = {a, b, p}
    Plain = {p}
    None = None
    Tasks = {t1, t2}
    Slices = {"status", "branches"}
    Commands = {"checkout", "fetch", "stage"}
    Faulty = TRUE
    MaxSeq = 2
SPECIFICATION Spec
SYMMETRY Interchangeable
INVARIANT ScreenIsOfOneRepo
INVARIANT NothingFromBeforeTheCheckout
INVARIANT OnlyOverlapsShowHalf
INVARIANT FlagsHaveOwners
INVARIANT BlankIsBeingFilled
