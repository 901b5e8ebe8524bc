CONSTANTS
    Repos = {p, q}
    Works = {v, w}
    Switches = {s1, s2}
    Commands = {c1}
    None = None
    MaxIndex = 2
SPECIFICATION Spec
SYMMETRY Interchangeable
INVARIANT NoEntryTwice
