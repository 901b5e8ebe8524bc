CONSTANTS
    Projects = {a, b}
    Paths = {x, y}
    Texts = {s, t}
    None = None
    Blank = Blank
    Message = Message
    GroupIds = {g1, g2}
    MaxCalls = 2
    Faulty = TRUE
SPECIFICATION Spec
SYMMETRY Interchangeable
INVARIANT UnmarkedIsTheFiles
