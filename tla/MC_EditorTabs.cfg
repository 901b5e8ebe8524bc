CONSTANTS
    Projects = {a, b}
    Paths = {x, y}
    Texts = {s, t}
    None = None
    Blank = Blank
    Message = Message
    GroupIds = {g1, g2}
    MaxCalls = 1
    Faulty = FALSE
SPECIFICATION Spec
SYMMETRY Interchangeable
INVARIANT StripIsSound
INVARIANT NothingIsKeptUnseen
PROPERTY NoTabLosesItsFile
PROPERTY DropsWhereAimed
