CONSTANTS
    Ops = {o1}
    Kinds = {"read"}
    Streams = {out}
    MaxChunks = 1
    SilenceWindow = 1
    MaxRepairRounds = 0
SPECIFICATION Spec
INVARIANT NeverEditsTwice
