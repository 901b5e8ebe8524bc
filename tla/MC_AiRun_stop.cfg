CONSTANTS
    Ops = {o1}
    Kinds = {"chat"}
    Streams = {out}
    MaxChunks = 1
    SilenceWindow = 1
    MaxRepairRounds = 0
SPECIFICATION Spec
PROPERTY FalseMeansFinished
