CONSTANTS
    Ops = {o1}
    Kinds = {"chat", "draw"}
    Streams = {out}
    MaxChunks = 1
    SilenceWindow = 1
    MaxRepairRounds = 1
SPECIFICATION FairSpec
INVARIANT TypeOK
INVARIANT StartsWithinBudget
INVARIANT ReplyIsWhole
PROPERTY ImplementsContract
PROPERTY StopIsReported
PROPERTY EveryRunEnds
