CONSTANTS
    Shards = {s1, s2}
    NoShard = NoShard
    MaxWritten = 2
    MaxMoves = 1
    MaxDamages = 2
    MaxReads = 1
    MaxBroken = 3
    a1 = a1
    a2 = a2
    b1 = b1
    sa = sa
    sb = sb
    NoItem = NoItem
    Items <- MCItems
    Sessions <- MCSessions
    SessionOf <- MCSessionOf
    MaxConcurrency = 1
SPECIFICATION QueuesSpec
INVARIANTS
    QueuesTypeOK
    AnswersAreTrue
    CallersAnswered
    CloseQuiescent
PROPERTIES
    EveryMessageRead
    ImplementsExecutor
    CallsReturn
CHECK_DEADLOCK FALSE
