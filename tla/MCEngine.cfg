CONSTANTS
    c1 = c1
    c2 = c2
    c3 = c3
    c4 = c4
    c5 = c5
    AccountId = {0, 1, 2, 3}
    TransferId = {0, 1, 2, 3}
    NoTransfer = NoTransfer
    Scale = {2, 3}
    ServerScale = 2
    Word = 2
    MaxAmount = 3
    MaxTimestamp = 8
    DebugAssertions = FALSE
    Client = {c1, c2, c3, c4, c5}
    Traffic <- MCTraffic
    QueueCapacity = 2
    max_batch_size = 2
    MaxPayload = 2
    Clock = {1}
    MaxCrashes = 1
CHECK_DEADLOCK FALSE
SPECIFICATION FairSpec
PROPERTY QueuedIsAnswered
INVARIANTS TypeOK AckedIsDurable AlwaysRecovers MemoryIsReplay WholeCommandsOnce ShownIsDurable
