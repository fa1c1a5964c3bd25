SPECIFICATION SafetySpec
CONSTANTS
    CHAR_BIT = 2
    Bytes = 4
    Node = {"a", "b"}
    Configured <- MCLongPrefixes
    IterationPeriod = 2
    SendingPeriod = 3
    ActivityPeriod = 3
    Jitter = 0
    MaxLoss = 0
    Shared = 1
    MaxCopies = 1
    RxCapacity = 3
    MaxEvents = 0
INVARIANT
    ListedShareAPrefix
