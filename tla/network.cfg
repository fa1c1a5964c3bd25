SPECIFICATION Spec
CONSTANTS
    CHAR_BIT = 2
    Bytes = 4
    Node = {"a", "b"}
    Configured <- MCConfigured
    IterationPeriod = 2
    SendingPeriod = 3
    ActivityPeriod = 8
    Jitter = 1
    MaxLoss = 1
    Shared = 1
    MaxCopies = 2
    RxCapacity = 6
    MaxEvents = 1
INVARIANTS
    TypeOK
    ListedShareAPrefix
    QueuesHaveRoom
    SteadyNeighborsKept
    GhostsForgotten
PROPERTIES
    TablesConverge
