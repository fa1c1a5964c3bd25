SPECIFICATION SafetySpec
CONSTANTS
    IfName = {"eth0"}
    Mac = {"m0", "n1"}
    MacOf <- MCOneMacOf
    Subnet4 = {"v4a"}
    Subnet6 = {"v6a", "v6b"}
    MaxIndex = 1
    RxCapacity = 2
    Client = {c1, c2}
    NoClient = NoClient
    IterationPeriod = 2
    SendingPeriod = 3
    ActivityPeriod = 3
    SocketFailures = {}
    Faults = {}
    CliWait = 5
    Interrupts = {"connected"}
    InitialLink <- MCOneLink
    Events = {}
    Addresses <- MCAddresses
    Host = {"h1"}
    HostLink <- MCHostLink
    Announcement <- MCAnnouncement
    HostTargets <- MCHostTargets
    Stalling = {}
    SilenceCap = 11
SYMMETRY ClientSymmetry
INVARIANTS
    AnswersMatchLocalSubnets
    SilentHostsForgotten
    HeardHostsKept
    OnlyExternalExit
    NoClientTimesOut
PROPERTIES
    ReadRequestsAreAnswered
