SPECIFICATION SafetySpec
CONSTANTS
    IfName = {"eth0"}
    Mac = {"m0"}
    MacOf <- MCOneMacOf
    Subnet4 = {"v4a"}
    Subnet6 = {"v6a"}
    MaxIndex = 2
    RxCapacity = 1
    Client = {c1, c2}
    NoClient = NoClient
    IterationPeriod = 1
    SendingPeriod = 1
    ActivityPeriod = 0
    SocketFailures <- MCFailingSockets
    Faults = {"kill", "getifaddrs"}
    CliWait = 1
    Interrupts = {"connected", "waiting"}
    InitialLink <- MCOneLink
    Events = {"unplug", "outage"}
    Addresses <- MCSameAddresses
    Host = {"bad"}
    HostLink <- MCHostLink
    Announcement <- MCAnnouncement
    HostTargets <- MCHostTargets
    Stalling = {c1, c2}
    SilenceCap = 1
SYMMETRY ClientSymmetry
INVARIANTS
    TypeOK
    OneAnswerPerRequest
PROPERTIES
    ReadRequestsAreAnswered
    ServiceImplemented
