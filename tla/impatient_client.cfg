SPECIFICATION SafetySpec
CONSTANTS
    IfName = {"eth0"}
    Mac = {"m0"}
    MacOf <- MCOneMacOf
    Subnet4 = {"v4a"}
    Subnet6 = {"v6a"}
    MaxIndex = 1
    RxCapacity = 1
    Client = {c1}
    NoClient = {c1}
    IterationPeriod = 2
    SendingPeriod = 3
    ActivityPeriod = 3
    SocketFailures = {}
    Faults = {}
    CliWait = 1
    Interrupts = {}
    InitialLink <- MCOneLink
    Events = {}
    Addresses <- MCAddresses
    Host = {}
    HostLink <- MCHostLink
    Announcement <- MCAnnouncement
    HostTargets <- MCHostTargets
    Stalling = {}
    SilenceCap = 1
INVARIANT
    OnlyExternalExit
