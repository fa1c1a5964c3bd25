SPECIFICATION SafetySpec
CONSTANTS
    IfName = {"eth0", "eth1"}
    Mac = {"m0", "m1"}
    MacOf <- MCMacOf
    Subnet4 = {"v4a"}
    Subnet6 = {"v6a"}
    MaxIndex = 2
    RxCapacity = 0
    Client = {}
    NoClient = NoClient
    IterationPeriod = 1
    SendingPeriod = 1
    ActivityPeriod = 1
    SocketFailures = {}
    Faults = {}
    CliWait = 1
    Interrupts = {}
    InitialLink <- MCTwoLinks
    Events = {"unplug"}
    Addresses <- MCAddresses
    Host = {}
    HostLink <- MCHostLink
    Announcement <- MCAnnouncement
    HostTargets <- MCHostTargets
    Stalling = {}
    SilenceCap = 1
PROPERTY
    AnnouncesOverEveryInterface
