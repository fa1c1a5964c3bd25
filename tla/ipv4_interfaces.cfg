SPECIFICATION SafetySpec
CONSTANTS
    IfName = {"eth0", "eth1"}
    Mac = {"m0", "m1"}
    MacOf <- MCMacOf
    Subnet4 = {"v4a", "v4b"}
    Subnet6 = {"v6a"}
    MaxIndex = 2
    RxCapacity = 1
    Client = {}
    NoClient = {}
    IterationPeriod = 2
    SendingPeriod = 3
    ActivityPeriod = 3
    SocketFailures = {}
    Faults = {}
    CliWait = 5
    Interrupts = {"connected"}
    InitialLink <- MCTwoIPv4Links
    Events = {}
    Addresses <- MCAddresses
    Host = {}
    HostLink <- MCHostLink
    Announcement <- MCAnnouncement
    HostTargets <- MCHostTargets
    Stalling = {}
    SilenceCap = 1
PROPERTY
    AnnouncesIPv4OverEveryInterface
