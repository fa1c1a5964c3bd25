SPECIFICATION SafetySpec
CONSTANTS
    IfName = {"eth0"}
    Mac = {"m0"}
    MacOf <- MCOneMacOf
    Subnet4 = {"v4a"}
    Subnet6 = {"v6a"}
    MaxIndex = 1
    RxCapacity = 1
    Client = {}
    NoClient = {}
    IterationPeriod = 2
    SendingPeriod = 3
    ActivityPeriod = 3
    SocketFailures = {}
    Faults = {}
    CliWait = 5
    Interrupts = {"connected"}
    InitialLink <- MCIPv4Link
    Events = {}
    Addresses <- MCAddresses
    Host = {}
    HostLink <- MCHostLink
    Announcement <- MCAnnouncement
    HostTargets <- MCHostTargets
    Stalling = {}
    SilenceCap = 1
PROPERTY
    AnnouncesOnIPv4
