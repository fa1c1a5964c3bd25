SPECIFICATION Spec
CONSTANTS
    IfName = {"eth0"}
    Mac = {"m0", "n1"}
    MacOf <- MCOneMacOf
    Subnet4 = {"v4a"}
    Subnet6 = {"v6a", "v6b"}
    MaxIndex = 1
    RxCapacity = 1
    Client = {c1}
    NoClient = NoClient
    IterationPeriod = 2
    SendingPeriod = 3
    ActivityPeriod = 3
    SocketFailures = {}
    Faults = {"kill"}
    CliWait = 3
    Interrupts = {}
    InitialLink <- MCIPv6Link
    Events = {"depart"}
    Addresses <- MCAddresses
    Host = {"h1", "noise"}
    HostLink <- MCHostLink
    Announcement <- MCAnnouncement
    HostTargets <- MCHostTargets
    Stalling = {}
    SilenceCap = 1
PROPERTIES
    IterationsRepeat
    RequestsEnd
    DepartedHostsForgotten
