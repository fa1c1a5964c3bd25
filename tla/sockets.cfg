SPECIFICATION Spec
CONSTANTS
    Process = {p1, p2, p3}
    Fd = {3, 4, 5, 6, 7, 8, 9, 10}
    Failing = {"ipv4receiver", "unixDomainServer"}
SYMMETRY ProcessSymmetry
INVARIANTS
    DescriptorsOwned
    StartsLeaveAListener
