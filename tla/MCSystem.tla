------------------------------ MODULE MCSystem ------------------------------
(***************************************************************************)
(* The instances of NeighborDiscoverySystem that TLC checks.  One tick is  *)
(* ten seconds: the periods of Config.hpp are 2 (iteration), 3 (sending),  *)
(* 3 (activity) and 1 (CLI wait).                                          *)
(***************************************************************************)
EXTENDS ServiceRefinement, TLC

(* Local interfaces eth0 and eth1, a neighbor's interface per host.        *)
MCMacOf == "eth0" :> "m0" @@ "eth1" :> "m1"
MCOneMacOf == "eth0" :> "m0"

Present(index, ips) == [index |-> index, up |-> TRUE, ips |-> ips]
Absent == [index |-> 0, up |-> FALSE, ips |-> {}]

(* Interfaces that are up, both with addresses of both families or not.    *)
MCTwoLinks == {"eth0" :> Present(1, {"v4a", "v6a"}) @@ "eth1" :> Present(2, {"v6a"})}
MCOneLink == {"eth0" :> Present(1, {"v4a", "v6a"})}
MCTwoIPv4Links ==
    {"eth0" :> Present(1, {"v4a", "v6a"}) @@ "eth1" :> Present(2, {"v4b", "v6a"})}
MCIPv6Link == {"eth0" :> Present(1, {"v6a"})}
MCIPv4Link == {"eth0" :> Present(1, {"v4a"})}

MCAddresses == {{"v6a"}, {"v4a", "v6a"}}

(* A host on eth0 announces one interface, with an address in a local      *)
(* subnet and one in a subnet this machine is not in, twice; "noise" sends *)
(* what does not deserialize, "bad" what no deserialization survives.      *)
Neighbor == [name |-> "eth0", mac |-> "n1", ips |-> {"v6a", "v6b"}]
MCHostLink == [h \in Host |-> "eth0"]
MCAnnouncement ==
    [h \in Host |->
        [result |-> IF h = "noise" THEN "error" ELSE IF h = "bad" THEN "exception" ELSE "ok",
         nifs |-> IF h \in {"noise", "bad"} THEN {} ELSE {Neighbor}]]
MCHostTargets == [h \in Host |-> IF h = "h1" THEN 2 ELSE 1]

MCFailingSockets == {Receiver("IPv6"), Receiver("IPv4"), Server}
MCSameAddresses == {{"v4a", "v6a"}}

ClientSymmetry == Permutations(Client)
=============================================================================
