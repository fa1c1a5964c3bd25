----------------------------- MODULE MCNetwork -----------------------------
(***************************************************************************)
(* The instances of NeighborNetwork that TLC checks: machines "a" and "b"  *)
(* on one link, addresses of four bytes of two bits, ticks of ten seconds. *)
(***************************************************************************)
EXTENDS NeighborNetwork, TLC

Mask(length) == [i \in Bit |-> IF i <= length THEN 1 ELSE 0]
Ip(address, length) == [address |-> address, netmask |-> Mask(length)]

(* Two prefixes of four bits, and hosts in them.                           *)
P1 == <<0, 1, 1, 0, 0, 0, 0, 1>>
P2 == <<0, 1, 1, 0, 0, 0, 1, 0>>
Q2 == <<1, 0, 1, 0, 0, 0, 1, 0>>
P3 == <<0, 1, 1, 0, 1, 0, 0, 1>>

Both(mac, address) ==
    [mac |-> mac, ipv4s |-> {Ip(address, 4)}, ipv6s |-> {Ip(address, 4)}]
OnlyIPv6(mac, address, length) ==
    [mac |-> mac, ipv4s |-> {}, ipv6s |-> {Ip(address, length)}]

(* Machine b has an interface in a's prefix and a VLAN on it, with the     *)
(* same MAC, in another; getInterfaces lists them in either order.  The    *)
(* VLAN is a link of its own, so that a machine is on this one with one    *)
(* interface (Shared = 1), and b's two targets make two datagrams of each  *)
(* announcement, over IPv4 both on this link.                              *)
MCConfigured ==
    "a" :> {<<Both("ma", P1)>>}
    @@ "b" :> {<<Both("mb", P2), OnlyIPv6("mb", Q2, 4)>>,
               <<OnlyIPv6("mb", Q2, 4), Both("mb", P2)>>}

(* Prefixes of five bits, as /65 is to bytes of eight: P1 and P3 differ in *)
(* the fifth.                                                              *)
MCLongPrefixes ==
    "a" :> {<<OnlyIPv6("ma", P1, 5)>>} @@ "b" :> {<<OnlyIPv6("mb", P3, 5)>>}
=============================================================================
