------------------------ MODULE IPMulticastReceiver ------------------------
(***************************************************************************)
(* Network::Sockets::IPMulticastReceiver<T>                                *)
(* (include/Network/Sockets/IPMulticastReceiver.hpp).  The receiver keeps  *)
(* no state but its descriptor; the memberships of the one group the       *)
(* daemon uses are kept by the kernel, here as the set of interface        *)
(* indices joined.  Each operator is the set of memberships a call may     *)
(* leave; a failing setsockopt leaves them as they were.                   *)
(***************************************************************************)
EXTENDS Naturals

(* IPV6_ADD_MEMBERSHIP names the interface; with index 0 the kernel picks  *)
(* one of the interfaces that are up, or fails.                            *)
EnableIPv6(memberships, i, up) ==
    IF i # 0 THEN {memberships \cup {i}}
             ELSE {memberships} \cup {memberships \cup {u} : u \in up}

(* IPV6_DROP_MEMBERSHIP with index 0 matches the membership of any         *)
(* interface and drops one.                                                *)
DisableIPv6(memberships, i) ==
    IF i # 0 \/ memberships = {} THEN {memberships \ {i}}
                                 ELSE {memberships \ {m} : m \in memberships}

(* imr_interface is INADDR_ANY whatever ifindex the caller passed: the     *)
(* membership is that of the interface the routing table picks now.        *)
EnableIPv4(memberships, defaultRoute) == {memberships \cup defaultRoute}

DisableIPv4(memberships, defaultRoute) == {memberships \ defaultRoute}
=============================================================================
