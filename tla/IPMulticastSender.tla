------------------------- MODULE IPMulticastSender -------------------------
(***************************************************************************)
(* Network::Sockets::IPMulticastSender<T>                                  *)
(* (include/Network/Sockets/IPMulticastSender.hpp).  The daemon gives      *)
(* every target the same group and port, so a target is its ifindex and    *)
(* the targets vector is the bag of them, a count per interface index that *)
(* saturates at Many (one, or more than one).                              *)
(*                                                                         *)
(* The order of the vector is left out: the targets pushed by one          *)
(* iteration come in the hash order of getInterfaces' unordered_map.  Send *)
(* therefore ranges over every order.                                      *)
(***************************************************************************)
EXTENDS Naturals, FiniteSets

Many == 2

NoTargets(index) == [i \in index |-> 0]

(* push_back without looking for the target first.                         *)
AddMulticastAddress(targets, i) ==
    [targets EXCEPT ![i] = IF @ < Many THEN @ + 1 ELSE Many]

(* remove_if and erase: every target with this index.  When there is none  *)
(* the call fails and nothing changes.                                     *)
RemoveMulticastAddress(targets, i) == [targets EXCEPT ![i] = 0]

Targeted(targets) == {i \in DOMAIN targets : targets[i] > 0}

(* send walks the vector and returns at the first target that fails.  The  *)
(* result is the set of possible sets of interfaces the datagram left on:  *)
(* all of them when every target works, else what came before the failure. *)
(* A target of index 0 keeps the interface set for the previous target and *)
(* adds none.                                                              *)
SendIPv6(targets, usable) ==
    IF Targeted(targets) \ {0} \subseteq usable
    THEN {Targeted(targets) \ {0}}
    ELSE SUBSET (Targeted(targets) \cap usable)

(* The IPv4 sender sets IP_MULTICAST_IF to INADDR_ANY for every target:    *)
(* each copy leaves on the interface the routing table picks, and fails    *)
(* when it picks none (defaultRoute = {}).                                 *)
SendIPv4(targets, defaultRoute) ==
    IF Targeted(targets) = {} THEN {{}} ELSE {defaultRoute}

(* How many datagrams a receiver that joined may get of one send, when     *)
(* there is room for so many: at least this many, and one per target that  *)
(* may have left where it joined, or any number when one of those is there *)
(* more than once.                                                         *)
Copies(targets, on, least, room) ==
    {n \in 0 .. room :
        /\ n >= least \/ n = room
        /\ n <= Cardinality(Targeted(targets) \cap on) \/ \E i \in on : targets[i] = Many}

(* Over IPv6 it gets what left on its interfaces, and what was sent to a   *)
(* target of index 0 if that followed one of them.                         *)
CopiesIPv6(targets, joined, room) ==
    Copies(targets, joined \cup {0}, Cardinality(joined), room)

(* Over IPv4 it gets all, since they leave on the same interface.          *)
CopiesIPv4(targets, room) ==
    Copies(targets, DOMAIN targets, Cardinality(Targeted(targets)), room)
=============================================================================
