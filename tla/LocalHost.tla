----------------------------- MODULE LocalHost -----------------------------
(***************************************************************************)
(* What the daemon and the CLI program share on one machine: the kernel's  *)
(* interface table, the daemon's descriptors with the memberships and the  *)
(* datagrams queued on them, and the AF_UNIX connections.  None of it is   *)
(* in the repository except NetInterfaceManager, which reads the interface *)
(* table; the rest is modelled from the calls the repository makes.        *)
(*                                                                         *)
(* An IP address is represented by the subnet it belongs to: isSameSubnet  *)
(* is an equivalence, and the program only asks whether a local and a      *)
(* received address are equivalent.                                        *)
(***************************************************************************)
EXTENDS Naturals, Sequences, Functions

CONSTANTS
    IfName,       \* names of the interfaces this machine can have
    Mac,          \* hardware addresses, of this machine and of its neighbours
    MacOf,        \* the hardware address of each of IfName
    Subnet4,      \* IPv4 subnets
    Subnet6,      \* IPv6 prefixes
    MaxIndex,     \* bound: interface indices the kernel hands out
    RxCapacity,   \* bound: datagrams a receiver socket queues
    Client,       \* runs of the CLI program
    NoClient,     \* no accepted connection
    Faults        \* "getifaddrs": it may fail; "kill": the OS may end the daemon

Family == {"IPv6", "IPv4"}
IfIndex == 0 .. MaxIndex
Ip == Subnet4 \cup Subnet6

(* Network::NetInterfaces::NetInterface, its ipv4s and ipv6s in one set.   *)
NetInterface == [name : IfName, mac : Mac, ips : SUBSET Ip]

(* A datagram: one that deserializes to these interfaces, one of which     *)
(* deserialize reports an error, or one with a length that it trusts and   *)
(* no vector or string can have, so that it throws (Serialization).        *)
Message == [result : {"ok", "error", "exception"}, nifs : SUBSET NetInterface]

(* The daemon's sockets: a sender and a receiver per family, and the       *)
(* AF_UNIX server.                                                         *)
Sender(f) == <<"sender", f>>
Receiver(f) == <<"receiver", f>>
Server == <<"server", "Unix">>
Socket == {Sender(f) : f \in Family} \cup {Receiver(f) : f \in Family} \cup {Server}

ASSUME LocalHostAssumption ==
    /\ MacOf \in [IfName -> Mac]
    /\ Subnet4 \cap Subnet6 = {}
    /\ MaxIndex \in Nat /\ RxCapacity \in Nat
    /\ NoClient \notin Client

VARIABLES
    link,          \* the interface table; index 0: no such interface
    lastIndex,     \* the last interface index handed out
    sockets,       \* the daemon's open sockets
    memberships,   \* interfaces on which each receiver joined the group
    rx,            \* datagrams waiting in each receiver
    backlog,       \* connections waiting to be accepted
    clientSocket,  \* the connection the daemon accepted and still holds
    peerOpen,      \* clients whose end of the connection is open
    unread,        \* clients whose request no one has read
    answers        \* what each client was sent

kernelVars == <<link, lastIndex, sockets, memberships, rx>>
connectionVars == <<backlog, clientSocket, peerOpen, unread, answers>>

-----------------------------------------------------------------------------
(* The interface table.                                                    *)

Link == [index : IfIndex, up : BOOLEAN, ips : SUBSET Ip]

Up == {n \in IfName : link[n].index # 0 /\ link[n].up}
UpIndex == {link[n].index : n \in Up}

(* if_nametoindex: 0 when there is no such interface.                      *)
IfNameToIndex(name) == link[name].index

(* getInterfaces: every interface but loopback that is up.                 *)
GetInterfaces == {[name |-> n, mac |-> MacOf[n], ips |-> link[n].ips] : n \in Up}

(* The interface of the route to the IPv4 group, none when there is no     *)
(* route: the routing table is taken to prefer the oldest interface with   *)
(* an IPv4 address.                                                        *)
DefaultRoute ==
    LET routed == {link[n].index : n \in {m \in Up : link[m].ips \cap Subnet4 # {}}}
    IN  {i \in routed : \A j \in routed : i <= j}

(* A datagram to ff02::100 leaves on an interface that is up and has an    *)
(* IPv6 address; on any other sendto fails.                                *)
Usable6 == {link[n].index : n \in {m \in Up : link[m].ips \cap Subnet6 # {}}}

-----------------------------------------------------------------------------
(* Datagrams.                                                              *)

(* recvfrom finds the copies of a datagram later, those that the queue has *)
(* room for.                                                               *)
Enqueue(queue, message, copies) ==
    LET room == RxCapacity - Len(queue)
    IN  queue \o [i \in 1 .. (IF copies < room THEN copies ELSE room) |-> message]

(* A datagram that arrives on interface i is queued if the group is joined *)
(* there.                                                                  *)
Arrives(f, i) == i \in memberships[f] \cap UpIndex

-----------------------------------------------------------------------------
(* The AF_UNIX connections.                                                *)

Listening == Server \in sockets
Connected(c) == c \in Range(backlog) \/ c = clientSocket

TypeOKLocalHost ==
    /\ link \in [IfName -> Link]
    /\ lastIndex \in IfIndex
    /\ sockets \in SUBSET Socket
    /\ memberships \in [Family -> SUBSET IfIndex]
    /\ rx \in [Family -> Seq(Message)]
    /\ backlog \in Seq(Client)
    /\ clientSocket \in Client \cup {NoClient}
    /\ peerOpen \in SUBSET Client
    /\ unread \in SUBSET Client
    /\ answers \in [Client -> Seq(SUBSET NetInterface)]
=============================================================================
