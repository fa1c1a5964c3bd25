---------------------------- MODULE NetworkProofs ----------------------------
(***************************************************************************)
(* Theorems about NeighborNetwork, for any machines, periods, losses and   *)
(* sizes of addresses.                                                     *)
(***************************************************************************)
EXTENDS NeighborNetwork, SubnetProofs

Tables == UNION {Configured[n] : n \in Node}

(* A set of interfaces or of entries is a map: one for each key.           *)
KeyedByMac(interfaces) == \A r, s \in interfaces : r.mac = s.mac => r = s
KeyedByIndex(entries) == \A e, f \in entries : e.index = f.index => e = f

Entries == TS!Entry(STRING, NetInterfaceType, AgeCap)

-----------------------------------------------------------------------------
(* The operators.                                                          *)

(* getInterfaces makes a list of interfaces of every table.                *)
LEMMA InterfacesType ==
    ASSUME NEW table \in Tables
    PROVE  /\ getInterfaces[table] \in Seq(NetInterfaceType)
           /\ DOMAIN getInterfaces[table] = DOMAIN table
           /\ \A i \in DOMAIN table : getInterfaces[table][i] = NetInterface(table[i])
<1>1. table \in Seq(Link)
  BY NetworkAssumption DEF Tables
<1>2. getInterfaces[table] = [i \in DOMAIN table |-> NetInterface(table[i])]
  BY DEF getInterfaces, Tables
<1>3. ASSUME NEW i \in DOMAIN table
      PROVE  NetInterface(table[i]) \in NetInterfaceType
  <2>1. table[i] \in Link
    BY <1>1
  <2>2. ASSUME NEW ip \in table[i].ipv6s
        PROVE  [address |-> ip.address, prefixLength |-> PrefixLength(ip.netmask)] \in IPv6Info
    <3>1. ip \in [address : Address, netmask : Address]
      BY <2>1 DEF Link
    <3> QED
      BY <3>1, PrefixLengthType DEF IPv6Info
  <2>3. /\ table[i].mac \in STRING /\ table[i].ipv4s \in SUBSET IPv4Info
        /\ {[address |-> ip.address, prefixLength |-> PrefixLength(ip.netmask)] :
               ip \in table[i].ipv6s} \in SUBSET IPv6Info
    BY <2>1, <2>2 DEF Link
  <2> QED
    BY <2>3 DEF NetInterface, NetInterfaceType
<1>4. DOMAIN table = 1 .. Len(table) /\ Len(table) \in Nat
  BY <1>1
<1> QED
  BY <1>2, <1>3, <1>4

(* Of a datagram, the receiver keeps interfaces of it, one for each MAC.   *)
LEMMA LastType ==
    ASSUME NEW list \in Seq(NetInterfaceType)
    PROVE  LastOfEachMac(list) \in SUBSET NetInterfaceType /\ KeyedByMac(LastOfEachMac(list))
<1>1. /\ DOMAIN list = 1 .. Len(list) /\ Len(list) \in Nat
      /\ \A i \in DOMAIN list : list[i] \in NetInterfaceType
  OBVIOUS
<1>2. ASSUME NEW i \in DOMAIN list, NEW j \in DOMAIN list, list[i].mac = list[j].mac,
             \A k \in DOMAIN list : k > i => list[k].mac # list[i].mac,
             \A k \in DOMAIN list : k > j => list[k].mac # list[j].mac
      PROVE  i = j
  BY <1>1, <1>2
<1> QED
  BY <1>1, <1>2 DEF LastOfEachMac, KeyedByMac

(* What is filtered stays an interface with its MAC, and only addresses    *)
(* that isSameSubnet accepted stay in it.                                  *)
LEMMA FilteredType ==
    ASSUME NEW local \in Seq(NetInterfaceType), NEW r \in NetInterfaceType
    PROVE  /\ Filtered(local, r) \in NetInterfaceType
           /\ Filtered(local, r).mac = r.mac
           /\ \A a \in Filtered(local, r).ipv4s :
                 a \in IPv4Info /\ \E i \in DOMAIN local : \E l \in local[i].ipv4s :
                                      IsSameSubnet4(l, a)
           /\ \A a \in Filtered(local, r).ipv6s :
                 a \in IPv6Info /\ \E i \in DOMAIN local : \E l \in local[i].ipv6s :
                                      IsSameSubnet6(l, a)
BY DEF Filtered, NetInterfaceType

LEMMA MatchedType ==
    ASSUME NEW local \in Seq(NetInterfaceType), NEW rs \in SUBSET NetInterfaceType,
           KeyedByMac(rs)
    PROVE  /\ Matched(local, rs) \in SUBSET NetInterfaceType
           /\ KeyedByMac(Matched(local, rs))
<1>1. \A nif \in Matched(local, rs) : \E r \in rs : nif = Filtered(local, r)
  BY DEF Matched
<1>2. Matched(local, rs) \in SUBSET NetInterfaceType
  BY <1>1, FilteredType
<1>3. ASSUME NEW a \in Matched(local, rs), NEW b \in Matched(local, rs), a.mac = b.mac
      PROVE  a = b
  <2>1. PICK r \in rs : a = Filtered(local, r)
    BY <1>1
  <2>2. PICK s \in rs : b = Filtered(local, s)
    BY <1>1
  <2>3. r.mac = s.mac
    BY <1>3, <2>1, <2>2, FilteredType
  <2> QED
    BY <2>1, <2>2, <2>3 DEF KeyedByMac
<1> QED
  BY <1>2, <1>3 DEF KeyedByMac

Pairs(interfaces) == {<<nif.mac, nif>> : nif \in interfaces}

(* The table of neighbors stays a map when it is updated and when entries  *)
(* are dropped from it.                                                    *)
LEMMA TableType ==
    ASSUME NEW S \in SUBSET Entries, KeyedByIndex(S), \A e \in S : e.index = e.data.mac,
           NEW rs \in SUBSET NetInterfaceType, KeyedByMac(rs),
           NEW T, T = TS!RemoveOlder(TS!Update(S, Pairs(rs)), ActivityPeriod)
    PROVE  /\ T \in SUBSET Entries /\ KeyedByIndex(T)
           /\ \A e \in T : e.index = e.data.mac
           /\ \A e \in T : e \in S \/ e.data \in rs
<1> DEFINE new == {[index |-> p[1], data |-> p[2], age |-> 0] : p \in Pairs(rs)}
<1>1. \A e \in new : \E nif \in rs : e = [index |-> nif.mac, data |-> nif, age |-> 0]
  BY DEF Pairs
<1>2. \A nif \in rs : nif \in NetInterfaceType /\ nif.mac \in STRING
  BY DEF NetInterfaceType
<1>3. 0 \in 0 .. AgeCap
  BY NetworkAssumption DEF AgeCap
<1>4. \A e \in new : /\ e \in Entries /\ e.index = e.data.mac /\ e.data \in rs
                     /\ \E p \in Pairs(rs) : p[1] = e.index
  BY <1>1, <1>2, <1>3 DEF Entries, TS!Entry, Pairs
<1>5. T \subseteq {e \in S : \A p \in Pairs(rs) : p[1] # e.index} \cup new
  BY DEF TS!RemoveOlder, TS!Update
<1>6. ASSUME NEW e \in new, NEW f \in new, e.index = f.index
      PROVE  e = f
  BY <1>1, <1>6 DEF KeyedByMac
<1>7. KeyedByIndex(T)
  BY <1>4, <1>5, <1>6 DEF KeyedByIndex
<1> QED
  BY <1>4, <1>5, <1>7

(* A tick changes ages only.                                               *)
LEMMA AgedTable ==
    ASSUME NEW S \in SUBSET Entries, KeyedByIndex(S), \A e \in S : e.index = e.data.mac
    PROVE  /\ TS!Aged(S, AgeCap) \in SUBSET Entries /\ KeyedByIndex(TS!Aged(S, AgeCap))
           /\ \A e \in TS!Aged(S, AgeCap) : e.index = e.data.mac
           /\ \A e \in TS!Aged(S, AgeCap) : \E f \in S : e.data = f.data
<1>1. AgeCap \in Nat
  BY NetworkAssumption DEF AgeCap
<1> DEFINE Older(e) == [e EXCEPT !.age = IF @ < AgeCap THEN @ + 1 ELSE @]
<1>2. ASSUME NEW e \in S
      PROVE  Older(e) \in Entries /\ Older(e).index = e.index /\ Older(e).data = e.data
  BY <1>1 DEF Entries, TS!Entry
<1>3. \A f \in TS!Aged(S, AgeCap) : \E e \in S : f = Older(e)
  BY DEF TS!Aged
<1> HIDE DEF Older
<1>4. ASSUME NEW f \in TS!Aged(S, AgeCap), NEW g \in TS!Aged(S, AgeCap), f.index = g.index
      PROVE  f = g
  <2>1. PICK d \in S : f = Older(d)
    BY <1>3
  <2>2. PICK e \in S : g = Older(e)
    BY <1>3
  <2>3. d.index = e.index
    BY <1>2, <1>4, <2>1, <2>2
  <2> QED
    BY <2>1, <2>2, <2>3 DEF KeyedByIndex
<1>5. ASSUME NEW f \in TS!Aged(S, AgeCap)
      PROVE  f \in Entries /\ f.index = f.data.mac /\ \E e \in S : f.data = e.data
  <2>1. PICK e \in S : f = Older(e)
    BY <1>3
  <2> QED
    BY <1>2, <2>1
<1> QED
  BY <1>4, <1>5 DEF KeyedByIndex

-----------------------------------------------------------------------------
(* The invariant.                                                          *)

LinksOK ==
    links \in [Node -> Tables] /\ \A n \in Node : links[n] \in Configured[n]

(* The time since an iteration started, where its daemon is.               *)
PhaseOK ==
    /\ phase \in [Node -> Phase] /\ elapsed \in [Node -> Nat]
    /\ \A n \in Node :
          /\ phase[n] \in {"off", "announce"} => elapsed[n] = 0
          /\ phase[n] = "receive" => elapsed[n] <= SendingPeriod + Jitter
          /\ elapsed[n] <= SendingPeriod + IterationPeriod + Jitter

QueueOK ==
    /\ queue \in [Node -> Seq(Seq(NetInterfaceType))]
    /\ \A n \in Node : Len(queue[n]) <= RxCapacity

ReceivedOK ==
    /\ received \in [Node -> SUBSET NetInterfaceType]
    /\ \A n \in Node : KeyedByMac(received[n])

MissedOK == missed \in [Node -> [Node -> 0 .. MaxLoss]]

(* The interfaces the daemon works with are those the machine has, as long *)
(* as they cannot change.                                                  *)
Fixed == {n \in Node : Configured[n] = {links[n]}}

NifsOK ==
    /\ nifs \in [Node -> Seq(NetInterfaceType)]
    /\ \A n \in Fixed : phase[n] = "receive" => nifs[n] = Interfaces(n)

NeighborsOK ==
    /\ neighbors \in [Node -> SUBSET Entries]
    /\ \A n \in Node :
          KeyedByIndex(neighbors[n]) /\ \A e \in neighbors[n] : e.index = e.data.mac

NetworkInv ==
    /\ LinksOK /\ PhaseOK /\ QueueOK /\ ReceivedOK /\ MissedOK /\ NifsOK /\ NeighborsOK

LEMMA NetworkInvType == NetworkInv => TypeOK
BY DEF NetworkInv, LinksOK, PhaseOK, QueueOK, ReceivedOK, MissedOK, NeighborsOK, TypeOK,
       Entries, TS!Entry, KeyedByMac, KeyedByIndex

LEMMA NetworkInit == Init => NetworkInv
<1> SUFFICES ASSUME Init PROVE NetworkInv
  OBVIOUS
<1>1. LinksOK
  BY DEF Init, LinksOK, Tables
<1>2. PhaseOK
  BY NetworkAssumption DEF Init, PhaseOK, Phase
<1>3. QueueOK
  BY NetworkAssumption DEF Init, QueueOK
<1>4. ReceivedOK
  BY DEF Init, ReceivedOK, KeyedByMac
<1>5. MissedOK
  BY NetworkAssumption DEF Init, MissedOK
<1>6. NifsOK
  <2>1. <<>> \in Seq(NetInterfaceType)
    OBVIOUS
  <2>2. nifs = [n \in Node |-> <<>>] /\ phase = [n \in Node |-> "off"]
    BY DEF Init
  <2> QED
    BY <2>1, <2>2 DEF NifsOK, Fixed
<1>7. NeighborsOK
  BY DEF Init, NeighborsOK, TS!EmptySet, KeyedByIndex
<1> QED
  BY <1>1, <1>2, <1>3, <1>4, <1>5, <1>6, <1>7 DEF NetworkInv

(* The interfaces of a machine are a list of interfaces.                   *)
LEMMA InterfacesOf ==
    ASSUME LinksOK, NEW n \in Node
    PROVE  /\ Interfaces(n) \in Seq(NetInterfaceType)
           /\ DOMAIN Interfaces(n) = DOMAIN links[n]
           /\ \A i \in DOMAIN links[n] : Interfaces(n)[i] = NetInterface(links[n][i])
BY InterfacesType DEF LinksOK, Interfaces

(* The local variables of an iteration are destroyed at its end.           *)
LEMMA NifsCleared ==
    ASSUME NetworkInv, NEW n \in Node, NEW p, p # "receive",
           nifs' = [nifs EXCEPT ![n] = <<>>], phase' = [phase EXCEPT ![n] = p],
           links' = links
    PROVE  NifsOK'
<1>1. <<>> \in Seq(NetInterfaceType)
  OBVIOUS
<1>2. nifs \in [Node -> Seq(NetInterfaceType)] /\ phase \in [Node -> Phase]
  BY DEF NetworkInv, NifsOK, PhaseOK
<1>3. \A m \in Node : phase'[m] = "receive" => m # n /\ phase[m] = "receive"
  BY <1>2
<1>4. \A m \in Node \ {n} : nifs'[m] = nifs[m]
  BY <1>2
<1>5. Fixed' = Fixed /\ \A m \in Node : Interfaces(m)' = Interfaces(m)
  BY DEF Fixed, Interfaces
<1>6. nifs' \in [Node -> Seq(NetInterfaceType)]
  BY <1>1, <1>2
<1> QED
  BY <1>3, <1>4, <1>5, <1>6 DEF NetworkInv, NifsOK, Fixed

-----------------------------------------------------------------------------
(* The steps of a daemon.                                                  *)

LEMMA BootInv ==
    ASSUME NetworkInv, NEW n \in Node, Boot(n)
    PROVE  NetworkInv'
<1>1. PhaseOK'
  BY NetworkAssumption DEF NetworkInv, PhaseOK, Boot, Phase
<1>2. NifsOK'
  BY DEF NetworkInv, NifsOK, PhaseOK, Boot, Fixed, Interfaces
<1> QED
  BY <1>1, <1>2 DEF NetworkInv, Boot, LinksOK, QueueOK, ReceivedOK, MissedOK, NeighborsOK

(* What is queued stays in its place, and what joins it is copies.         *)
LEMMA EnqueueFacts ==
    ASSUME NEW S, NEW q \in Seq(S), Len(q) <= RxCapacity, NEW d \in S, NEW c \in Nat \ {0}
    PROVE  LET more == Enqueue(q, d, c) IN
           /\ more \in Seq(S) /\ Len(q) <= Len(more)
           /\ Len(more) <= RxCapacity /\ Len(more) <= Len(q) + c
           /\ \A i \in DOMAIN q : i \in DOMAIN more /\ more[i] = q[i]
           /\ \A i \in DOMAIN more \ DOMAIN q : more[i] = d
           /\ Len(q) < RxCapacity => Len(q) + 1 \in DOMAIN more \ DOMAIN q
<1> DEFINE room == RxCapacity - Len(q)
           k == IF c < room THEN c ELSE room
           added == [i \in 1 .. k |-> d]
<1>1. Len(q) \in Nat /\ RxCapacity \in Nat /\ room \in Nat
  BY NetworkAssumption
<1>2. k \in Nat /\ k <= c /\ Len(q) + k <= RxCapacity
      /\ (Len(q) < RxCapacity => k > 0)
  BY <1>1
<1> HIDE DEF k
<1>3. added \in Seq(S) /\ Len(added) = k /\ \A i \in 1 .. k : added[i] = d
  BY <1>2
<1>4. Enqueue(q, d, c) = q \o added
  BY DEF Enqueue, k
<1> HIDE DEF added
<1>5. /\ q \o added \in Seq(S) /\ Len(q \o added) = Len(q) + k
      /\ DOMAIN (q \o added) = 1 .. Len(q) + k /\ DOMAIN q = 1 .. Len(q)
      /\ \A i \in 1 .. Len(q) : (q \o added)[i] = q[i]
      /\ \A i \in Len(q) + 1 .. Len(q) + k : (q \o added)[i] = added[i - Len(q)]
  BY <1>1, <1>2, <1>3
<1>6. \A i \in 1 .. Len(q) + k \ 1 .. Len(q) : (q \o added)[i] = d
  BY <1>1, <1>2, <1>3, <1>5
<1> QED
  BY <1>1, <1>2, <1>4, <1>5, <1>6

(* What an announcement does to the queues.                                *)
LEMMA AnnounceQueues ==
    ASSUME NetworkInv, NEW n \in Node, Announce(n)
    PROVE  \E lost \in SUBSET (Running \ {n}) :
             /\ \A m \in lost : missed[m][n] < MaxLoss
             /\ missed' = [m \in Node |-> [missed[m] EXCEPT ![n] =
                              IF m \in lost THEN @ + 1 ELSE 0]]
             /\ queue' \in [Node -> Seq(Seq(NetInterfaceType))]
             /\ \A m \in Node :
                  /\ queue[m] \in Seq(Seq(NetInterfaceType))
                  /\ Len(queue[m]) <= Len(queue'[m]) /\ Len(queue'[m]) <= RxCapacity
                  /\ Len(queue'[m]) <= Len(queue[m]) + MaxCopies
                  /\ \A i \in DOMAIN queue[m] :
                        i \in DOMAIN queue'[m] /\ queue'[m][i] = queue[m][i]
                  /\ \A i \in DOMAIN queue'[m] \ DOMAIN queue[m] :
                        queue'[m][i] = Interfaces(n)
                  /\ m \notin Running \ lost => queue'[m] = queue[m]
                  /\ m \in Running \ lost /\ Len(queue[m]) < RxCapacity =>
                        Len(queue[m]) + 1 \in DOMAIN queue'[m] \ DOMAIN queue[m]
<1>1. PICK lost \in SUBSET (Running \ {n}) :
        /\ \A m \in lost : missed[m][n] < MaxLoss
        /\ missed' = [m \in Node |-> [missed[m] EXCEPT ![n] =
                         IF m \in lost THEN @ + 1 ELSE 0]]
        /\ \E copies \in [Running \ lost -> Copies(n)] : queue' = Delivered(n, copies)
  BY DEF Announce
<1>2. PICK copies \in [Running \ lost -> Copies(n)] : queue' = Delivered(n, copies)
  BY <1>1
<1>3. DOMAIN copies = Running \ lost
  BY <1>2
<1>4. Interfaces(n) \in Seq(NetInterfaceType)
  BY InterfacesOf DEF NetworkInv
<1>5. ASSUME NEW m \in Running \ lost
      PROVE  copies[m] \in Nat \ {0} /\ copies[m] <= MaxCopies
  <2>1. links[n] \in Configured[n] /\ links[n] \in Seq(Link)
    BY NetworkAssumption DEF NetworkInv, LinksOK
  <2>2. Len(links[n]) * Shared <= MaxCopies /\ Len(links[n]) * Shared \in Nat
        /\ MaxCopies \in Nat
    <3>1. Len(links[n]) \in Nat /\ Shared \in Nat
      BY <2>1, NetworkAssumption
    <3>2. \A i, j \in Nat : i * j \in Nat
      OBVIOUS
    <3>3. Len(links[n]) * Shared \in Nat
      BY <3>1, <3>2
    <3>4. Len(links[n]) * Shared <= MaxCopies /\ MaxCopies \in Nat
      BY <2>1, NetworkAssumption
    <3> QED
      BY <3>3, <3>4
  <2>3. copies[m] \in Copies(n)
    BY <1>2, <1>5
  <2> QED
    BY <2>2, <2>3 DEF Copies
<1>6. ASSUME NEW m \in Node
      PROVE  /\ queue[m] \in Seq(Seq(NetInterfaceType))
             /\ Len(queue[m]) \in Nat /\ Len(queue[m]) <= RxCapacity
             /\ queue'[m] = IF m \in Running \ lost
                            THEN Enqueue(queue[m], Interfaces(n), copies[m]) ELSE queue[m]
  BY <1>2, <1>3 DEF NetworkInv, QueueOK, Delivered
<1>7. ASSUME NEW m \in Node
      PROVE  /\ queue'[m] \in Seq(Seq(NetInterfaceType))
             /\ Len(queue[m]) <= Len(queue'[m]) /\ Len(queue'[m]) <= RxCapacity
             /\ Len(queue'[m]) <= Len(queue[m]) + MaxCopies
             /\ \A i \in DOMAIN queue[m] :
                   i \in DOMAIN queue'[m] /\ queue'[m][i] = queue[m][i]
             /\ \A i \in DOMAIN queue'[m] \ DOMAIN queue[m] : queue'[m][i] = Interfaces(n)
             /\ m \in Running \ lost /\ Len(queue[m]) < RxCapacity =>
                   Len(queue[m]) + 1 \in DOMAIN queue'[m] \ DOMAIN queue[m]
  <2>1. CASE m \in Running \ lost
    <3> DEFINE more == Enqueue(queue[m], Interfaces(n), copies[m])
    <3>1. queue'[m] = more
      BY <1>6, <2>1
    <3>2. /\ more \in Seq(Seq(NetInterfaceType)) /\ Len(queue[m]) <= Len(more)
          /\ Len(more) <= RxCapacity /\ Len(more) <= Len(queue[m]) + copies[m]
          /\ \A i \in DOMAIN queue[m] : i \in DOMAIN more /\ more[i] = queue[m][i]
          /\ \A i \in DOMAIN more \ DOMAIN queue[m] : more[i] = Interfaces(n)
          /\ Len(queue[m]) < RxCapacity =>
                Len(queue[m]) + 1 \in DOMAIN more \ DOMAIN queue[m]
      BY <1>4, <1>5, <1>6, <2>1, EnqueueFacts
    <3> HIDE DEF more
    <3>3. Len(more) \in Nat
      BY <3>2
    <3>4. Len(more) <= Len(queue[m]) + MaxCopies
      BY <1>5, <1>6, <2>1, <3>2, <3>3, NetworkAssumption
    <3> QED
      BY <3>1, <3>2, <3>4
  <2>2. CASE m \notin Running \ lost
    BY <1>6, <2>2, NetworkAssumption
  <2> QED
    BY <2>1, <2>2
<1>8. queue' \in [Node -> Seq(Seq(NetInterfaceType))]
  <2>1. queue' = [m \in Node |-> queue'[m]]
    BY <1>2 DEF Delivered
  <2> QED
    BY <1>7, <2>1
<1> QED
  BY <1>1, <1>6, <1>7, <1>8

LEMMA AnnounceInv ==
    ASSUME NetworkInv, NEW n \in Node, Announce(n)
    PROVE  NetworkInv'
<1>1. Interfaces(n) \in Seq(NetInterfaceType)
  BY InterfacesOf DEF NetworkInv
<1>2. PhaseOK'
  BY NetworkAssumption DEF NetworkInv, PhaseOK, Announce, Phase
<1>3. NifsOK'
  BY <1>1 DEF NetworkInv, NifsOK, PhaseOK, Announce, Fixed, Interfaces
<1>4. PICK lost \in SUBSET (Running \ {n}) :
        /\ \A m \in lost : missed[m][n] < MaxLoss
        /\ missed' = [m \in Node |-> [missed[m] EXCEPT ![n] =
                         IF m \in lost THEN @ + 1 ELSE 0]]
        /\ queue' \in [Node -> Seq(Seq(NetInterfaceType))]
        /\ \A m \in Node : Len(queue'[m]) <= RxCapacity
  BY AnnounceQueues
<1>5. MissedOK'
  BY <1>4, NetworkAssumption DEF NetworkInv, MissedOK
<1>6. QueueOK'
  BY <1>4 DEF QueueOK
<1> QED
  BY <1>2, <1>3, <1>5, <1>6
     DEF NetworkInv, Announce, LinksOK, ReceivedOK, NeighborsOK

LEMMA ReceiveInv ==
    ASSUME NetworkInv, NEW n \in Node, Receive(n)
    PROVE  NetworkInv'
<1> DEFINE last == LastOfEachMac(Head(queue[n]))
<1>1. /\ queue[n] \in Seq(Seq(NetInterfaceType)) /\ queue[n] # <<>>
      /\ Len(queue[n]) <= RxCapacity
  BY DEF NetworkInv, QueueOK, Receive
<1>2. /\ Head(queue[n]) \in Seq(NetInterfaceType)
      /\ Tail(queue[n]) \in Seq(Seq(NetInterfaceType))
      /\ Len(Tail(queue[n])) <= RxCapacity
  BY <1>1, NetworkAssumption
<1>3. last \in SUBSET NetInterfaceType /\ KeyedByMac(last)
  BY <1>2, LastType
<1>4. QueueOK'
  BY <1>2 DEF NetworkInv, QueueOK, Receive
<1>5. ReceivedOK'
  <2>1. received' = [received EXCEPT ![n] =
            {r \in @ : \A nif \in last : nif.mac # r.mac} \cup last]
    BY DEF Receive
  <2>2. received[n] \in SUBSET NetInterfaceType /\ KeyedByMac(received[n])
    BY DEF NetworkInv, ReceivedOK
  <2>3. KeyedByMac({r \in received[n] : \A nif \in last : nif.mac # r.mac} \cup last)
    BY <1>3, <2>2 DEF KeyedByMac
  <2> HIDE DEF last
  <2> QED
    BY <1>3, <2>1, <2>2, <2>3 DEF NetworkInv, ReceivedOK
<1> QED
  BY <1>4, <1>5
     DEF NetworkInv, Receive, LinksOK, PhaseOK, MissedOK, NifsOK, NeighborsOK, Fixed, Interfaces

LEMMA FinishInv ==
    ASSUME NetworkInv, NEW n \in Node, Finish(n)
    PROVE  NetworkInv'
<1> DEFINE matched == Matched(nifs[n], received[n])
<1>1. matched \in SUBSET NetInterfaceType /\ KeyedByMac(matched)
  BY MatchedType DEF NetworkInv, NifsOK, ReceivedOK
<1>2. neighbors' = [neighbors EXCEPT ![n] =
          TS!RemoveOlder(TS!Update(@, Pairs(matched)), ActivityPeriod)]
  BY DEF Finish, Pairs
<1> HIDE DEF matched
<1>3. PhaseOK'
  BY NetworkAssumption DEF NetworkInv, PhaseOK, Finish, Phase
<1>4. ReceivedOK'
  BY DEF NetworkInv, ReceivedOK, Finish, KeyedByMac
<1>5. NifsOK'
  BY NifsCleared DEF Finish
<1>6. NeighborsOK'
  <2>1. /\ neighbors[n] \in SUBSET Entries /\ KeyedByIndex(neighbors[n])
        /\ \A e \in neighbors[n] : e.index = e.data.mac
    BY DEF NetworkInv, NeighborsOK
  <2>2. /\ neighbors'[n] = TS!RemoveOlder(TS!Update(neighbors[n], Pairs(matched)), ActivityPeriod)
        /\ \A m \in Node \ {n} : neighbors'[m] = neighbors[m]
    BY <1>2 DEF NetworkInv, NeighborsOK
  <2>3. /\ neighbors'[n] \in SUBSET Entries /\ KeyedByIndex(neighbors'[n])
        /\ \A e \in neighbors'[n] : e.index = e.data.mac
    BY <1>1, <2>1, <2>2, TableType
  <2> QED
    BY <1>2, <2>2, <2>3 DEF NetworkInv, NeighborsOK
<1> QED
  BY <1>3, <1>4, <1>5, <1>6 DEF NetworkInv, Finish, LinksOK, QueueOK, MissedOK

LEMMA WakeUpInv ==
    ASSUME NetworkInv, NEW n \in Node, WakeUp(n)
    PROVE  NetworkInv'
<1>1. PhaseOK'
  BY NetworkAssumption DEF NetworkInv, PhaseOK, WakeUp, Phase
<1>2. NifsOK'
  BY DEF NetworkInv, NifsOK, PhaseOK, WakeUp, Fixed, Interfaces
<1> QED
  BY <1>1, <1>2 DEF NetworkInv, WakeUp, LinksOK, QueueOK, ReceivedOK, MissedOK, NeighborsOK

-----------------------------------------------------------------------------
(* What happens to the machines, and time.                                 *)

LEMMA CrashInv ==
    ASSUME NetworkInv, NEW n \in Node, Crash(n)
    PROVE  NetworkInv'
<1>1. PhaseOK'
  BY NetworkAssumption DEF NetworkInv, PhaseOK, Crash, Phase
<1>2. NifsOK'
  BY NifsCleared DEF Crash
<1>3. QueueOK' /\ ReceivedOK'
  BY NetworkAssumption DEF NetworkInv, QueueOK, ReceivedOK, Crash, KeyedByMac
<1>4. MissedOK' /\ NeighborsOK'
  BY NetworkAssumption
     DEF NetworkInv, MissedOK, NeighborsOK, Crash, TS!EmptySet, KeyedByIndex
<1> QED
  BY <1>1, <1>2, <1>3, <1>4 DEF NetworkInv, Crash, LinksOK

(* A machine whose interfaces change has others to change to.              *)
LEMMA ReconfigureFixed ==
    ASSUME NetworkInv, NEW n \in Node, Reconfigure(n)
    PROVE  /\ LinksOK' /\ Fixed' = Fixed \ {n} /\ n \notin Fixed
           /\ \A m \in Node \ {n} : links'[m] = links[m]
<1>1. PICK l \in Configured[n] \ {links[n]} : links' = [links EXCEPT ![n] = l]
  BY DEF Reconfigure
<1>2. links \in [Node -> Tables] /\ \A m \in Node : links[m] \in Configured[m]
  BY DEF NetworkInv, LinksOK
<1>3. LinksOK'
  BY <1>1, <1>2 DEF LinksOK, Tables
<1>4. Configured[n] # {links[n]} /\ Configured[n] # {links'[n]}
  BY <1>1, <1>2
<1> QED
  BY <1>1, <1>2, <1>3, <1>4 DEF Fixed

LEMMA ReconfigureInv ==
    ASSUME NetworkInv, NEW n \in Node, Reconfigure(n)
    PROVE  NetworkInv'
<1>1. NifsOK'
  BY ReconfigureFixed DEF NetworkInv, NifsOK, Reconfigure, Fixed, Interfaces
<1> QED
  BY <1>1, ReconfigureFixed
     DEF NetworkInv, Reconfigure, PhaseOK, QueueOK, ReceivedOK, MissedOK, NeighborsOK

LEMMA NetworkTickInv ==
    ASSUME NetworkInv, Tick
    PROVE  NetworkInv'
<1>1. PhaseOK'
  <2>1. ASSUME NEW n \in Node
        PROVE  /\ elapsed'[n] \in Nat
               /\ phase[n] \in {"off", "announce"} => elapsed'[n] = 0
               /\ phase[n] = "receive" => elapsed'[n] <= SendingPeriod + Jitter
               /\ elapsed'[n] <= SendingPeriod + IterationPeriod + Jitter
    <3>1. Waits(n) /\ elapsed'[n] = IF n \in Running THEN elapsed[n] + 1 ELSE 0
      BY DEF Tick
    <3>2. elapsed[n] \in Nat /\ phase[n] \in Phase
      BY DEF NetworkInv, PhaseOK
    <3> QED
      BY <3>1, <3>2, NetworkAssumption DEF Waits, Running, Phase
  <2> QED
    BY <2>1 DEF NetworkInv, PhaseOK, Tick
<1>2. NeighborsOK'
  <2>1. ASSUME NEW n \in Node
        PROVE  /\ neighbors'[n] \in SUBSET Entries /\ KeyedByIndex(neighbors'[n])
               /\ \A e \in neighbors'[n] : e.index = e.data.mac
    <3>1. neighbors'[n] = TS!Aged(neighbors[n], AgeCap)
      BY DEF Tick
    <3> QED
      BY <3>1, AgedTable DEF NetworkInv, NeighborsOK
  <2> QED
    BY <2>1 DEF NeighborsOK, Tick
<1> QED
  BY <1>1, <1>2
     DEF NetworkInv, Tick, LinksOK, QueueOK, ReceivedOK, MissedOK, NifsOK, Fixed, Interfaces

LEMMA NetworkNext == NetworkInv /\ [Next]_vars => NetworkInv'
<1> SUFFICES ASSUME NetworkInv, [Next]_vars PROVE NetworkInv'
  OBVIOUS
<1>1. CASE UNCHANGED vars
  BY <1>1 DEF vars, NetworkInv, LinksOK, PhaseOK, QueueOK, ReceivedOK, MissedOK, NifsOK,
              NeighborsOK, Fixed, Interfaces
<1> QED
  BY <1>1, BootInv, AnnounceInv, ReceiveInv, FinishInv, WakeUpInv, CrashInv,
     ReconfigureInv, NetworkTickInv DEF Next, NodeStep

(* The variables stay in their types, receivedNifs and the table are maps, *)
(* and an iteration lasts no longer than its window, its sleep and the     *)
(* jitter: for any machines, periods, losses and sizes of addresses.       *)
THEOREM NetworkTypeCorrect == SafetySpec => []TypeOK
<1>1. Init => NetworkInv
  BY NetworkInit
<1>2. NetworkInv /\ [Next]_vars => NetworkInv'
  BY NetworkNext
<1>3. NetworkInv => TypeOK
  BY NetworkInvType
<1> QED
  BY <1>1, <1>2, <1>3, PTL DEF SafetySpec

-----------------------------------------------------------------------------
(* What is listed shares a prefix.                                         *)

(* Every machine's IPv6 prefix lengths are ones isSameSubnet does not take *)
(* for shorter ones.                                                       *)
SoundConfigured ==
    \A n \in Node : \A table \in Configured[n] : \A i \in DOMAIN table :
        \A ip \in table[i].ipv6s : Sound(PrefixLength(ip.netmask))

(* The body of ListedShareAPrefix.                                         *)
Shares(n, nif) ==
    /\ nif.ipv4s # {} \/ nif.ipv6s # {}
    /\ \A r \in nif.ipv4s : \E l \in UNION {own.ipv4s : own \in Local(n)} : SameMasked(l, r)
    /\ \A r \in nif.ipv6s : \E l \in UNION {own.ipv6s : own \in Local(n)} : SamePrefix(l, r)

LEMMA ListedIsShares ==
    ListedShareAPrefix <=> \A n \in Fixed : \A e \in neighbors[n] : Shares(n, e.data)
BY DEF ListedShareAPrefix, Fixed, Shares

(* What runIteration takes over from receivedNifs shares a prefix.         *)
LEMMA MatchedShares ==
    ASSUME NetworkInv, SoundConfigured, NEW n \in Fixed, phase[n] = "receive",
           NEW nif \in Matched(nifs[n], received[n])
    PROVE  Shares(n, nif)
<1> DEFINE local == nifs[n]
<1>1. /\ n \in Node /\ local = Interfaces(n) /\ local \in Seq(NetInterfaceType)
      /\ links[n] \in Configured[n] /\ LinksOK
      /\ received[n] \in SUBSET NetInterfaceType
  BY DEF NetworkInv, NifsOK, LinksOK, ReceivedOK, Fixed
<1>2. /\ DOMAIN local = DOMAIN links[n]
      /\ \A i \in DOMAIN local : local[i] \in NetInterfaceType /\ local[i] \in Local(n)
      /\ \A i \in DOMAIN local : local[i] = NetInterface(links[n][i])
  BY <1>1, InterfacesOf DEF Local
<1>3. PICK r \in received[n] : nif = Filtered(local, r)
  BY DEF Matched
<1>4. nif.ipv4s # {} \/ nif.ipv6s # {}
  BY DEF Matched
<1>5. ASSUME NEW a \in nif.ipv4s
      PROVE  \E l \in UNION {own.ipv4s : own \in Local(n)} : SameMasked(l, a)
  <2>1. a \in IPv4Info /\ \E i \in DOMAIN local : \E l \in local[i].ipv4s : IsSameSubnet4(l, a)
    BY <1>1, <1>3, FilteredType
  <2>2. PICK i \in DOMAIN local : \E l \in local[i].ipv4s : IsSameSubnet4(l, a)
    BY <2>1
  <2>3. PICK l \in local[i].ipv4s : IsSameSubnet4(l, a)
    BY <2>2
  <2>4. l \in IPv4Info
    BY <1>2 DEF NetInterfaceType
  <2>5. SameMasked(l, a)
    BY <2>1, <2>3, <2>4, SameSubnet4IsMasked
  <2> QED
    BY <1>2, <2>5
<1>6. ASSUME NEW a \in nif.ipv6s
      PROVE  \E l \in UNION {own.ipv6s : own \in Local(n)} : SamePrefix(l, a)
  <2>1. a \in IPv6Info /\ \E i \in DOMAIN local : \E l \in local[i].ipv6s : IsSameSubnet6(l, a)
    BY <1>1, <1>3, FilteredType
  <2>2. PICK i \in DOMAIN local : \E l \in local[i].ipv6s : IsSameSubnet6(l, a)
    BY <2>1
  <2>3. PICK l \in local[i].ipv6s : IsSameSubnet6(l, a)
    BY <2>2
  <2>4. l \in IPv6Info
    BY <1>2 DEF NetInterfaceType
  <2>5. local[i].ipv6s = {[address |-> ip.address, prefixLength |-> PrefixLength(ip.netmask)] :
                             ip \in links[n][i].ipv6s}
    <3>1. local[i] = NetInterface(links[n][i])
      BY <1>2
    <3> HIDE DEF local
    <3> QED
      BY <3>1 DEF NetInterface
  <2>6. PICK ip \in links[n][i].ipv6s :
           l = [address |-> ip.address, prefixLength |-> PrefixLength(ip.netmask)]
    BY <2>3, <2>5
  <2>7. Sound(l.prefixLength)
    BY <1>1, <1>2, <2>6 DEF SoundConfigured
  <2>8. SamePrefix(l, a)
    BY <2>1, <2>3, <2>4, <2>7, SoundPrefixes
  <2> QED
    BY <1>2, <2>8
<1> QED
  BY <1>4, <1>5, <1>6 DEF Shares

LEMMA ListedNext ==
    ASSUME NetworkInv, SoundConfigured, ListedShareAPrefix, [Next]_vars
    PROVE  ListedShareAPrefix'
<1>1. \A n \in Fixed : \A e \in neighbors[n] : Shares(n, e.data)
  BY ListedIsShares
<1>2. ASSUME Fixed' \subseteq Fixed, \A n \in Fixed' : links'[n] = links[n],
             \A n \in Fixed' : \A f \in neighbors'[n] :
                 Shares(n, f.data) \/ \E e \in neighbors[n] : f.data = e.data
      PROVE  ListedShareAPrefix'
  <2>1. ASSUME NEW n \in Fixed', NEW nif, Shares(n, nif)
        PROVE  Shares(n, nif)'
    BY <1>2, <2>1 DEF Shares, Local, Interfaces
  <2>2. ASSUME NEW n \in Fixed', NEW f \in neighbors'[n]
        PROVE  Shares(n, f.data)
    BY <1>1, <1>2, <2>2
  <2>3. \A n \in Fixed' : \A f \in neighbors'[n] : Shares(n, f.data)'
    BY <2>1, <2>2
  <2> QED
    BY <2>3 DEF ListedShareAPrefix, Fixed, Shares
<1>3. CASE UNCHANGED <<links, neighbors>>
  BY <1>2, <1>3 DEF Fixed
<1>4. ASSUME NEW n \in Node, Finish(n)
      PROVE  ListedShareAPrefix'
  <2> DEFINE matched == Matched(nifs[n], received[n])
  <2>1. matched \in SUBSET NetInterfaceType /\ KeyedByMac(matched)
    BY MatchedType DEF NetworkInv, NifsOK, ReceivedOK
  <2>2. /\ neighbors' = [neighbors EXCEPT ![n] =
                TS!RemoveOlder(TS!Update(@, Pairs(matched)), ActivityPeriod)]
        /\ links' = links /\ phase[n] = "receive"
    BY <1>4 DEF Finish, Pairs
  <2>3. Fixed' = Fixed
    BY <2>2 DEF Fixed
  <2>4. n \in Fixed => \A nif \in matched : Shares(n, nif)
    BY <2>2, MatchedShares
  <2> HIDE DEF matched
  <2>5. /\ neighbors[n] \in SUBSET Entries /\ KeyedByIndex(neighbors[n])
        /\ \A e \in neighbors[n] : e.index = e.data.mac
        /\ neighbors \in [Node -> SUBSET Entries]
    BY DEF NetworkInv, NeighborsOK
  <2>6. /\ neighbors'[n] = TS!RemoveOlder(TS!Update(neighbors[n], Pairs(matched)), ActivityPeriod)
        /\ \A m \in Node \ {n} : neighbors'[m] = neighbors[m]
    BY <2>2, <2>5
  <2>7. \A f \in neighbors'[n] : f \in neighbors[n] \/ f.data \in matched
    BY <2>1, <2>5, <2>6, TableType
  <2> QED
    BY <1>2, <2>2, <2>3, <2>4, <2>6, <2>7 DEF Fixed
<1>5. ASSUME NEW n \in Node, Crash(n)
      PROVE  ListedShareAPrefix'
  <2>1. /\ links' = links /\ neighbors'[n] = {}
        /\ \A m \in Node \ {n} : neighbors'[m] = neighbors[m]
    BY <1>5 DEF Crash, NetworkInv, NeighborsOK, TS!EmptySet
  <2>2. Fixed' = Fixed
    BY <2>1 DEF Fixed
  <2> QED
    BY <1>2, <2>1, <2>2 DEF Fixed
<1>6. ASSUME NEW n \in Node, Reconfigure(n)
      PROVE  ListedShareAPrefix'
  <2>1. neighbors' = neighbors
    BY <1>6 DEF Reconfigure
  <2> QED
    BY <1>2, <1>6, <2>1, ReconfigureFixed DEF Fixed
<1>7. CASE Tick
  <2>1. links' = links /\ Fixed' = Fixed
    BY <1>7 DEF Tick, Fixed
  <2>2. ASSUME NEW n \in Node, NEW f \in neighbors'[n]
        PROVE  \E e \in neighbors[n] : f.data = e.data
    <3>1. neighbors'[n] = TS!Aged(neighbors[n], AgeCap)
      BY <1>7 DEF Tick
    <3> QED
      BY <3>1, AgedTable DEF NetworkInv, NeighborsOK
  <2> QED
    BY <1>2, <2>1, <2>2 DEF Fixed
<1> QED
  BY <1>3, <1>4, <1>5, <1>6, <1>7
     DEF Next, NodeStep, Boot, Announce, Receive, WakeUp, vars

(* A machine that keeps its addresses lists only interfaces that share a   *)
(* prefix with it, if no prefix length is one of those that isSameSubnet   *)
(* takes for shorter ones; the run ipv6_prefix shows that the condition is *)
(* needed.                                                                 *)
THEOREM ListedPrefixes ==
    ASSUME SoundConfigured
    PROVE  SafetySpec => []ListedShareAPrefix
<1>1. Init => NetworkInv /\ ListedShareAPrefix
  <2>1. Init => ListedShareAPrefix
    BY DEF Init, ListedShareAPrefix, TS!EmptySet
  <2> QED
    BY <2>1, NetworkInit
<1>2. NetworkInv /\ ListedShareAPrefix /\ [Next]_vars => (NetworkInv /\ ListedShareAPrefix)'
  BY NetworkNext, ListedNext
<1> QED
  BY <1>1, <1>2, PTL DEF SafetySpec

-----------------------------------------------------------------------------
(* A machine that runs on is kept.                                         *)

(* How long k times t lasts; the proofs use no more of it than these facts.*)
Times(k, t) == k * t

LEMMA TimesNext ==
    ASSUME NEW k \in Nat, NEW t \in Nat
    PROVE  Times(k, t) \in Nat /\ Times(k + 1, t) = Times(k, t) + t /\ Times(0, t) = 0
BY DEF Times

LEMMA TimesBefore ==
    ASSUME NEW k \in Nat, NEW t \in Nat, k # 0
    PROVE  k - 1 \in Nat /\ Times(k - 1, t) \in Nat
BY DEF Times

LEMMA TimesMonotonic ==
    ASSUME NEW j \in Nat, NEW k \in Nat, NEW t \in Nat, j <= k
    PROVE  Times(j, t) <= Times(k, t)
<1>1. PICK d \in Nat : k = j + d
  <2>1. k - j \in Nat /\ k = j + (k - j)
    OBVIOUS
  <2> QED
    BY <2>1
<1>2. k * t = j * t + d * t /\ d * t \in Nat /\ j * t \in Nat
  BY <1>1
<1> QED
  BY <1>2 DEF Times

LEMMA TimesEarlier ==
    ASSUME NEW j \in Nat, NEW k \in Nat, NEW t \in Nat, j <= k, j # 0
    PROVE  Times(j - 1, t) \in Nat /\ Times(j - 1, t) <= Times(k - 1, t)
<1>1. j - 1 \in Nat /\ k - 1 \in Nat /\ j - 1 <= k - 1
  OBVIOUS
<1> QED
  BY <1>1, TimesNext, TimesMonotonic

(* How long what a machine announced may take to reach the table of        *)
(* another: MaxLoss announcements got lost, then one waited in the queue   *)
(* for the end of iterations that took one datagram each.                  *)
Overdue == Times(MaxLoss + 1, Gap)

(* Config.hpp has the first (30 s to 20 s); the others are needed: see     *)
(* SteadyNeighborsKept, and the machines are told apart by their MACs.     *)
Generous ==
    /\ SendingPeriod >= Nap
    /\ ActivityPeriod >= Overdue + Times(IF MaxEvents = 0 THEN 0 ELSE MaxEvents - 1, Nap)
    /\ \A n, m \in Node : \A s \in Configured[n] : \A t \in Configured[m] :
          (\E i \in DOMAIN s : \E j \in DOMAIN t : s[i].mac = t[j].mac) => n = m

-----------------------------------------------------------------------------
(* The operators on interfaces and tables.                                 *)

Sent(m) == LastOfEachMac(Interfaces(m))

LEMMA SentType ==
    ASSUME LinksOK, NEW m \in Node
    PROVE  /\ Sent(m) \in SUBSET NetInterfaceType
           /\ \A r \in Sent(m) : \E i \in DOMAIN links[m] : r.mac = links[m][i].mac
<1>1. /\ Interfaces(m) \in Seq(NetInterfaceType)
      /\ DOMAIN Interfaces(m) = DOMAIN links[m]
      /\ \A i \in DOMAIN links[m] : Interfaces(m)[i] = NetInterface(links[m][i])
  BY InterfacesOf
<1>2. \A r \in Sent(m) : \E i \in DOMAIN links[m] : r = NetInterface(links[m][i])
  BY <1>1 DEF Sent, LastOfEachMac
<1>3. \A l : NetInterface(l).mac = l.mac
  BY DEF NetInterface
<1> QED
  BY <1>1, <1>2, <1>3, LastType DEF Sent

(* A MAC tells which machine an interface is of.                           *)
LEMMA SenderKnown ==
    ASSUME Generous, LinksOK, NEW n \in Node, NEW m \in Node,
           NEW r \in Sent(n), NEW s \in Sent(m), r.mac = s.mac
    PROVE  n = m
<1>1. \E i \in DOMAIN links[n] : \E j \in DOMAIN links[m] : links[n][i].mac = links[m][j].mac
  BY SentType
<1> QED
  BY <1>1 DEF Generous, LinksOK

(* What should be listed of a machine comes from what it sends.            *)
LEMMA VisibleIsSent ==
    ASSUME LinksOK, NEW n \in Node, NEW m \in Node, NEW nif \in Visible(n, m)
    PROVE  \E r \in Sent(m) : nif = Filtered(Interfaces(n), r) /\ nif.mac = r.mac
<1>1. PICK r \in Sent(m) : nif = Filtered(Interfaces(n), r)
  BY DEF Visible, Matched, Sent
<1>2. r \in NetInterfaceType /\ Interfaces(n) \in Seq(NetInterfaceType)
  BY SentType, InterfacesOf
<1> QED
  BY <1>1, <1>2, FilteredType

LEMMA VisibleType ==
    ASSUME LinksOK, NEW n \in Node, NEW m \in Node
    PROVE  Visible(n, m) \in SUBSET NetInterfaceType
<1>1. Interfaces(n) \in Seq(NetInterfaceType) /\ Sent(m) \in SUBSET NetInterfaceType
  BY SentType, InterfacesOf
<1> QED
  BY <1>1, FilteredType DEF Visible, Matched, Sent

LEMMA MatchedMonotonic ==
    ASSUME NEW local, NEW rs, NEW qs, rs \subseteq qs
    PROVE  Matched(local, rs) \subseteq Matched(local, qs)
BY DEF Matched

(* After an update what was received is in the table, new, and what was    *)
(* not received stays if it is not too old.                                *)
LEMMA UpdatedTable ==
    ASSUME NEW S \in SUBSET Entries, NEW rs \in SUBSET NetInterfaceType,
           NEW T, T = TS!RemoveOlder(TS!Update(S, Pairs(rs)), ActivityPeriod)
    PROVE  /\ \A nif \in rs : \E e \in T : e.data = nif /\ e.age = 0
           /\ \A e \in S : e.age <= ActivityPeriod /\ (\A nif \in rs : nif.mac # e.index)
                              => e \in T
<1> DEFINE new == {[index |-> p[1], data |-> p[2], age |-> 0] : p \in Pairs(rs)}
<1>1. TS!Update(S, Pairs(rs)) = {e \in S : \A p \in Pairs(rs) : p[1] # e.index} \cup new
  BY DEF TS!Update
<1>2. ASSUME NEW nif \in rs
      PROVE  \E e \in T : e.data = nif /\ e.age = 0
  <2>1. <<nif.mac, nif>> \in Pairs(rs)
    BY DEF Pairs
  <2>2. [index |-> nif.mac, data |-> nif, age |-> 0] \in new
    BY <2>1
  <2>3. ~ (0 > ActivityPeriod)
    BY NetworkAssumption
  <2>4. [index |-> nif.mac, data |-> nif, age |-> 0] \in T
    BY <1>1, <2>2, <2>3 DEF TS!RemoveOlder
  <2> QED
    BY <2>4
<1>3. ASSUME NEW e \in S, e.age <= ActivityPeriod, \A nif \in rs : nif.mac # e.index
      PROVE  e \in T
  <2>1. \A p \in Pairs(rs) : p[1] # e.index
    BY <1>3 DEF Pairs
  <2>2. e.age \in Nat
    BY NetworkAssumption DEF Entries, TS!Entry, AgeCap
  <2> QED
    BY <1>1, <1>3, <2>1, <2>2, NetworkAssumption DEF TS!RemoveOlder
<1> QED
  BY <1>2, <1>3

LEMMA AgedAges ==
    ASSUME NEW S \in SUBSET Entries, NEW e \in S
    PROVE  \E f \in TS!Aged(S, AgeCap) : f.data = e.data /\ f.age <= e.age + 1
<1> DEFINE older == [e EXCEPT !.age = IF @ < AgeCap THEN @ + 1 ELSE @]
<1>1. older \in TS!Aged(S, AgeCap)
  BY DEF TS!Aged
<1>2. e \in Entries /\ e.age \in Nat /\ AgeCap \in Nat
  BY NetworkAssumption DEF Entries, TS!Entry, AgeCap
<1>3. older.data = e.data /\ older.age <= e.age + 1
  BY <1>2 DEF Entries, TS!Entry
<1> QED
  BY <1>1, <1>3

-----------------------------------------------------------------------------
(* The invariant.                                                          *)

(* A window is not shorter than a period with its jitter: only an          *)
(* iteration that a request ended is followed by time asleep.              *)
PaceOK ==
    /\ events \in 0 .. MaxEvents
    /\ \A n \in Node :
          /\ elapsed[n] <= Gap
          /\ phase[n] = "receive" => nifs[n] = Interfaces(n)
          /\ phase[n] = "sleep" /\ events = 0 => elapsed[n] >= SendingPeriod

(* What is queued, and what was received, are whole announcements.         *)
OriginOK ==
    \A n \in Node :
        /\ \A i \in DOMAIN queue[n] : \E k \in Node : queue[n][i] = Interfaces(k)
        /\ \A r \in received[n] : \E k \in Node : r \in Sent(k) /\ Sent(k) \subseteq received[n]

Heard(n, m) == Sent(m) \subseteq received[n]
Queued(n, m) == \E i \in DOMAIN queue[n] : queue[n][i] = Interfaces(m)

(* How long what is queued may have waited.                                *)
Waited(n) ==
    IF phase[n] = "sleep"
    THEN IF events = 0 THEN 0
         ELSE Times(events - 1, Nap) + (IF elapsed[n] < Nap THEN elapsed[n] ELSE Nap)
    ELSE IF phase[n] = "receive" /\ elapsed[n] > 0 THEN 0 ELSE Times(events, Nap)

(* How long a machine may have been running since its last announcement.   *)
Since(m) == IF phase[m] = "announce" THEN Gap ELSE elapsed[m]

AgeBound(n, m) ==
    IF Queued(n, m) THEN Overdue + Waited(n) ELSE Times(missed[n][m], Gap) + Since(m)

Kept(n, m) ==
    /\ n \in Running /\ m \in Running
    /\ \A nif \in Visible(n, m) :
          \E e \in neighbors[n] : e.data = nif /\ (~Heard(n, m) => e.age <= AgeBound(n, m))

KeptOK ==
    /\ steady \subseteq Node \X Node
    /\ \A n, m \in Node : <<n, m>> \in steady => Kept(n, m)

SteadyInv == NetworkInv /\ PaceOK /\ OriginOK /\ KeptOK

LEMMA SteadyInit == Init => SteadyInv
<1> SUFFICES ASSUME Init PROVE SteadyInv
  OBVIOUS
<1>1. PaceOK
  BY NetworkAssumption DEF Init, PaceOK, Gap
<1>2. OriginOK
  BY DEF Init, OriginOK
<1>3. KeptOK
  BY DEF Init, KeptOK
<1> QED
  BY <1>1, <1>2, <1>3, NetworkInit DEF SteadyInv

LEMMA SteadyIsKept == SteadyInv => SteadyNeighborsKept
<1> SUFFICES ASSUME SteadyInv, NEW p \in steady, NEW nif \in Visible(p[1], p[2])
             PROVE  \E e \in neighbors[p[1]] : e.data = nif
  BY DEF SteadyNeighborsKept
<1>1. PICK n \in Node, m \in Node : p = <<n, m>>
  BY DEF SteadyInv, KeptOK
<1>2. Kept(n, m)
  BY <1>1 DEF SteadyInv, KeptOK
<1> QED
  BY <1>1, <1>2 DEF Kept

(* The durations of the invariant, and their order.                        *)
LEMMA Durations ==
    ASSUME NetworkInv, PaceOK, NEW n \in Node, NEW m \in Node
    PROVE  /\ Gap \in Nat /\ Nap \in Nat /\ Overdue \in Nat /\ events \in Nat
           /\ SendingPeriod \in Nat \ {0} /\ ActivityPeriod \in Nat
           /\ missed[n][m] \in Nat /\ elapsed[n] \in Nat
           /\ Waited(n) \in Nat /\ Since(m) \in Nat /\ Times(missed[n][m], Gap) \in Nat
           /\ AgeBound(n, m) \in Nat
           /\ Since(m) <= Gap
           /\ Times(missed[n][m], Gap) + Gap <= Overdue
           /\ AgeBound(n, m) <= Overdue + Waited(n)
<1>1. /\ Gap \in Nat /\ Nap \in Nat /\ events \in Nat /\ MaxLoss \in Nat /\ MaxLoss + 1 \in Nat
      /\ SendingPeriod \in Nat \ {0} /\ ActivityPeriod \in Nat
  BY NetworkAssumption DEF Gap, Nap, PaceOK
<1>2. missed[n][m] \in 0 .. MaxLoss /\ elapsed[n] \in Nat /\ elapsed[m] \in Nat
  BY DEF NetworkInv, MissedOK, PhaseOK
<1>3. missed[n][m] \in Nat /\ missed[n][m] + 1 \in Nat /\ missed[n][m] + 1 <= MaxLoss + 1
  BY <1>1, <1>2
<1>4. /\ Times(missed[n][m], Gap) \in Nat /\ Overdue \in Nat
      /\ Times(missed[n][m] + 1, Gap) = Times(missed[n][m], Gap) + Gap
      /\ Times(missed[n][m] + 1, Gap) <= Overdue
  BY <1>1, <1>3, TimesNext, TimesMonotonic DEF Overdue
<1>5. Waited(n) \in Nat
  <2>1. events # 0 => events - 1 \in Nat /\ Times(events - 1, Nap) \in Nat
    BY <1>1, TimesNext
  <2>2. Times(events, Nap) \in Nat
    BY <1>1, TimesNext
  <2> QED
    BY <1>1, <1>2, <2>1, <2>2 DEF Waited
<1>6. Since(m) \in Nat /\ Since(m) <= Gap
  BY <1>1, <1>2 DEF Since, PaceOK
<1>7. AgeBound(n, m) \in Nat /\ AgeBound(n, m) <= Overdue + Waited(n)
  BY <1>1, <1>4, <1>5, <1>6 DEF AgeBound
<1> QED
  BY <1>1, <1>2, <1>3, <1>4, <1>5, <1>6, <1>7

-----------------------------------------------------------------------------
(* The steps.                                                              *)

(* The interfaces stay; then so does what is defined from them.            *)
LEMMA SentStays ==
    ASSUME links' = links
    PROVE  /\ \A n : Interfaces(n)' = Interfaces(n) /\ Sent(n)' = Sent(n)
           /\ \A n, m : Visible(n, m)' = Visible(n, m)
BY DEF Interfaces, Sent, Visible

LEMMA KeptFrame ==
    ASSUME SteadyInv, links' = links, NEW n \in Node, NEW m \in Node, <<n, m>> \in steady,
           n \in Running', m \in Running', neighbors'[n] = neighbors[n],
           Heard(n, m) => Heard(n, m)',
           \A a \in Nat : a <= AgeBound(n, m) => a <= AgeBound(n, m)'
    PROVE  Kept(n, m)'
<1>1. Kept(n, m) /\ neighbors[n] \in SUBSET Entries
  BY DEF SteadyInv, KeptOK, NetworkInv, NeighborsOK
<1>2. ASSUME NEW nif \in Visible(n, m)
      PROVE  \E e \in neighbors'[n] : e.data = nif /\ (~Heard(n, m)' => e.age <= AgeBound(n, m)')
  <2>1. PICK e \in neighbors[n] : e.data = nif /\ (~Heard(n, m) => e.age <= AgeBound(n, m))
    BY <1>1 DEF Kept
  <2>2. e.age \in Nat
    BY <1>1, NetworkAssumption DEF Entries, TS!Entry, AgeCap
  <2> QED
    BY <2>1, <2>2
<1> QED
  BY <1>2, SentStays DEF Kept

LEMMA BoundGrows ==
    ASSUME NetworkInv, PaceOK, NEW n \in Node, NEW m \in Node,
           Waited(n)' \in Nat, Waited(n) <= Waited(n)',
           Since(m)' \in Nat, Since(m) <= Since(m)',
           missed'[n][m] = missed[n][m], Queued(n, m) => Queued(n, m)'
    PROVE  \A a \in Nat : a <= AgeBound(n, m) => a <= AgeBound(n, m)'
<1> DEFINE owed == Times(missed[n][m], Gap)
<1>1. /\ Overdue \in Nat /\ Waited(n) \in Nat /\ Since(m) \in Nat /\ owed \in Nat
      /\ Gap \in Nat /\ Since(m) <= Gap /\ owed + Gap <= Overdue
  BY Durations
<1>2. AgeBound(n, m) = IF Queued(n, m) THEN Overdue + Waited(n) ELSE owed + Since(m)
  BY DEF AgeBound
<1>3. AgeBound(n, m)' = IF Queued(n, m)' THEN Overdue + Waited(n)' ELSE owed + Since(m)'
  BY DEF AgeBound, Overdue, Gap
<1> HIDE DEF owed
<1> QED
  BY <1>1, <1>2, <1>3

LEMMA WaitedGrows ==
    ASSUME NetworkInv, PaceOK, NEW n \in Node, events' \in Nat, events <= events',
           phase'[n] = phase[n], elapsed'[n] = elapsed[n]
    PROVE  Waited(n)' \in Nat /\ Waited(n) <= Waited(n)'
<1>1. Nap \in Nat /\ events \in Nat /\ elapsed[n] \in Nat
  BY Durations
<1>2. /\ Times(events, Nap) \in Nat /\ Times(events', Nap) \in Nat
      /\ Times(events, Nap) <= Times(events', Nap)
  BY <1>1, TimesNext, TimesMonotonic
<1>3. events' # 0 => Times(events' - 1, Nap) \in Nat
  BY <1>1, TimesBefore
<1>4. ASSUME events # 0
      PROVE  /\ Times(events - 1, Nap) \in Nat
             /\ Times(events - 1, Nap) <= Times(events' - 1, Nap)
  BY <1>1, <1>4, TimesEarlier
<1>5. Waited(n)' =
          IF phase[n] = "sleep"
          THEN IF events' = 0 THEN 0
               ELSE Times(events' - 1, Nap) + (IF elapsed[n] < Nap THEN elapsed[n] ELSE Nap)
          ELSE IF phase[n] = "receive" /\ elapsed[n] > 0 THEN 0 ELSE Times(events', Nap)
  BY DEF Waited, Nap
<1> QED
  BY <1>1, <1>2, <1>3, <1>4, <1>5 DEF Waited

LEMMA SinceStays ==
    ASSUME NetworkInv, PaceOK, NEW m \in Node, phase'[m] = phase[m], elapsed'[m] = elapsed[m]
    PROVE  Since(m)' \in Nat /\ Since(m) <= Since(m)'
<1>1. Since(m)' = Since(m)
  BY DEF Since, Gap
<1>2. Since(m) \in Nat
  BY Durations
<1> QED
  BY <1>1, <1>2

LEMMA BootSteady ==
    ASSUME SteadyInv, NEW k \in Node, Boot(k)
    PROVE  PaceOK' /\ OriginOK' /\ KeptOK'
<1> USE DEF SteadyInv
<1>1. /\ phase[k] = "off" /\ phase' = [phase EXCEPT ![k] = "announce"]
      /\ UNCHANGED <<links, nifs, elapsed, queue, received, neighbors, missed, steady, events>>
  BY DEF Boot
<1>2. phase \in [Node -> Phase] /\ events \in Nat
  BY DEF NetworkInv, PhaseOK, PaceOK
<1>3. PaceOK'
  BY <1>1, <1>2, SentStays DEF PaceOK, Gap
<1>4. OriginOK'
  BY <1>1, SentStays DEF OriginOK
<1>5. ASSUME NEW n \in Node, NEW m \in Node, <<n, m>> \in steady
      PROVE  Kept(n, m)'
  <2>1. n # k /\ m # k
    BY <1>1, <1>5 DEF KeptOK, Kept, Running
  <2>2. n \in Running' /\ m \in Running'
    BY <1>1, <1>2, <1>5, <2>1 DEF KeptOK, Kept, Running
  <2>3. phase'[n] = phase[n] /\ phase'[m] = phase[m]
    BY <1>1, <1>2, <2>1
  <2>4. Waited(n)' \in Nat /\ Waited(n) <= Waited(n)'
    BY <1>1, <1>2, <2>3, WaitedGrows
  <2>5. Since(m)' \in Nat /\ Since(m) <= Since(m)'
    BY <1>1, <2>3, SinceStays
  <2>6. (Heard(n, m) => Heard(n, m)') /\ (Queued(n, m) => Queued(n, m)')
    BY <1>1, SentStays DEF Heard, Queued
  <2> QED
    BY <1>1, <1>5, <2>2, <2>4, <2>5, <2>6, BoundGrows, KeptFrame
<1> QED
  BY <1>1, <1>3, <1>4, <1>5 DEF KeptOK

LEMMA AnnounceSteady ==
    ASSUME SteadyInv, QueuesHaveRoom, NEW k \in Node, Announce(k)
    PROVE  PaceOK' /\ OriginOK' /\ KeptOK'
<1> USE DEF SteadyInv
<1>1. /\ phase[k] = "announce" /\ phase' = [phase EXCEPT ![k] = "receive"]
      /\ nifs' = [nifs EXCEPT ![k] = Interfaces(k)]
      /\ UNCHANGED <<links, elapsed, received, neighbors, steady, events>>
  BY DEF Announce
<1>2. PICK lost \in SUBSET (Running \ {k}) :
        /\ missed' = [m \in Node |-> [missed[m] EXCEPT ![k] =
                         IF m \in lost THEN @ + 1 ELSE 0]]
        /\ \A n \in Node :
             /\ \A i \in DOMAIN queue[n] :
                   i \in DOMAIN queue'[n] /\ queue'[n][i] = queue[n][i]
             /\ \A i \in DOMAIN queue'[n] \ DOMAIN queue[n] : queue'[n][i] = Interfaces(k)
             /\ n \in Running \ lost /\ Len(queue[n]) < RxCapacity =>
                   Len(queue[n]) + 1 \in DOMAIN queue'[n] \ DOMAIN queue[n]
  BY AnnounceQueues
<1>3. /\ phase \in [Node -> Phase] /\ events \in Nat /\ elapsed[k] = 0
      /\ nifs \in [Node -> Seq(NetInterfaceType)]
      /\ missed \in [Node -> [Node -> 0 .. MaxLoss]]
  BY <1>1 DEF NetworkInv, PhaseOK, PaceOK, NifsOK, MissedOK
<1>4. PaceOK'
  BY <1>1, <1>3, SentStays DEF PaceOK, Gap
<1>5. \A n \in Node : Len(queue[n]) < RxCapacity
  BY DEF QueuesHaveRoom
<1>6. OriginOK'
  <2>1. ASSUME NEW n \in Node, NEW i \in DOMAIN queue'[n]
        PROVE  \E j \in Node : queue'[n][i] = Interfaces(j)
    <3>1. CASE i \in DOMAIN queue[n]
      BY <1>2, <3>1 DEF OriginOK
    <3>2. CASE i \notin DOMAIN queue[n]
      BY <1>2, <2>1, <3>2
    <3> QED
      BY <3>1, <3>2
  <2> QED
    BY <1>1, <2>1, SentStays DEF OriginOK
<1>7. ASSUME NEW n \in Node, NEW m \in Node, <<n, m>> \in steady
      PROVE  Kept(n, m)'
  <2>1. n \in Running /\ n \in Running' /\ m \in Running'
    BY <1>1, <1>3, <1>7 DEF KeptOK, Kept, Running
  <2>2. Heard(n, m) => Heard(n, m)'
    BY <1>1, SentStays DEF Heard
  <2>3. Queued(n, m) => Queued(n, m)'
    <3>1. \A i \in DOMAIN queue[n] : i \in DOMAIN queue'[n] /\ queue'[n][i] = queue[n][i]
      BY <1>2
    <3> QED
      BY <1>1, <3>1, SentStays DEF Queued
  <2>4. Waited(n)' = Waited(n)
    BY <1>1, <1>3 DEF Waited, Nap
  <2>5. Waited(n) \in Nat
    BY Durations
  <2>6. CASE m # k
    <3>1. missed'[n][m] = missed[n][m]
      BY <1>2, <1>3, <2>6
    <3>2. Since(m)' \in Nat /\ Since(m) <= Since(m)'
      BY <1>1, <1>3, <2>6, SinceStays
    <3> QED
      BY <1>1, <1>7, <2>1, <2>2, <2>3, <2>4, <2>5, <3>1, <3>2, BoundGrows, KeptFrame
  <2>7. CASE m = k
    <3> DEFINE owed == Times(missed[n][k], Gap)
    <3>1. /\ Overdue \in Nat /\ missed[n][k] \in Nat /\ owed \in Nat /\ Gap \in Nat
          /\ owed + Gap <= Overdue
      BY Durations
    <3>2. AgeBound(n, k) = IF Queued(n, k) THEN Overdue + Waited(n) ELSE owed + Gap
      BY <1>1 DEF AgeBound, Since
    <3>3. CASE n \in lost
      <4>1. missed'[n][k] = missed[n][k] + 1
        BY <1>2, <1>3, <3>3
      <4>2. Times(missed[n][k] + 1, Gap) = owed + Gap
        BY <3>1, TimesNext
      <4>3. Since(k)' = 0
        BY <1>1, <1>3 DEF Since
      <4>4. AgeBound(n, k)' = IF Queued(n, k)' THEN Overdue + Waited(n)' ELSE Times(missed'[n][k], Gap) + Since(k)'
        BY DEF AgeBound, Overdue, Gap
      <4> HIDE DEF owed
      <4>5. \A a \in Nat : a <= AgeBound(n, k) => a <= AgeBound(n, k)'
        BY <2>3, <2>4, <2>5, <2>7, <3>1, <3>2, <4>1, <4>2, <4>3, <4>4
      <4> QED
        BY <1>1, <1>7, <2>1, <2>2, <2>7, <4>5, KeptFrame
    <3>4. CASE n \notin lost
      <4>1. Queued(n, k)'
        <5>1. /\ Len(queue[n]) + 1 \in DOMAIN queue'[n]
              /\ queue'[n][Len(queue[n]) + 1] = Interfaces(k)
          BY <1>2, <1>5, <2>1, <3>4
        <5> QED
          BY <1>1, <5>1, SentStays DEF Queued
      <4>2. AgeBound(n, k)' = Overdue + Waited(n)
        BY <2>4, <4>1 DEF AgeBound, Overdue, Gap
      <4> HIDE DEF owed
      <4>3. \A a \in Nat : a <= AgeBound(n, k) => a <= AgeBound(n, k)'
        BY <2>5, <3>1, <3>2, <4>2
      <4> QED
        BY <1>1, <1>7, <2>1, <2>2, <2>7, <4>3, KeptFrame
    <3> QED
      BY <3>3, <3>4
  <2> QED
    BY <2>6, <2>7
<1> QED
  BY <1>1, <1>4, <1>6, <1>7 DEF KeptOK

LEMMA ReceiveSteady ==
    ASSUME SteadyInv, Generous, NEW k \in Node, Receive(k)
    PROVE  PaceOK' /\ OriginOK' /\ KeptOK'
<1> USE DEF SteadyInv
<1>1. /\ phase[k] = "receive" /\ queue[k] # <<>>
      /\ UNCHANGED <<links, phase, nifs, elapsed, neighbors, missed, steady, events>>
      /\ queue' = [queue EXCEPT ![k] = Tail(@)]
  BY DEF Receive
<1>2. /\ queue \in [Node -> Seq(Seq(NetInterfaceType))] /\ LinksOK
      /\ received \in [Node -> SUBSET NetInterfaceType] /\ events \in Nat
  BY DEF NetworkInv, QueueOK, ReceivedOK, PaceOK
<1>3. /\ 1 \in DOMAIN queue[k] /\ Head(queue[k]) = queue[k][1]
      /\ \A i \in DOMAIN Tail(queue[k]) : i + 1 \in DOMAIN queue[k] /\ Tail(queue[k])[i] = queue[k][i + 1]
      /\ \A i \in DOMAIN queue[k] : i # 1 => i - 1 \in DOMAIN Tail(queue[k]) /\ Tail(queue[k])[i - 1] = queue[k][i]
  BY <1>1, <1>2
<1>4. PICK j \in Node : Head(queue[k]) = Interfaces(j)
  BY <1>3 DEF OriginOK
<1>5. received' = [received EXCEPT ![k] =
             {r \in @ : \A nif \in Sent(j) : nif.mac # r.mac} \cup Sent(j)]
  BY <1>4 DEF Receive, Sent
<1>6. PaceOK'
  BY <1>1, SentStays DEF PaceOK, Gap
<1>7. ASSUME NEW m \in Node, m # j, Sent(m) \subseteq received[k]
      PROVE  Sent(m) \subseteq received'[k]
  <2>1. \A r \in Sent(m) : \A nif \in Sent(j) : nif.mac # r.mac
    BY <1>2, <1>7, SenderKnown
  <2> QED
    BY <1>2, <1>5, <1>7, <2>1
<1>8. Sent(j) \subseteq received'[k]
  BY <1>2, <1>5
<1>9. OriginOK'
  <2>1. ASSUME NEW n \in Node, NEW i \in DOMAIN queue'[n]
        PROVE  \E m \in Node : queue'[n][i] = Interfaces(m)
    BY <1>1, <1>2, <1>3 DEF OriginOK
  <2>2. ASSUME NEW n \in Node, NEW r \in received'[n]
        PROVE  \E m \in Node : r \in Sent(m) /\ Sent(m) \subseteq received'[n]
    <3>1. CASE n # k
      BY <1>2, <1>5, <3>1 DEF OriginOK
    <3>2. CASE n = k /\ r \in Sent(j)
      BY <1>8, <3>2
    <3>3. CASE n = k /\ r \notin Sent(j)
      <4>1. r \in received[k]
        BY <1>2, <1>5, <3>3
      <4>2. PICK m \in Node : r \in Sent(m) /\ Sent(m) \subseteq received[k]
        BY <4>1 DEF OriginOK
      <4> QED
        BY <1>7, <3>3, <4>2
    <3> QED
      BY <3>1, <3>2, <3>3
  <2> QED
    BY <1>1, <2>1, <2>2, SentStays DEF OriginOK
<1>10. ASSUME NEW n \in Node, NEW m \in Node, <<n, m>> \in steady
       PROVE  Kept(n, m)'
  <2>1. n \in Running' /\ m \in Running'
    BY <1>1, <1>10 DEF KeptOK, Kept, Running
  <2>2. Waited(n)' \in Nat /\ Waited(n) <= Waited(n)'
    BY <1>1, <1>2, WaitedGrows
  <2>3. Since(m)' \in Nat /\ Since(m) <= Since(m)'
    BY <1>1, SinceStays
  <2>4. Heard(n, m) => Heard(n, m)'
    BY <1>1, <1>2, <1>5, <1>7, <1>8, SentStays DEF Heard
  <2>5. CASE Heard(n, m)'
    <3>1. \A nif \in Visible(n, m) : \E e \in neighbors[n] : e.data = nif
      BY <1>10 DEF KeptOK, Kept
    <3> QED
      BY <1>1, <2>1, <2>5, <3>1, SentStays DEF Kept
  <2>6. CASE ~Heard(n, m)'
    <3>1. n # k \/ m # j
      BY <1>1, <1>8, <2>6, SentStays DEF Heard
    <3>2. Queued(n, m) => Queued(n, m)'
      <4>1. CASE n # k
        BY <1>1, <1>2, <4>1, SentStays DEF Queued
      <4>2. CASE n = k /\ m # j
        <5>1. ASSUME NEW i \in DOMAIN queue[k], queue[k][i] = Interfaces(m), i # 1
              PROVE  Queued(n, m)'
          <6>1. queue'[n] = Tail(queue[k])
            BY <1>1, <1>2, <4>2
          <6>2. i - 1 \in DOMAIN queue'[n] /\ queue'[n][i - 1] = Interfaces(m)
            BY <1>3, <5>1, <6>1
          <6> QED
            BY <1>1, <6>2, SentStays DEF Queued
        <5>2. ASSUME queue[k][1] = Interfaces(m)
              PROVE  Heard(n, m)'
          BY <1>1, <1>3, <1>4, <1>8, <4>2, <5>2, SentStays DEF Heard, Sent
        <5> QED
          BY <2>6, <4>2, <5>1, <5>2 DEF Queued
      <4> QED
        BY <3>1, <4>1, <4>2
    <3> QED
      BY <1>1, <1>10, <2>1, <2>2, <2>3, <2>4, <3>2, BoundGrows, KeptFrame
  <2> QED
    BY <2>5, <2>6
<1> QED
  BY <1>1, <1>6, <1>9, <1>10 DEF KeptOK

(* An iteration that ends has taken something from its queue: what still   *)
(* waits there has one iteration less to wait for.                         *)
LEMMA FinishWaited ==
    ASSUME NetworkInv, PaceOK, Generous, NEW k \in Node, Finish(k)
    PROVE  /\ events' \in 0 .. MaxEvents /\ events <= events'
           /\ events' = 0 => elapsed[k] >= SendingPeriod
           /\ Waited(k)' \in Nat /\ Waited(k) <= Waited(k)'
           /\ Overdue + Waited(k) <= ActivityPeriod
<1>1. /\ phase[k] = "receive" /\ phase' = [phase EXCEPT ![k] = "sleep"] /\ elapsed' = elapsed
      /\ \/ elapsed[k] >= SendingPeriod /\ events' = events
         \/ elapsed[k] < SendingPeriod /\ events < MaxEvents /\ events' = events + 1
  BY DEF Finish, WindowOver
<1>2. /\ Nap \in Nat /\ Overdue \in Nat /\ events \in 0 .. MaxEvents /\ elapsed[k] \in Nat
      /\ SendingPeriod \in Nat \ {0} /\ ActivityPeriod \in Nat /\ MaxEvents \in Nat
  BY Durations, NetworkAssumption DEF PaceOK
<1>3. /\ events' \in 0 .. MaxEvents /\ events <= events'
      /\ events' = 0 => elapsed[k] >= SendingPeriod
  BY <1>1, <1>2
<1>4. events \in Nat /\ events' \in Nat
  BY <1>2, <1>3
<1>5. Times(events, Nap) \in Nat
  BY <1>2, <1>4, TimesNext
<1>6. events' # 0 => Times(events' - 1, Nap) \in Nat
  BY <1>2, <1>4, TimesBefore
<1>7. Waited(k) = IF elapsed[k] > 0 THEN 0 ELSE Times(events, Nap)
  BY <1>1 DEF Waited
<1>8. Waited(k)' =
          IF events' = 0 THEN 0
          ELSE Times(events' - 1, Nap) + (IF elapsed[k] < Nap THEN elapsed[k] ELSE Nap)
  <2>1. phase'[k] = "sleep"
    BY <1>1 DEF NetworkInv, PhaseOK
  <2> QED
    BY <1>1, <2>1 DEF Waited, Nap
<1>9. elapsed[k] = 0 => events' = events + 1 /\ events <= MaxEvents - 1
  BY <1>1, <1>2
<1>10. Waited(k)' \in Nat /\ Waited(k) <= Waited(k)'
  <2>1. elapsed[k] = 0 => events' # 0 /\ events' - 1 = events
    BY <1>2, <1>4, <1>9
  <2> QED
    BY <1>2, <1>5, <1>6, <1>7, <1>8, <2>1
<1>11. Overdue + Waited(k) <= ActivityPeriod
  <2> DEFINE most == IF MaxEvents = 0 THEN 0 ELSE MaxEvents - 1
  <2>1. most \in Nat /\ (elapsed[k] = 0 => events <= most)
    BY <1>2, <1>9
  <2>2. ActivityPeriod >= Overdue + Times(most, Nap)
    BY DEF Generous
  <2> HIDE DEF most
  <2>3. Times(most, Nap) \in Nat
    BY <1>2, <2>1, TimesNext
  <2>4. elapsed[k] = 0 => Times(events, Nap) <= Times(most, Nap)
    BY <1>2, <2>1, TimesMonotonic
  <2> QED
    BY <1>2, <1>5, <1>7, <2>2, <2>3, <2>4
<1> QED
  BY <1>3, <1>10, <1>11

LEMMA FinishSteady ==
    ASSUME SteadyInv, Generous, NEW k \in Node, Finish(k)
    PROVE  PaceOK' /\ OriginOK' /\ KeptOK'
<1> DEFINE matched == Matched(Interfaces(k), received[k])
<1> USE DEF SteadyInv
<1>1. /\ phase[k] = "receive" /\ phase' = [phase EXCEPT ![k] = "sleep"]
      /\ received' = [received EXCEPT ![k] = {}]
      /\ nifs' = [nifs EXCEPT ![k] = <<>>]
      /\ UNCHANGED <<links, elapsed, queue, missed>>
  BY DEF Finish
<1>2. /\ phase \in [Node -> Phase] /\ events \in Nat /\ LinksOK
      /\ nifs \in [Node -> Seq(NetInterfaceType)]
      /\ received \in [Node -> SUBSET NetInterfaceType]
      /\ neighbors \in [Node -> SUBSET Entries]
      /\ \A n \in Node : \A e \in neighbors[n] : e.index = e.data.mac
  BY DEF NetworkInv, PhaseOK, PaceOK, NifsOK, ReceivedOK, NeighborsOK
<1>3. nifs[k] = Interfaces(k)
  BY <1>1 DEF PaceOK
<1>4. /\ neighbors' = [neighbors EXCEPT ![k] =
             TS!RemoveOlder(TS!Update(@, Pairs(matched)), ActivityPeriod)]
      /\ steady' = steady \cup {<<k, m>> : m \in Refreshed(k, matched)}
  BY <1>3 DEF Finish, Pairs
<1>5. matched \in SUBSET NetInterfaceType
  BY <1>2, InterfacesOf, MatchedType DEF NetworkInv, ReceivedOK
<1>6. /\ events' \in 0 .. MaxEvents /\ events' \in Nat /\ events <= events'
      /\ events' = 0 => elapsed[k] >= SendingPeriod
      /\ Waited(k)' \in Nat /\ Waited(k) <= Waited(k)'
      /\ Overdue + Waited(k) <= ActivityPeriod
  BY FinishWaited, NetworkAssumption
<1>7. PaceOK'
  BY <1>1, <1>2, <1>6, SentStays DEF PaceOK, Gap
<1>8. OriginOK'
  BY <1>1, <1>2, SentStays DEF OriginOK
<1>9. ASSUME NEW n \in Node, NEW m \in Node
      PROVE  /\ Since(m)' \in Nat /\ Since(m) <= Since(m)'
             /\ Waited(n)' \in Nat /\ Waited(n) <= Waited(n)'
             /\ Queued(n, m) => Queued(n, m)'
  <2>1. Since(m) = elapsed[m] \/ m # k
    BY <1>1 DEF Since
  <2>2. Since(m)' = Since(m)
    BY <1>1, <1>2, <2>1 DEF Since, Gap
  <2>3. Since(m) \in Nat
    BY Durations
  <2>4. Waited(n)' \in Nat /\ Waited(n) <= Waited(n)'
    BY <1>1, <1>2, <1>6, WaitedGrows
  <2> QED
    BY <1>1, <2>2, <2>3, <2>4, SentStays DEF Queued
<1>10. ASSUME NEW n \in Node, NEW m \in Node, <<n, m>> \in steady, n # k
       PROVE  Kept(n, m)'
  <2>1. n \in Running' /\ m \in Running'
    BY <1>1, <1>2, <1>10 DEF KeptOK, Kept, Running
  <2>2. neighbors'[n] = neighbors[n] /\ (Heard(n, m) => Heard(n, m)')
    BY <1>1, <1>2, <1>4, <1>10, SentStays DEF Heard
  <2> QED
    BY <1>1, <1>9, <1>10, <2>1, <2>2, BoundGrows, KeptFrame
<1> HIDE DEF matched
<1>11. neighbors'[k] = TS!RemoveOlder(TS!Update(neighbors[k], Pairs(matched)), ActivityPeriod)
  BY <1>2, <1>4
<1>12. /\ \A nif \in matched : \E e \in neighbors'[k] : e.data = nif /\ e.age = 0
       /\ \A e \in neighbors[k] :
             e.age <= ActivityPeriod /\ (\A nif \in matched : nif.mac # e.index)
                 => e \in neighbors'[k]
  <2>1. neighbors[k] \in SUBSET Entries
    BY <1>2
  <2> QED
    BY <1>5, <1>11, <2>1, UpdatedTable
<1>13. ASSUME NEW m \in Node, m \in Running, Visible(k, m) \subseteq matched
       PROVE  Kept(k, m)'
  <2>1. k \in Running' /\ m \in Running'
    BY <1>1, <1>2, <1>13 DEF Running
  <2>2. \A nif \in Visible(k, m) : \E e \in neighbors'[k] : e.data = nif /\ e.age = 0
    BY <1>12, <1>13
  <2>3. /\ Overdue \in Nat /\ Waited(k)' \in Nat /\ Since(m)' \in Nat
        /\ Times(missed[k][m], Gap) \in Nat
    BY <1>9, Durations
  <2>4. AgeBound(k, m)' = IF Queued(k, m)' THEN Overdue + Waited(k)'
                          ELSE Times(missed[k][m], Gap) + Since(m)'
    BY <1>1 DEF AgeBound, Overdue, Gap
  <2>5. 0 <= AgeBound(k, m)'
    BY <2>3, <2>4
  <2> QED
    BY <1>1, <2>1, <2>2, <2>5, SentStays DEF Kept
<1>14. ASSUME NEW m \in Node, <<k, m>> \in steady
       PROVE  Kept(k, m)'
  <2>1. Kept(k, m) /\ m \in Running
    BY <1>14 DEF KeptOK, Kept
  <2>2. CASE Heard(k, m)
    <3>1. Visible(k, m) \subseteq matched
      BY <2>2, MatchedMonotonic DEF Visible, Heard, Sent, matched
    <3> QED
      BY <1>13, <2>1, <3>1
  <2>3. CASE ~Heard(k, m)
    <3>1. AgeBound(k, m) \in Nat /\ AgeBound(k, m) <= ActivityPeriod
      BY <1>6, Durations
    <3>2. \A a \in Nat : a <= AgeBound(k, m) => a <= AgeBound(k, m)'
      BY <1>1, <1>9, BoundGrows
    <3>3. ASSUME NEW nif \in Visible(k, m)
          PROVE  \E e \in neighbors'[k] : e.data = nif /\ e.age <= AgeBound(k, m)'
      <4>1. PICK e \in neighbors[k] : e.data = nif /\ e.age <= AgeBound(k, m)
        BY <2>1, <2>3 DEF Kept
      <4>2. e.age \in Nat /\ e.index = nif.mac
        BY <1>2, <4>1, NetworkAssumption DEF Entries, TS!Entry, AgeCap
      <4>3. PICK r \in Sent(m) : nif.mac = r.mac
        BY <1>2, VisibleIsSent
      <4>4. ASSUME NEW other \in matched, other.mac = e.index
            PROVE  FALSE
        <5>1. PICK s \in received[k] : other = Filtered(Interfaces(k), s)
          BY DEF matched, Matched
        <5>2. other.mac = s.mac
          BY <1>2, <5>1, InterfacesOf, FilteredType
        <5>3. PICK j \in Node : s \in Sent(j) /\ Sent(j) \subseteq received[k]
          BY DEF OriginOK
        <5>4. j = m
          BY <1>2, <4>2, <4>3, <4>4, <5>2, <5>3, SenderKnown
        <5> QED
          BY <2>3, <5>3, <5>4 DEF Heard
      <4>5. e \in neighbors'[k]
        <5>1. e.age <= ActivityPeriod
          BY <3>1, <4>1, <4>2, NetworkAssumption
        <5> QED
          BY <1>12, <4>1, <4>4, <5>1
      <4> QED
        BY <3>2, <4>1, <4>2, <4>5
    <3>4. k \in Running' /\ m \in Running'
      BY <1>1, <1>2, <2>1 DEF Running
    <3> QED
      BY <1>1, <3>3, <3>4, SentStays DEF Kept
  <2> QED
    BY <2>2, <2>3
<1>15. ASSUME NEW n \in Node, NEW m \in Node, <<n, m>> \in steady'
       PROVE  Kept(n, m)'
  <2>1. CASE <<n, m>> \in steady
    BY <1>10, <1>14, <2>1
  <2>2. CASE <<n, m>> \notin steady
    <3>1. n = k /\ m \in Running /\ Visible(k, m) \subseteq matched
      BY <1>4, <1>15, <2>2 DEF Refreshed
    <3> QED
      BY <1>13, <3>1
  <2> QED
    BY <2>1, <2>2
<1>16. steady' \subseteq Node \X Node
  BY <1>4 DEF KeptOK, Refreshed, Running
<1> QED
  BY <1>7, <1>8, <1>15, <1>16 DEF KeptOK

LEMMA WakeUpSteady ==
    ASSUME SteadyInv, NEW k \in Node, WakeUp(k)
    PROVE  PaceOK' /\ OriginOK' /\ KeptOK'
<1> USE DEF SteadyInv
<1>1. /\ phase[k] = "sleep" /\ phase' = [phase EXCEPT ![k] = "announce"]
      /\ elapsed' = [elapsed EXCEPT ![k] = 0]
      /\ UNCHANGED <<links, nifs, queue, received, neighbors, missed, steady, events>>
  BY DEF WakeUp
<1>2. /\ phase \in [Node -> Phase] /\ elapsed \in [Node -> Nat] /\ events \in Nat
      /\ Gap \in Nat /\ Nap \in Nat /\ events' \in Nat /\ events <= events'
  BY <1>1, Durations DEF NetworkInv, PhaseOK
<1>3. PaceOK'
  BY <1>1, <1>2, SentStays DEF PaceOK, Gap
<1>4. OriginOK'
  BY <1>1, SentStays DEF OriginOK
<1>5. ASSUME NEW n \in Node, NEW m \in Node, <<n, m>> \in steady
      PROVE  Kept(n, m)'
  <2>1. n \in Running' /\ m \in Running'
    BY <1>1, <1>2, <1>5 DEF KeptOK, Kept, Running
  <2>2. (Heard(n, m) => Heard(n, m)') /\ (Queued(n, m) => Queued(n, m)')
    BY <1>1, SentStays DEF Heard, Queued
  <2>3. Waited(n)' \in Nat /\ Waited(n) <= Waited(n)'
    <3>1. CASE n # k
      BY <1>1, <1>2, <3>1, WaitedGrows
    <3>2. CASE n = k
      <4>1. /\ Times(events, Nap) \in Nat /\ Times(0, Nap) = 0
            /\ events # 0 => /\ Times(events - 1, Nap) \in Nat
                             /\ Times(events, Nap) = Times(events - 1, Nap) + Nap
        <5>1. ASSUME events # 0
              PROVE  events - 1 \in Nat /\ (events - 1) + 1 = events
          BY <1>2, <5>1
        <5> QED
          BY <1>2, <5>1, TimesNext
      <4>2. phase'[k] = "announce"
        BY <1>1, <1>2
      <4>3. Waited(k)' = Times(events, Nap)
        BY <1>1, <4>2 DEF Waited, Nap
      <4>4. Waited(k) =
                IF events = 0 THEN 0
                ELSE Times(events - 1, Nap) + (IF elapsed[k] < Nap THEN elapsed[k] ELSE Nap)
        BY <1>1 DEF Waited
      <4>5. elapsed[k] \in Nat
        BY <1>2
      <4> QED
        BY <1>2, <3>2, <4>1, <4>3, <4>4, <4>5
    <3> QED
      BY <3>1, <3>2
  <2>4. Since(m)' \in Nat /\ Since(m) <= Since(m)'
    <3>1. CASE m # k
      BY <1>1, <1>2, <3>1, SinceStays
    <3>2. CASE m = k
      <4>1. Since(k)' = Gap
        BY <1>1, <1>2 DEF Since, Gap
      <4> QED
        BY <1>2, <3>2, <4>1, Durations
    <3> QED
      BY <3>1, <3>2
  <2> QED
    BY <1>1, <1>5, <2>1, <2>2, <2>3, <2>4, BoundGrows, KeptFrame
<1> QED
  BY <1>1, <1>3, <1>4, <1>5 DEF KeptOK

LEMMA CrashSteady ==
    ASSUME SteadyInv, NEW k \in Node, Crash(k)
    PROVE  PaceOK' /\ OriginOK' /\ KeptOK'
<1> USE DEF SteadyInv
<1>1. /\ events < MaxEvents /\ events' = events + 1 /\ links' = links
      /\ phase' = [phase EXCEPT ![k] = "off"]
      /\ nifs' = [nifs EXCEPT ![k] = <<>>]
      /\ elapsed' = [elapsed EXCEPT ![k] = 0]
      /\ queue' = [queue EXCEPT ![k] = <<>>]
      /\ received' = [received EXCEPT ![k] = {}]
      /\ neighbors' = [neighbors EXCEPT ![k] = TS!EmptySet]
      /\ missed' = [missed EXCEPT ![k] = [m \in Node |-> 0]]
      /\ steady' = Unsteady(k)
  BY DEF Crash
<1>2. /\ phase \in [Node -> Phase] /\ elapsed \in [Node -> Nat]
      /\ nifs \in [Node -> Seq(NetInterfaceType)]
      /\ queue \in [Node -> Seq(Seq(NetInterfaceType))]
      /\ received \in [Node -> SUBSET NetInterfaceType]
      /\ neighbors \in [Node -> SUBSET Entries]
      /\ missed \in [Node -> [Node -> 0 .. MaxLoss]]
      /\ events \in 0 .. MaxEvents /\ MaxEvents \in Nat /\ Gap \in Nat
  BY Durations, NetworkAssumption
     DEF NetworkInv, PhaseOK, NifsOK, QueueOK, ReceivedOK, NeighborsOK, MissedOK, PaceOK
<1>3. events' \in 0 .. MaxEvents /\ events' \in Nat /\ events <= events'
  BY <1>1, <1>2
<1>4. PaceOK'
  BY <1>1, <1>2, <1>3, SentStays DEF PaceOK, Gap
<1>5. OriginOK'
  BY <1>1, <1>2, SentStays DEF OriginOK
<1>6. ASSUME NEW n \in Node, NEW m \in Node, <<n, m>> \in steady'
      PROVE  Kept(n, m)'
  <2>1. <<n, m>> \in steady /\ n # k /\ m # k
    BY <1>1, <1>6 DEF Unsteady
  <2>2. /\ phase'[n] = phase[n] /\ elapsed'[n] = elapsed[n] /\ queue'[n] = queue[n]
        /\ received'[n] = received[n] /\ neighbors'[n] = neighbors[n]
        /\ missed'[n][m] = missed[n][m] /\ phase'[m] = phase[m] /\ elapsed'[m] = elapsed[m]
    BY <1>1, <1>2, <2>1
  <2>3. n \in Running' /\ m \in Running'
    BY <2>1, <2>2 DEF KeptOK, Kept, Running
  <2>4. (Heard(n, m) => Heard(n, m)') /\ (Queued(n, m) => Queued(n, m)')
    BY <1>1, <2>2, SentStays DEF Heard, Queued
  <2>5. Waited(n)' \in Nat /\ Waited(n) <= Waited(n)'
    BY <1>3, <2>2, WaitedGrows
  <2>6. Since(m)' \in Nat /\ Since(m) <= Since(m)'
    BY <2>2, SinceStays
  <2> QED
    BY <1>1, <2>1, <2>2, <2>3, <2>4, <2>5, <2>6, BoundGrows, KeptFrame
<1>7. steady' \subseteq Node \X Node
  BY <1>1 DEF Unsteady, KeptOK
<1> QED
  BY <1>4, <1>5, <1>6, <1>7 DEF KeptOK

LEMMA TickSteady ==
    ASSUME SteadyInv, Generous, Tick
    PROVE  PaceOK' /\ OriginOK' /\ KeptOK'
<1> USE DEF SteadyInv
<1>1. /\ \A n \in Node : Waits(n)
      /\ elapsed' = [n \in Node |-> IF n \in Running THEN elapsed[n] + 1 ELSE 0]
      /\ neighbors' = [n \in Node |-> TS!Aged(neighbors[n], AgeCap)]
      /\ UNCHANGED <<links, phase, nifs, queue, received, missed, steady, events>>
  BY DEF Tick
<1>2. /\ phase \in [Node -> Phase] /\ elapsed \in [Node -> Nat] /\ events \in Nat
      /\ neighbors \in [Node -> SUBSET Entries]
      /\ queue \in [Node -> Seq(Seq(NetInterfaceType))]
      /\ SendingPeriod \in Nat /\ IterationPeriod \in Nat /\ Jitter \in Nat
      /\ Gap \in Nat /\ Nap \in Nat /\ Nap <= SendingPeriod
      /\ Gap = SendingPeriod + Jitter /\ Nap = IterationPeriod + Jitter
  BY NetworkAssumption, Durations
     DEF NetworkInv, PhaseOK, NeighborsOK, QueueOK, PaceOK, Generous, Gap, Nap
<1>3. ASSUME NEW n \in Node, n \in Running
      PROVE  /\ elapsed'[n] = elapsed[n] + 1 /\ phase'[n] = phase[n]
             /\ \/ phase[n] = "receive" /\ queue[n] = <<>> /\ elapsed[n] < Gap
                \/ phase[n] = "sleep" /\ elapsed[n] < Nap
  BY <1>1, <1>2, <1>3 DEF Waits, Running
<1>4. PaceOK'
  <2>1. ASSUME NEW n \in Node
        PROVE  /\ elapsed'[n] <= Gap
               /\ phase[n] = "receive" => nifs[n] = Interfaces(n)
               /\ phase[n] = "sleep" /\ events = 0 => elapsed'[n] >= SendingPeriod
    <3>1. CASE n \in Running
      BY <1>2, <1>3, <3>1 DEF PaceOK
    <3>2. CASE n \notin Running
      BY <1>1, <1>2, <3>2 DEF PaceOK, Running
    <3> QED
      BY <3>1, <3>2
  <2> QED
    BY <1>1, <2>1, SentStays DEF PaceOK, Gap
<1>5. OriginOK'
  BY <1>1, SentStays DEF OriginOK
<1>6. ASSUME NEW n \in Node, NEW m \in Node, <<n, m>> \in steady
      PROVE  Kept(n, m)'
  <2> DEFINE owed == Times(missed[n][m], Gap)
  <2>1. Kept(n, m) /\ n \in Running /\ m \in Running /\ n \in Running' /\ m \in Running'
    BY <1>1, <1>6 DEF KeptOK, Kept, Running
  <2>2. Heard(n, m)' = Heard(n, m) /\ Queued(n, m)' = Queued(n, m)
    BY <1>1, SentStays DEF Heard, Queued
  <2>3. /\ Overdue \in Nat /\ owed \in Nat /\ elapsed[n] \in Nat /\ elapsed[m] \in Nat
    BY Durations
  <2>4. AgeBound(n, m)' = IF Queued(n, m) THEN Overdue + Waited(n)' ELSE owed + elapsed'[m]
    BY <1>1, <1>3, <2>1, <2>2 DEF AgeBound, Overdue, Gap, Since
  <2>5. AgeBound(n, m) = IF Queued(n, m) THEN Overdue + Waited(n) ELSE owed + elapsed[m]
    BY <1>3, <2>1 DEF AgeBound, Since
  <2>6. elapsed'[m] = elapsed[m] + 1 /\ elapsed'[n] = elapsed[n] + 1
    BY <1>3, <2>1
  <2>7. ASSUME Queued(n, m)
        PROVE  Waited(n) \in Nat /\ Waited(n)' = Waited(n) + 1
    <3>1. phase[n] = "sleep" /\ elapsed[n] < Nap
      BY <1>3, <2>1, <2>7 DEF Queued
    <3>2. events # 0
      BY <1>2, <2>3, <3>1 DEF PaceOK
    <3>3. Times(events - 1, Nap) \in Nat
      BY <1>2, <3>2, TimesBefore
    <3>4. Waited(n) = Times(events - 1, Nap) + elapsed[n]
      BY <3>1, <3>2 DEF Waited
    <3>5. Waited(n)' =
              Times(events - 1, Nap) + (IF elapsed'[n] < Nap THEN elapsed'[n] ELSE Nap)
      BY <1>1, <3>1, <3>2 DEF Waited, Nap
    <3> QED
      BY <1>2, <2>3, <2>6, <3>1, <3>3, <3>4, <3>5, SMTT(20)
  <2> HIDE DEF owed
  <2>8. \A a \in Nat : a <= AgeBound(n, m) => \A b \in Nat : b <= a + 1 => b <= AgeBound(n, m)'
    BY <2>3, <2>4, <2>5, <2>6, <2>7
  <2>9. ASSUME NEW nif \in Visible(n, m)
        PROVE  \E f \in neighbors'[n] :
                   f.data = nif /\ (~Heard(n, m) => f.age <= AgeBound(n, m)')
    <3>1. PICK e \in neighbors[n] : e.data = nif /\ (~Heard(n, m) => e.age <= AgeBound(n, m))
      BY <2>1 DEF Kept
    <3>2. neighbors[n] \in SUBSET Entries /\ neighbors'[n] = TS!Aged(neighbors[n], AgeCap)
      BY <1>1, <1>2
    <3>3. PICK f \in neighbors'[n] : f.data = e.data /\ f.age <= e.age + 1
      BY <3>2, AgedAges
    <3>4. neighbors'[n] \in SUBSET Entries
      BY <3>2, AgedTable DEF NetworkInv, NeighborsOK
    <3>5. e.age \in Nat /\ f.age \in Nat
      BY <3>2, <3>4, NetworkAssumption DEF Entries, TS!Entry, AgeCap
    <3> QED
      BY <2>8, <3>1, <3>3, <3>5
  <2> QED
    BY <1>1, <2>1, <2>2, <2>9, SentStays DEF Kept
<1> QED
  BY <1>1, <1>4, <1>5, <1>6 DEF KeptOK

LEMMA SteadyNext ==
    ASSUME SteadyInv, Generous, QueuesHaveRoom, [Next]_vars, links' = links
    PROVE  SteadyInv'
<1>1. NetworkInv'
  BY NetworkNext DEF SteadyInv
<1>2. CASE UNCHANGED vars
  <2>1. /\ PaceOK' /\ OriginOK'
    BY <1>2, SentStays DEF vars, SteadyInv, PaceOK, OriginOK, Gap
  <2>2. ASSUME NEW n \in Node, NEW m \in Node, <<n, m>> \in steady
        PROVE  Kept(n, m)'
    <3>1. events \in Nat /\ events' = events
      BY <1>2, Durations DEF SteadyInv, vars
    <3>2. Waited(n)' \in Nat /\ Waited(n) <= Waited(n)' /\ Since(m)' \in Nat /\ Since(m) <= Since(m)'
      BY <1>2, <3>1, WaitedGrows, SinceStays DEF vars, SteadyInv
    <3>3. n \in Running' /\ m \in Running'
      BY <1>2, <2>2 DEF vars, SteadyInv, KeptOK, Kept, Running
    <3>4. (Heard(n, m) => Heard(n, m)') /\ (Queued(n, m) => Queued(n, m)')
      BY <1>2, SentStays DEF vars, Heard, Queued
    <3> QED
      BY <1>2, <2>2, <3>2, <3>3, <3>4, BoundGrows, KeptFrame DEF vars, SteadyInv
  <2> QED
    BY <1>1, <1>2, <2>1, <2>2 DEF vars, SteadyInv, KeptOK
<1>3. ASSUME NEW n \in Node, Reconfigure(n)
      PROVE  FALSE
  <2>1. PICK l \in Configured[n] \ {links[n]} : links' = [links EXCEPT ![n] = l]
    BY <1>3 DEF Reconfigure
  <2>2. links'[n] = l
    BY <2>1 DEF SteadyInv, NetworkInv, LinksOK
  <2> QED
    BY <2>1, <2>2
<1> QED
  BY <1>1, <1>2, <1>3, BootSteady, AnnounceSteady, ReceiveSteady, FinishSteady, WakeUpSteady,
     CrashSteady, TickSteady DEF Next, NodeStep, SteadyInv

(* As long as no machine's interfaces change and no receiver's queue is    *)
(* full, a machine that was listed and has run on since is never dropped   *)
(* (SteadyNeighborsKept), for any machines, losses, jitter and crashes: if *)
(* the activity period covers the announcements that may be missed in a    *)
(* row and what requests may delay those that get through.                 *)
THEOREM SteadyKept ==
    ASSUME Generous
    PROVE  SafetySpec /\ []QueuesHaveRoom /\ [][links' = links]_vars => []SteadyNeighborsKept
<1>1. Init => SteadyInv
  BY SteadyInit
<1>2. SteadyInv /\ QueuesHaveRoom /\ [Next]_vars /\ [links' = links]_vars => SteadyInv'
  BY SteadyNext DEF vars
<1>3. SteadyInv => SteadyNeighborsKept
  BY SteadyIsKept
<1> QED
  BY <1>1, <1>2, <1>3, PTL DEF SafetySpec

-----------------------------------------------------------------------------
(* How long a queue gets.                                                  *)

(* How long ago the oldest datagram in the queue of a machine may have     *)
(* been sent: it waited for no other iterations than those that ended      *)
(* early, because a receive loop lets time pass only with an empty queue.  *)
Behind(n) ==
    Times(events, Nap) +
        (IF phase[n] = "sleep"
         THEN Leftover - (IF elapsed[n] < Nap THEN Nap - elapsed[n] ELSE 0)
         ELSE IF phase[n] = "receive" /\ elapsed[n] > 0 THEN 0 ELSE Leftover)

(* How long ago, at least, the last announcement of a machine was sent,    *)
(* but for crashes.                                                        *)
Ago(m) == IF phase[m] \in {"receive", "sleep"} THEN elapsed[m] ELSE IterationPeriod

(* sent[m] announcements of each machine m, of which every copy came, are  *)
(* as many datagrams as there are in the queue, or more, and were all      *)
(* sent, an iteration apart, in that time.                                 *)
Slots(sent) == {s \in Node \X Nat : s[2] < sent[s[1]]}

Accounts(n, sent) ==
    /\ sent \in [Node -> Nat]
    /\ IsFiniteSet(Slots(sent))
    /\ Len(queue[n]) <= Times(Cardinality(Slots(sent)), MaxCopies)
    /\ \A m \in Node :
          sent[m] # 0 => Times(sent[m] - 1, IterationPeriod) + Ago(m) <= Behind(n)

RoomInv ==
    /\ NetworkInv /\ events \in 0 .. MaxEvents
    /\ \A n \in Node : phase[n] = "off" => queue[n] = <<>>
    /\ \A n \in Node : Behind(n) >= 0 /\ \E sent : Accounts(n, sent)

(* K announcements of each machine fit in a queue with all their copies,   *)
(* and K iterations take longer than an announcement may wait in one.      *)
Roomy ==
    /\ IsFiniteSet(Node)
    /\ \E K \in Nat : /\ Times(Cardinality(Node) * K, MaxCopies) < RxCapacity
                      /\ Times(MaxEvents, Nap) + Leftover < Times(K, IterationPeriod)

LEMMA RoomTypes ==
    ASSUME NetworkInv, NetworkInv', events \in Nat, events' \in Nat, NEW n \in Node
    PROVE  /\ Ago(n) \in Nat /\ Ago(n)' \in Nat /\ Behind(n) \in Int /\ Behind(n)' \in Int
           /\ Len(queue[n]) \in Nat /\ Len(queue'[n]) \in Nat
           /\ Nap \in Nat /\ Leftover \in Nat /\ Leftover + SendingPeriod >= Nap
           /\ IterationPeriod \in Nat \ {0} /\ IterationPeriod <= Nap
           /\ elapsed[n] \in Nat /\ elapsed'[n] \in Nat
<1>1. /\ Nap \in Nat /\ Leftover \in Nat /\ Leftover + SendingPeriod >= Nap
      /\ IterationPeriod \in Nat \ {0} /\ IterationPeriod <= Nap
  BY NetworkAssumption DEF Nap, Leftover
<1>2. elapsed[n] \in Nat /\ elapsed'[n] \in Nat
  BY DEF NetworkInv, PhaseOK
<1>3. Times(events, Nap) \in Nat /\ Times(events', Nap) \in Nat
  BY <1>1, TimesNext
<1>4. Ago(n) \in Nat /\ Ago(n)' \in Nat
  BY <1>1, <1>2 DEF Ago
<1>5. Behind(n) \in Int /\ Behind(n)' \in Int
  <2>1. Behind(n)' = Times(events', Nap) +
            (IF phase'[n] = "sleep"
             THEN Leftover - (IF elapsed'[n] < Nap THEN Nap - elapsed'[n] ELSE 0)
             ELSE IF phase'[n] = "receive" /\ elapsed'[n] > 0 THEN 0 ELSE Leftover)
    BY DEF Behind, Leftover, Nap
  <2> QED
    BY <1>1, <1>2, <1>3, <2>1 DEF Behind
<1>6. Len(queue[n]) \in Nat /\ Len(queue'[n]) \in Nat
  BY DEF NetworkInv, QueueOK
<1> QED
  BY <1>1, <1>2, <1>4, <1>5, <1>6

(* An empty queue accounts for itself.                                     *)
LEMMA NoSlots ==
    LET none == [m \in Node |-> 0]
    IN  IsFiniteSet(Slots(none)) /\ Cardinality(Slots(none)) = 0
<1>1. Slots([m \in Node |-> 0]) = {}
  BY DEF Slots
<1> QED
  BY <1>1, FS_EmptySet

LEMMA EmptyAccounts ==
    ASSUME NEW n \in Node, queue'[n] = <<>>
    PROVE  \E sent : Accounts(n, sent)'
<1> DEFINE none == [m \in Node |-> 0]
<1>1. none \in [Node -> Nat] /\ \A m \in Node : none[m] = 0
  OBVIOUS
<1>2. IsFiniteSet(Slots(none)) /\ Len(queue'[n]) <= Times(Cardinality(Slots(none)), MaxCopies)
  <2>1. Len(queue'[n]) = 0 /\ Times(0, MaxCopies) = 0
    BY NetworkAssumption, TimesNext
  <2> QED
    BY <2>1, NoSlots
<1> HIDE DEF none
<1>3. Accounts(n, none)'
  BY <1>1, <1>2 DEF Accounts, Slots
<1> QED
  BY <1>3

(* A step that adds nothing to the queue, and takes no more time from the  *)
(* last announcement of each machine than it adds to the wait.             *)
LEMMA StillAccounts ==
    ASSUME RoomInv, NetworkInv', events' \in Nat, NEW n \in Node, NEW d \in Int,
           Len(queue'[n]) <= Len(queue[n]), Behind(n) + d <= Behind(n)',
           \A m \in Node : Ago(m)' <= Ago(m) + d
    PROVE  \E sent : Accounts(n, sent)'
<1>1. PICK sent : Accounts(n, sent)
  BY DEF RoomInv
<1>2. NetworkInv /\ events \in Nat
  BY NetworkAssumption DEF RoomInv
<1>3. IsFiniteSet(Slots(sent)) /\ Len(queue'[n]) <= Times(Cardinality(Slots(sent)), MaxCopies)
  <2>1. IsFiniteSet(Slots(sent)) /\ Len(queue[n]) <= Times(Cardinality(Slots(sent)), MaxCopies)
    BY <1>1 DEF Accounts
  <2>2. Times(Cardinality(Slots(sent)), MaxCopies) \in Nat
    BY <2>1, FS_CardinalityType, NetworkAssumption, TimesNext
  <2>3. Len(queue[n]) \in Nat /\ Len(queue'[n]) \in Nat
    BY <1>2, RoomTypes
  <2> QED
    BY <2>1, <2>2, <2>3
<1>4. ASSUME NEW m \in Node, sent[m] # 0
      PROVE  Times(sent[m] - 1, IterationPeriod) + Ago(m)' <= Behind(n)'
  <2>1. sent[m] \in Nat /\ Times(sent[m] - 1, IterationPeriod) + Ago(m) <= Behind(n)
    BY <1>1, <1>4 DEF Accounts
  <2>2. /\ Ago(m) \in Nat /\ Ago(m)' \in Nat /\ Behind(n) \in Int /\ Behind(n)' \in Int
        /\ IterationPeriod \in Nat
    BY <1>2, RoomTypes
  <2>3. Times(sent[m] - 1, IterationPeriod) \in Nat
    BY <1>4, <2>1, <2>2, TimesBefore
  <2>4. Ago(m)' <= Ago(m) + d
    OBVIOUS
  <2> QED
    BY <2>1, <2>2, <2>3, <2>4
<1>5. Accounts(n, sent)'
  BY <1>1, <1>3, <1>4 DEF Accounts, Slots
<1> QED
  BY <1>5

(* An announcement takes a slot of its own, in this or in the last tick.   *)
LEMMA AnnounceAccounts ==
    ASSUME RoomInv, NetworkInv', NEW k \in Node, Announce(k), NEW n \in Node
    PROVE  \E sent : Accounts(n, sent)'
<1>1. Len(queue'[n]) <= Len(queue[n]) + MaxCopies /\ MaxCopies \in Nat
  BY AnnounceQueues, NetworkAssumption DEF RoomInv
<1>2. /\ NetworkInv /\ events \in Nat /\ events' = events /\ elapsed' = elapsed
      /\ phase[k] = "announce" /\ phase' = [phase EXCEPT ![k] = "receive"]
      /\ phase \in [Node -> Phase]
      /\ elapsed[k] = 0
  BY NetworkAssumption DEF RoomInv, Announce, NetworkInv, PhaseOK
<1>3. /\ Ago(k) = IterationPeriod /\ Ago(k)' = 0
      /\ \A m \in Node \ {k} : Ago(m)' = Ago(m)
      /\ Behind(n)' = Behind(n)
  BY <1>2 DEF Ago, Behind, Leftover, Nap
<1>4. /\ IterationPeriod \in Nat /\ Behind(n) \in Int
      /\ \A m \in Node : Ago(m) \in Nat
      /\ Len(queue[n]) \in Nat /\ Len(queue'[n]) \in Nat
  BY <1>2, RoomTypes
<1>5. CASE Len(queue'[n]) <= Len(queue[n])
  <2>1. \A m \in Node : Ago(m)' <= Ago(m) + 0
    BY <1>3, <1>4
  <2> QED
    BY <1>2, <1>3, <1>4, <1>5, <2>1, StillAccounts
<1>6. CASE ~(Len(queue'[n]) <= Len(queue[n]))
  <2>2. PICK sent : Accounts(n, sent)
    BY DEF RoomInv
  <2> DEFINE more == [sent EXCEPT ![k] = @ + 1]
             slot == <<k, sent[k]>>
  <2>3. /\ sent \in [Node -> Nat] /\ more \in [Node -> Nat]
        /\ more[k] = sent[k] + 1 /\ \A m \in Node \ {k} : more[m] = sent[m]
    BY <2>2 DEF Accounts
  <2> HIDE DEF more
  <2>4. Slots(more) = Slots(sent) \cup {slot} /\ slot \notin Slots(sent)
    <3>1. ASSUME NEW s \in Node \X Nat
          PROVE  s[2] < more[s[1]] <=> s[2] < sent[s[1]] \/ s = slot
      BY <2>3
    <3>2. slot \in Node \X Nat /\ ~(slot[2] < sent[slot[1]])
      BY <2>3
    <3> QED
      BY <3>1, <3>2 DEF Slots
  <2>5. IsFiniteSet(Slots(more)) /\ Len(queue'[n]) <= Times(Cardinality(Slots(more)), MaxCopies)
    <3>1. IsFiniteSet(Slots(sent)) /\ Len(queue[n]) <= Times(Cardinality(Slots(sent)), MaxCopies)
      BY <2>2 DEF Accounts
    <3>2. IsFiniteSet(Slots(more)) /\ Cardinality(Slots(more)) = Cardinality(Slots(sent)) + 1
      <4> HIDE DEF slot
      <4>1. /\ IsFiniteSet(Slots(sent) \cup {slot})
            /\ Cardinality(Slots(sent) \cup {slot})
                 = IF slot \in Slots(sent) THEN Cardinality(Slots(sent))
                                           ELSE Cardinality(Slots(sent)) + 1
        BY <3>1, FS_AddElement, Zenon
      <4> QED
        BY <2>4, <4>1, Zenon
    <3>3. Cardinality(Slots(sent)) \in Nat
      BY <3>1, FS_CardinalityType
    <3>4. /\ Times(Cardinality(Slots(more)), MaxCopies)
               = Times(Cardinality(Slots(sent)), MaxCopies) + MaxCopies
          /\ Times(Cardinality(Slots(sent)), MaxCopies) \in Nat
      BY <1>1, <3>2, <3>3, TimesNext
    <3> QED
      BY <1>1, <1>4, <3>1, <3>2, <3>4
  <2>6. ASSUME NEW m \in Node, more[m] # 0
        PROVE  Times(more[m] - 1, IterationPeriod) + Ago(m)' <= Behind(n)'
    <3>1. CASE m # k
      BY <1>3, <2>2, <2>3, <2>6, <3>1 DEF Accounts
    <3>2. CASE m = k /\ sent[k] # 0
      <4>1. Times(sent[k] - 1, IterationPeriod) + IterationPeriod <= Behind(n)
        BY <1>3, <2>2, <3>2 DEF Accounts
      <4>2. sent[k] - 1 \in Nat /\ (sent[k] - 1) + 1 = sent[k] /\ more[k] - 1 = sent[k]
        BY <2>3, <3>2
      <4>3. /\ Times(sent[k], IterationPeriod)
                 = Times(sent[k] - 1, IterationPeriod) + IterationPeriod
            /\ Times(sent[k], IterationPeriod) \in Nat
        BY <1>4, <2>3, <4>2, TimesNext
      <4> QED
        BY <1>3, <1>4, <3>2, <4>1, <4>2, <4>3
    <3>3. CASE m = k /\ sent[k] = 0
      <4>1. more[k] - 1 = 0 /\ Times(0, IterationPeriod) = 0
        BY <1>4, <2>3, <3>3, TimesNext
      <4>2. Behind(n) >= 0
        BY <1>2 DEF RoomInv
      <4> QED
        BY <1>3, <1>4, <3>3, <4>1, <4>2
    <3> QED
      BY <3>1, <3>2, <3>3
  <2>7. Accounts(n, more)'
    BY <2>3, <2>5, <2>6 DEF Accounts, Slots
  <2> QED
    BY <2>7
<1> QED
  BY <1>5, <1>6

(* The end of a window: an early one is an event, and the wait it leads to *)
(* is no longer than a period with its jitter.                             *)
LEMMA FinishBehind ==
    ASSUME RoomInv, NetworkInv', NEW k \in Node, Finish(k), NEW n \in Node
    PROVE  /\ events' \in 0 .. MaxEvents /\ Behind(n) <= Behind(n)'
           /\ Ago(n)' = Ago(n)
<1>1. /\ NetworkInv /\ events \in 0 .. MaxEvents /\ elapsed' = elapsed
      /\ phase[k] = "receive" /\ phase' = [phase EXCEPT ![k] = "sleep"]
      /\ phase \in [Node -> Phase]
      /\ \/ elapsed[k] >= SendingPeriod /\ events' = events
         \/ elapsed[k] < SendingPeriod /\ events < MaxEvents /\ events' = events + 1
  BY DEF RoomInv, Finish, WindowOver, NetworkInv, PhaseOK
<1>2. events' \in 0 .. MaxEvents /\ events \in Nat /\ events' \in Nat
  BY <1>1, NetworkAssumption
<1>3. /\ Nap \in Nat /\ Leftover \in Nat /\ Leftover + SendingPeriod >= Nap
      /\ elapsed[n] \in Nat /\ SendingPeriod \in Nat \ {0}
  BY <1>1, <1>2, RoomTypes, NetworkAssumption
<1>4. /\ Times(events, Nap) \in Nat /\ Times(events', Nap) \in Nat
      /\ events' = events => Times(events', Nap) = Times(events, Nap)
      /\ events' = events + 1 => Times(events', Nap) = Times(events, Nap) + Nap
  BY <1>2, <1>3, TimesNext
<1>5. Behind(n)' = Times(events', Nap) +
          (IF phase'[n] = "sleep"
           THEN Leftover - (IF elapsed[n] < Nap THEN Nap - elapsed[n] ELSE 0)
           ELSE IF phase'[n] = "receive" /\ elapsed[n] > 0 THEN 0 ELSE Leftover)
  BY <1>1 DEF Behind, Leftover, Nap
<1>6. CASE n # k
  <2>1. Behind(n) = Times(events, Nap) +
            (IF phase[n] = "sleep"
             THEN Leftover - (IF elapsed[n] < Nap THEN Nap - elapsed[n] ELSE 0)
             ELSE IF phase[n] = "receive" /\ elapsed[n] > 0 THEN 0 ELSE Leftover)
    BY DEF Behind
  <2>2. phase'[n] = phase[n]
    BY <1>1, <1>6
  <2>3. Ago(n)' = Ago(n)
    BY <1>1, <2>2 DEF Ago
  <2> QED
    BY <1>1, <1>2, <1>3, <1>4, <1>5, <2>1, <2>2, <2>3
<1>7. CASE n = k
  <2>1. /\ Behind(n) = Times(events, Nap) + (IF elapsed[n] > 0 THEN 0 ELSE Leftover)
        /\ Behind(n)' = Times(events', Nap) + Leftover
                          - (IF elapsed[n] < Nap THEN Nap - elapsed[n] ELSE 0)
    BY <1>1, <1>3, <1>4, <1>5, <1>7 DEF Behind
  <2>2. Ago(n)' = Ago(n)
    BY <1>1, <1>7 DEF Ago
  <2> QED
    BY <1>1, <1>2, <1>3, <1>4, <1>7, <2>1, <2>2
<1> QED
  BY <1>2, <1>6, <1>7

(* A crash, or a change, is an event.                                      *)
LEMMA EventBehind ==
    ASSUME RoomInv, NetworkInv', NEW k \in Node, Crash(k) \/ Reconfigure(k),
           NEW n \in Node, n # k \/ Reconfigure(k)
    PROVE  Behind(n)' = Behind(n) + Nap
<1>1. /\ NetworkInv /\ events \in Nat /\ events' = events + 1
      /\ phase'[n] = phase[n] /\ elapsed'[n] = elapsed[n]
  BY NetworkAssumption DEF RoomInv, Crash, Reconfigure, NetworkInv, PhaseOK
<1>2. Nap \in Nat /\ Leftover \in Nat /\ elapsed[n] \in Nat
  BY <1>1, RoomTypes
<1>3. Times(events', Nap) = Times(events, Nap) + Nap /\ Times(events, Nap) \in Nat
  BY <1>1, <1>2, TimesNext
<1>4. Behind(n)' = Times(events', Nap) +
          (IF phase[n] = "sleep"
           THEN Leftover - (IF elapsed[n] < Nap THEN Nap - elapsed[n] ELSE 0)
           ELSE IF phase[n] = "receive" /\ elapsed[n] > 0 THEN 0 ELSE Leftover)
  BY <1>1 DEF Behind, Leftover, Nap
<1> QED
  BY <1>2, <1>3, <1>4 DEF Behind

LEMMA CrashAgo ==
    ASSUME RoomInv, NetworkInv', NEW k \in Node, Crash(k) \/ Reconfigure(k), NEW m \in Node
    PROVE  Ago(m)' <= Ago(m) + Nap
<1>1. /\ NetworkInv /\ events \in Nat /\ events' \in Nat
      /\ Crash(k) => phase' = [phase EXCEPT ![k] = "off"] /\ elapsed' = [elapsed EXCEPT ![k] = 0]
      /\ Reconfigure(k) => phase' = phase /\ elapsed' = elapsed
      /\ phase \in [Node -> Phase]
      /\ elapsed \in [Node -> Nat]
  BY NetworkAssumption DEF RoomInv, Crash, Reconfigure, NetworkInv, PhaseOK
<1>2. Ago(m) \in Nat /\ Ago(m)' \in Nat /\ Nap \in Nat /\ IterationPeriod \in Nat
      /\ IterationPeriod <= Nap
  BY <1>1, RoomTypes
<1>3. Ago(m)' = Ago(m) \/ Ago(m)' = IterationPeriod
  BY <1>1 DEF Ago
<1> QED
  BY <1>2, <1>3

LEMMA RoomFrame ==
    ASSUME RoomInv, NetworkInv', events' \in 0 .. MaxEvents, NEW n \in Node, NEW d \in Nat,
           Len(queue'[n]) <= Len(queue[n]), Behind(n) + d <= Behind(n)',
           \A m \in Node : Ago(m)' <= Ago(m) + d
    PROVE  Behind(n)' >= 0 /\ \E sent : Accounts(n, sent)'
<1>1. events' \in Nat /\ NetworkInv /\ events \in Nat
  BY NetworkAssumption DEF RoomInv
<1>2. Behind(n) >= 0 /\ Behind(n) \in Int /\ Behind(n)' \in Int
  BY <1>1, RoomTypes DEF RoomInv
<1>3. Behind(n)' >= 0
  BY <1>2
<1>4. d \in Int
  OBVIOUS
<1>5. \E sent : Accounts(n, sent)'
  BY <1>1, <1>4, StillAccounts
<1> QED
  BY <1>3, <1>5

LEMMA RoomSame ==
    ASSUME RoomInv, NetworkInv', events' \in 0 .. MaxEvents, NEW n \in Node,
           Len(queue'[n]) <= Len(queue[n]), Behind(n) <= Behind(n)',
           \A m \in Node : Ago(m)' <= Ago(m)
    PROVE  Behind(n)' >= 0 /\ \E sent : Accounts(n, sent)'
<1>1. events' \in Nat /\ NetworkInv /\ events \in Nat
  BY NetworkAssumption DEF RoomInv
<1>2. Behind(n) \in Int /\ \A m \in Node : Ago(m) \in Nat
  BY <1>1, RoomTypes
<1>3. Behind(n) + 0 <= Behind(n)' /\ \A m \in Node : Ago(m)' <= Ago(m) + 0
  BY <1>2
<1>4. 0 \in Nat
  OBVIOUS
<1> QED
  BY <1>3, <1>4, RoomFrame

(* A wake-up ends a wait of a period, in which time did not stand still.   *)
LEMMA WakeUpBehind ==
    ASSUME RoomInv, NetworkInv', NEW k \in Node, WakeUp(k), NEW n \in Node
    PROVE  Behind(n) <= Behind(n)' /\ Ago(n)' <= Ago(n)
<1>1. /\ NetworkInv /\ events \in Nat /\ events' = events
      /\ phase \in [Node -> Phase] /\ elapsed \in [Node -> Nat]
      /\ phase[k] = "sleep" /\ elapsed[k] >= IterationPeriod
      /\ phase' = [phase EXCEPT ![k] = "announce"]
      /\ elapsed' = [elapsed EXCEPT ![k] = 0]
  BY NetworkAssumption DEF RoomInv, NetworkInv, PhaseOK, WakeUp
<1>2. /\ Nap \in Nat /\ Leftover \in Nat /\ elapsed[n] \in Nat /\ Times(events, Nap) \in Nat
      /\ Behind(n) \in Int /\ Ago(n) \in Nat /\ IterationPeriod \in Nat
  BY <1>1, RoomTypes, TimesNext
<1>3. CASE n # k
  <2>1. Behind(n)' = Behind(n) /\ Ago(n)' = Ago(n)
    BY <1>1, <1>3 DEF Behind, Ago, Leftover, Nap
  <2> QED
    BY <1>2, <2>1
<1>4. CASE n = k
  <2>1. Ago(n) = elapsed[n] /\ Ago(n)' = IterationPeriod
    BY <1>1, <1>4 DEF Ago
  <2>2. Behind(n) = Times(events, Nap)
                      + (Leftover - (IF elapsed[n] < Nap THEN Nap - elapsed[n] ELSE 0))
    BY <1>1, <1>4 DEF Behind
  <2>3. Behind(n)' = Times(events, Nap) + Leftover
    BY <1>1, <1>4 DEF Behind, Leftover, Nap
  <2> QED
    BY <1>1, <1>2, <1>4, <2>1, <2>2, <2>3
<1> QED
  BY <1>3, <1>4

(* A tick ages what is queued where the daemon is asleep, and nothing else.*)
LEMMA TickAccounts ==
    ASSUME RoomInv, NetworkInv', Tick, NEW n \in Node
    PROVE  /\ Behind(n)' >= 0 /\ \E sent : Accounts(n, sent)'
           /\ IF phase[n] = "sleep" THEN Behind(n)' = Behind(n) + 1 ELSE queue[n] = <<>>
<1>1. /\ NetworkInv /\ events \in Nat /\ events' = events /\ phase' = phase /\ queue' = queue
      /\ phase \in [Node -> Phase] /\ elapsed \in [Node -> Nat]
      /\ elapsed' = [m \in Node |-> IF m \in Running THEN elapsed[m] + 1 ELSE 0]
      /\ \A m \in Node : Waits(m)
  BY NetworkAssumption DEF RoomInv, Tick, NetworkInv, PhaseOK
<1>2. /\ Nap \in Nat /\ Leftover \in Nat /\ elapsed[n] \in Nat /\ Behind(n) \in Int
      /\ Behind(n)' \in Int /\ Len(queue[n]) \in Nat /\ Times(events, Nap) \in Nat
      /\ Behind(n) >= 0
  BY <1>1, RoomTypes, TimesNext DEF RoomInv
<1>3. Behind(n)' = Times(events, Nap) +
          (IF phase[n] = "sleep"
           THEN Leftover - (IF elapsed'[n] < Nap THEN Nap - elapsed'[n] ELSE 0)
           ELSE IF phase[n] = "receive" /\ elapsed'[n] > 0 THEN 0 ELSE Leftover)
  BY <1>1 DEF Behind, Leftover, Nap
<1>4. CASE phase[n] # "sleep"
  <2>1. queue'[n] = <<>>
    BY <1>1, <1>4 DEF Waits, RoomInv
  <2>2. Behind(n)' >= 0
    BY <1>2, <1>3, <1>4
  <2> QED
    BY <1>1, <1>4, <2>1, <2>2, EmptyAccounts
<1>5. CASE phase[n] = "sleep"
  <2>1. elapsed'[n] = elapsed[n] + 1 /\ elapsed[n] < Nap
    BY <1>1, <1>5 DEF Waits, Running, Nap
  <2>2. Behind(n)' = Behind(n) + 1
    <3>1. Behind(n) = Times(events, Nap) +
              (IF phase[n] = "sleep"
               THEN Leftover - (IF elapsed[n] < Nap THEN Nap - elapsed[n] ELSE 0)
               ELSE IF phase[n] = "receive" /\ elapsed[n] > 0 THEN 0 ELSE Leftover)
      BY DEF Behind
    <3>2. Behind(n) = Times(events, Nap) + (Leftover - (Nap - elapsed[n]))
      BY <1>5, <2>1, <3>1
    <3>3. (IF elapsed'[n] < Nap THEN Nap - elapsed'[n] ELSE 0) = Nap - elapsed[n] - 1
      BY <1>2, <2>1
    <3>4. Behind(n)' = Times(events, Nap) + (Leftover - (Nap - elapsed[n] - 1))
      BY <1>3, <1>5, <3>3
    <3>5. /\ Nap \in Int /\ Leftover \in Int /\ elapsed[n] \in Int /\ Times(events, Nap) \in Int
      BY <1>2
    <3>6. ASSUME NEW t \in Int, NEW l \in Int, NEW p \in Int, NEW e \in Int
          PROVE  t + (l - (p - e - 1)) = (t + (l - (p - e))) + 1
      OBVIOUS
    <3> QED
      BY <3>2, <3>4, <3>5, <3>6
  <2>3. ASSUME NEW m \in Node
        PROVE  Ago(m)' <= Ago(m) + 1
    <3>1. elapsed[m] \in Nat /\ IterationPeriod \in Nat
      BY <1>1, NetworkAssumption
    <3> QED
      BY <1>1, <3>1 DEF Ago, Running
  <2>4. \E sent : Accounts(n, sent)'
    BY <1>1, <1>2, <2>2, <2>3, StillAccounts
  <2> QED
    BY <1>2, <1>5, <2>2, <2>4
<1> QED
  BY <1>4, <1>5

LEMMA RoomNext == RoomInv /\ [Next]_vars => RoomInv'
<1> SUFFICES ASSUME RoomInv, [Next]_vars PROVE RoomInv'
  OBVIOUS
<1>0. /\ NetworkInv /\ NetworkInv' /\ events \in 0 .. MaxEvents /\ events \in Nat
      /\ phase \in [Node -> Phase] /\ elapsed \in [Node -> Nat]
      /\ queue \in [Node -> Seq(Seq(NetInterfaceType))]
      /\ MaxEvents \in Nat
  BY NetworkNext, NetworkAssumption DEF RoomInv, NetworkInv, PhaseOK, QueueOK
<1>1. ASSUME NEW k \in Node, Boot(k)
      PROVE  RoomInv'
  <2>1. /\ phase[k] = "off" /\ phase' = [phase EXCEPT ![k] = "announce"]
        /\ UNCHANGED <<elapsed, queue, events>>
    BY <1>1 DEF Boot
  <2>2. ASSUME NEW n \in Node
        PROVE  Behind(n)' = Behind(n) /\ Ago(n)' = Ago(n)
    BY <1>0, <2>1 DEF Behind, Ago, Leftover, Nap
  <2>3. ASSUME NEW n \in Node
        PROVE  Behind(n)' >= 0 /\ \E sent : Accounts(n, sent)'
    <3>1. /\ events \in Nat /\ events' \in Nat
          /\ Behind(n) \in Int /\ \A m \in Node : Ago(m) \in Nat
      BY <1>0, <2>1, RoomTypes
    <3>2. Behind(n) <= Behind(n)' /\ \A m \in Node : Ago(m)' <= Ago(m)
      BY <2>2, <3>1
    <3>3. Len(queue'[n]) <= Len(queue[n])
      BY <1>0, <2>1
    <3> QED
      BY <1>0, <2>1, <3>2, <3>3, RoomSame
  <2> QED
    BY <1>0, <2>1, <2>3 DEF RoomInv
<1>2. ASSUME NEW k \in Node, Announce(k)
      PROVE  RoomInv'
  <2>1. /\ phase[k] = "announce" /\ phase' = [phase EXCEPT ![k] = "receive"]
        /\ UNCHANGED <<elapsed, events>> /\ elapsed[k] = 0
    BY <1>0, <1>2 DEF Announce, NetworkInv, PhaseOK
  <2>2. ASSUME NEW n \in Node
        PROVE  Behind(n)' = Behind(n)
    BY <1>0, <2>1 DEF Behind, Leftover, Nap
  <2>3. ASSUME NEW n \in Node, phase'[n] = "off"
        PROVE  queue'[n] = <<>>
    <3>1. phase[n] = "off"
      BY <1>0, <2>1, <2>3
    <3>2. queue'[n] = queue[n]
      BY <1>0, <1>2, <3>1, AnnounceQueues DEF RoomInv, Running
    <3> QED
      BY <3>1, <3>2 DEF RoomInv
  <2> QED
    BY <1>0, <1>2, <2>1, <2>2, <2>3, AnnounceAccounts DEF RoomInv
<1>3. ASSUME NEW k \in Node, Receive(k)
      PROVE  RoomInv'
  <2>1. /\ phase[k] = "receive" /\ queue[k] # <<>> /\ queue' = [queue EXCEPT ![k] = Tail(@)]
        /\ UNCHANGED <<phase, elapsed, events>>
    BY <1>3 DEF Receive
  <2>2. ASSUME NEW n \in Node
        PROVE  Behind(n)' = Behind(n) /\ Ago(n)' = Ago(n)
    BY <2>1 DEF Behind, Ago, Leftover, Nap
  <2>3. ASSUME NEW n \in Node
        PROVE  Len(queue'[n]) <= Len(queue[n])
    BY <1>0, <2>1
  <2>4. ASSUME NEW n \in Node
        PROVE  Behind(n)' >= 0 /\ \E sent : Accounts(n, sent)'
    <3>1. /\ events \in Nat /\ events' \in Nat
          /\ Behind(n) \in Int /\ \A m \in Node : Ago(m) \in Nat
      BY <1>0, <2>1, RoomTypes
    <3>2. Behind(n) <= Behind(n)' /\ \A m \in Node : Ago(m)' <= Ago(m)
      BY <2>2, <3>1
    <3> QED
      BY <1>0, <2>1, <2>3, <3>2, RoomSame
  <2>5. \A n \in Node : phase'[n] = "off" => queue'[n] = <<>>
    BY <1>0, <2>1 DEF RoomInv
  <2> QED
    BY <1>0, <2>1, <2>4, <2>5 DEF RoomInv
<1>4. ASSUME NEW k \in Node, Finish(k)
      PROVE  RoomInv'
  <2>1. phase' = [phase EXCEPT ![k] = "sleep"] /\ queue' = queue
    BY <1>4 DEF Finish
  <2>2. events' \in 0 .. MaxEvents /\ events' \in Nat
    BY <1>0, <1>4, FinishBehind
  <2>3. ASSUME NEW n \in Node
        PROVE  Behind(n)' >= 0 /\ \E sent : Accounts(n, sent)'
    <3>1. Behind(n) <= Behind(n)'
      BY <1>0, <1>4, FinishBehind
    <3>2. ASSUME NEW m \in Node
          PROVE  Ago(m)' <= Ago(m)
      <4>1. Ago(m)' = Ago(m)
        BY <1>0, <1>4, FinishBehind
      <4>2. Ago(m) \in Nat
        BY <1>0, <2>2, RoomTypes
      <4> QED
        BY <4>1, <4>2
    <3>3. Len(queue'[n]) <= Len(queue[n])
      BY <1>0, <2>1
    <3> QED
      BY <1>0, <2>2, <3>1, <3>2, <3>3, RoomSame
  <2>4. \A n \in Node : phase'[n] = "off" => queue'[n] = <<>>
    BY <1>0, <2>1 DEF RoomInv
  <2> QED
    BY <1>0, <2>2, <2>3, <2>4 DEF RoomInv
<1>5. ASSUME NEW k \in Node, WakeUp(k)
      PROVE  RoomInv'
  <2>1. /\ phase[k] = "sleep" /\ elapsed[k] >= IterationPeriod
        /\ phase' = [phase EXCEPT ![k] = "announce"]
        /\ elapsed' = [elapsed EXCEPT ![k] = 0]
        /\ UNCHANGED <<queue, events>>
    BY <1>5 DEF WakeUp
  <2>2. ASSUME NEW n \in Node
        PROVE  Behind(n) <= Behind(n)' /\ Ago(n)' <= Ago(n)
    BY <1>0, <1>5, WakeUpBehind
  <2>3. ASSUME NEW n \in Node
        PROVE  Behind(n)' >= 0 /\ \E sent : Accounts(n, sent)'
    <3>1. Len(queue'[n]) <= Len(queue[n])
      BY <1>0, <2>1
    <3> QED
      BY <1>0, <2>1, <2>2, <3>1, RoomSame
  <2>4. \A n \in Node : phase'[n] = "off" => queue'[n] = <<>>
    BY <1>0, <2>1 DEF RoomInv
  <2> QED
    BY <1>0, <2>1, <2>3, <2>4 DEF RoomInv
<1>6. ASSUME NEW k \in Node, Crash(k) \/ Reconfigure(k)
      PROVE  RoomInv'
  <2>1. /\ events < MaxEvents /\ events' = events + 1
        /\ Crash(k) => /\ phase' = [phase EXCEPT ![k] = "off"]
                       /\ elapsed' = [elapsed EXCEPT ![k] = 0]
                       /\ queue' = [queue EXCEPT ![k] = <<>>]
        /\ Reconfigure(k) => UNCHANGED <<phase, elapsed, queue>>
    BY <1>6 DEF Crash, Reconfigure
  <2>2. events' \in 0 .. MaxEvents /\ events' \in Nat
    BY <1>0, <2>1
  <2>3. ASSUME NEW n \in Node
        PROVE  Behind(n)' >= 0 /\ \E sent : Accounts(n, sent)'
    <3>1. /\ Behind(n) >= 0 /\ Behind(n) \in Int /\ Behind(n)' \in Int
          /\ Nap \in Nat /\ Leftover \in Nat /\ Times(events', Nap) \in Nat
      BY <1>0, <2>2, RoomTypes, TimesNext DEF RoomInv
    <3>2. CASE n # k \/ Reconfigure(k)
      <4>1. Behind(n)' = Behind(n) + Nap
        BY <1>0, <1>6, <3>2, EventBehind
      <4>2. \A m \in Node : Ago(m)' <= Ago(m) + Nap
        BY <1>0, <1>6, CrashAgo
      <4>3. queue'[n] = queue[n] /\ Len(queue[n]) \in Nat
        BY <1>0, <1>6, <2>1, <3>2
      <4>4. Len(queue'[n]) <= Len(queue[n])
        BY <4>3
      <4>5. Behind(n) + Nap <= Behind(n)' /\ Nap \in Nat
        BY <3>1, <4>1
      <4> QED
        BY <1>0, <2>2, <4>2, <4>4, <4>5, RoomFrame
    <3>3. CASE n = k /\ Crash(k)
      <4>1. queue'[n] = <<>> /\ phase'[n] = "off"
        BY <1>0, <2>1, <3>3
      <4>2. Behind(n)' = Times(events', Nap) + Leftover
        BY <4>1 DEF Behind, Leftover, Nap
      <4> QED
        BY <3>1, <4>1, <4>2, EmptyAccounts
    <3> QED
      BY <1>6, <3>2, <3>3
  <2>4. \A n \in Node : phase'[n] = "off" => queue'[n] = <<>>
    BY <1>0, <1>6, <2>1 DEF RoomInv
  <2> QED
    BY <1>0, <2>2, <2>3, <2>4 DEF RoomInv
<1>7. CASE Tick
  <2>1. phase' = phase /\ queue' = queue /\ events' = events
    BY <1>7 DEF Tick
  <2> QED
    BY <1>0, <1>7, <2>1, TickAccounts DEF RoomInv
<1>8. CASE UNCHANGED vars
  <2>1. phase' = phase /\ queue' = queue /\ events' = events /\ elapsed' = elapsed
    BY <1>8 DEF vars
  <2>2. ASSUME NEW n \in Node
        PROVE  Behind(n)' = Behind(n) /\ Ago(n)' = Ago(n)
    BY <2>1 DEF Behind, Ago, Leftover, Nap
  <2>3. ASSUME NEW n \in Node
        PROVE  Behind(n)' >= 0 /\ \E sent : Accounts(n, sent)'
    <3>1. /\ events \in Nat /\ events' \in Nat
          /\ Behind(n) \in Int /\ \A m \in Node : Ago(m) \in Nat
      BY <1>0, <2>1, RoomTypes
    <3>2. Behind(n) <= Behind(n)' /\ \A m \in Node : Ago(m)' <= Ago(m)
      BY <2>2, <3>1
    <3>3. Len(queue'[n]) <= Len(queue[n])
      BY <1>0, <2>1
    <3> QED
      BY <1>0, <2>1, <3>2, <3>3, RoomSame
  <2> QED
    BY <1>0, <2>1, <2>3 DEF RoomInv
<1> QED
  BY <1>1, <1>2, <1>3, <1>4, <1>5, <1>6, <1>7, <1>8 DEF Next, NodeStep

LEMMA RoomInit == Init => RoomInv
<1> SUFFICES ASSUME Init PROVE RoomInv
  OBVIOUS
<1>1. NetworkInv
  BY NetworkInit
<1>2. /\ events = 0 /\ phase = [n \in Node |-> "off"] /\ queue = [n \in Node |-> <<>>]
  BY DEF Init
<1>3. events \in 0 .. MaxEvents
  BY <1>2, NetworkAssumption
<1>4. ASSUME NEW n \in Node
      PROVE  Behind(n) >= 0
  <2>1. Nap \in Nat /\ Leftover \in Nat
    BY NetworkAssumption DEF Nap, Leftover
  <2>2. Times(0, Nap) = 0
    BY <2>1, TimesNext
  <2>3. Behind(n) = Times(0, Nap) + Leftover
    BY <1>2 DEF Behind
  <2> QED
    BY <2>1, <2>2, <2>3
<1>5. ASSUME NEW n \in Node
      PROVE  \E sent : Accounts(n, sent)
  <2> DEFINE none == [m \in Node |-> 0]
  <2>1. none \in [Node -> Nat] /\ \A m \in Node : none[m] = 0
    OBVIOUS
  <2>2. Len(queue[n]) = 0
    BY <1>2
  <2>3. /\ IsFiniteSet(Slots(none)) /\ Cardinality(Slots(none)) = 0
        /\ Times(0, MaxCopies) = 0
    BY NoSlots, NetworkAssumption, TimesNext
  <2> HIDE DEF none
  <2>4. Accounts(n, none)
    BY <2>1, <2>2, <2>3 DEF Accounts
  <2> QED
    BY <2>4
<1> QED
  BY <1>1, <1>2, <1>3, <1>4, <1>5 DEF RoomInv

(* The slots that fit in the time are not more than the queue holds.       *)
LEMMA RoomEnough ==
    ASSUME Roomy, RoomInv
    PROVE  QueuesHaveRoom
<1> SUFFICES ASSUME NEW n \in Node PROVE Len(queue[n]) < RxCapacity
  BY DEF QueuesHaveRoom
<1>1. PICK K \in Nat : /\ Times(Cardinality(Node) * K, MaxCopies) < RxCapacity
                       /\ Times(MaxEvents, Nap) + Leftover < Times(K, IterationPeriod)
  BY DEF Roomy
<1>2. PICK sent : Accounts(n, sent)
  BY DEF RoomInv
<1>3. /\ Nap \in Nat /\ Leftover \in Nat /\ IterationPeriod \in Nat \ {0}
      /\ MaxEvents \in Nat /\ events \in Nat /\ events <= MaxEvents
      /\ Times(MaxEvents, Nap) \in Nat /\ Times(events, Nap) \in Nat
      /\ Times(events, Nap) <= Times(MaxEvents, Nap)
  <2>1. /\ Nap \in Nat /\ Leftover \in Nat /\ IterationPeriod \in Nat \ {0}
        /\ MaxEvents \in Nat /\ events \in Nat /\ events <= MaxEvents
    BY NetworkAssumption DEF RoomInv, Nap, Leftover
  <2> QED
    BY <2>1, TimesNext, TimesMonotonic
<1>4. elapsed[n] \in Nat /\ \A m \in Node : Ago(m) \in Nat
  BY <1>3 DEF RoomInv, NetworkInv, PhaseOK, Ago
<1>5. Behind(n) <= Times(MaxEvents, Nap) + Leftover /\ Behind(n) \in Int
  BY <1>3, <1>4 DEF Behind
<1>6. ASSUME NEW m \in Node
      PROVE  sent[m] \in Nat /\ sent[m] <= K
  <2>1. sent[m] \in Nat
    BY <1>2 DEF Accounts
  <2>2. ASSUME K < sent[m]
        PROVE  FALSE
    <3>1. Times(sent[m] - 1, IterationPeriod) + Ago(m) <= Behind(n)
      BY <1>1, <1>2, <2>1, <2>2 DEF Accounts
    <3>2. sent[m] - 1 \in Nat /\ K <= sent[m] - 1
      BY <1>1, <2>1, <2>2
    <3>3. /\ Times(K, IterationPeriod) <= Times(sent[m] - 1, IterationPeriod)
          /\ Times(K, IterationPeriod) \in Nat /\ Times(sent[m] - 1, IterationPeriod) \in Nat
      BY <1>1, <1>3, <3>2, TimesNext, TimesMonotonic
    <3>4. Ago(m) \in Nat
      BY <1>4
    <3> QED
      BY <1>1, <1>3, <1>5, <3>1, <3>3, <3>4
  <2> QED
    BY <1>1, <2>1, <2>2
<1>7. Slots(sent) \subseteq Node \X (0 .. K - 1)
  <2>1. ASSUME NEW s \in Slots(sent)
        PROVE  s \in Node \X (0 .. K - 1)
    <3>1. s \in Node \X Nat /\ s[2] < sent[s[1]]
      BY DEF Slots
    <3>2. sent[s[1]] \in Nat /\ sent[s[1]] <= K
      BY <1>6, <3>1
    <3>3. s[2] \in 0 .. K - 1
      BY <1>1, <3>1, <3>2
    <3> QED
      BY <3>1, <3>3
  <2> QED
    BY <2>1
<1>8. /\ IsFiniteSet(Node \X (0 .. K - 1))
      /\ Cardinality(Node \X (0 .. K - 1)) = Cardinality(Node) * K
  <2>1. IsFiniteSet(0 .. K - 1) /\ Cardinality(0 .. K - 1) = K
    <3>1. 0 \in Int /\ K - 1 \in Int
      BY <1>1
    <3>2. /\ IsFiniteSet(0 .. K - 1)
          /\ Cardinality(0 .. K - 1) = IF 0 > K - 1 THEN 0 ELSE (K - 1) - 0 + 1
      BY <3>1, FS_Interval
    <3> QED
      BY <1>1, <3>2
  <2>2. IsFiniteSet(Node)
    BY DEF Roomy
  <2> QED
    BY <2>1, <2>2, FS_Product
<1>9. /\ Cardinality(Slots(sent)) <= Cardinality(Node) * K /\ Cardinality(Slots(sent)) \in Nat
      /\ Cardinality(Node) * K \in Nat
  <2>1. IsFiniteSet(Slots(sent))
    BY <1>2 DEF Accounts
  <2>2. Cardinality(Slots(sent)) <= Cardinality(Node \X (0 .. K - 1))
    BY <1>7, <1>8, FS_Subset
  <2>3. Cardinality(Slots(sent)) \in Nat /\ Cardinality(Node \X (0 .. K - 1)) \in Nat
    BY <1>8, <2>1, FS_CardinalityType
  <2> QED
    BY <1>8, <2>2, <2>3
<1>10. Len(queue[n]) \in Nat /\ Len(queue[n]) <= Times(Cardinality(Slots(sent)), MaxCopies)
  <2>1. queue[n] \in Seq(Seq(NetInterfaceType))
    BY DEF RoomInv, NetworkInv, QueueOK
  <2> QED
    BY <1>2, <2>1 DEF Accounts
<1>11. /\ Times(Cardinality(Slots(sent)), MaxCopies) <= Times(Cardinality(Node) * K, MaxCopies)
       /\ Times(Cardinality(Slots(sent)), MaxCopies) \in Nat
       /\ Times(Cardinality(Node) * K, MaxCopies) \in Nat
  BY <1>9, NetworkAssumption, TimesNext, TimesMonotonic
<1> QED
  BY <1>1, <1>10, <1>11, NetworkAssumption

(* No announcement finds a full queue (QueuesHaveRoom), for any machines,  *)
(* losses and jitter, however their iterations overlap: if a queue holds   *)
(* what can be sent, all copies included (IPMulticastSender.hpp:191-217),  *)
(* while one announcement waits for the iterations that requests end after *)
(* one datagram (lines 170-261).                                           *)
THEOREM RoomForAnnouncements ==
    ASSUME Roomy
    PROVE  SafetySpec => []QueuesHaveRoom
<1>1. Init => RoomInv
  BY RoomInit
<1>2. RoomInv /\ [Next]_vars => RoomInv'
  BY RoomNext
<1>3. RoomInv => QueuesHaveRoom
  BY RoomEnough
<1> QED
  BY <1>1, <1>2, <1>3, PTL DEF SafetySpec

(* With such queues a steady machine is kept on no other premise than that *)
(* the interfaces stay.                                                    *)
THEOREM SteadyKeptWithRoom ==
    ASSUME Generous, Roomy
    PROVE  SafetySpec /\ [][links' = links]_vars => []SteadyNeighborsKept
<1>1. SafetySpec => []QueuesHaveRoom
  BY RoomForAnnouncements
<1>2. SafetySpec /\ []QueuesHaveRoom /\ [][links' = links]_vars => []SteadyNeighborsKept
  BY SteadyKept
<1> QED
  BY <1>1, <1>2, PTL

-----------------------------------------------------------------------------
(* How long what is gone stays listed.                                     *)

(* What a running machine announces, the interfaces of it that are kept,   *)
(* and what a machine should list.                                         *)
Announced == {Interfaces(m) : m \in Running}
Sendable == UNION {Sent(m) : m \in Running}
Due(n) == UNION {Visible(n, m) : m \in Running}

(* What is left of an iteration that a request may have ended.             *)
Left(t) == IF t < Nap THEN Nap - t ELSE 0

(* How long an entry of this age can have been in the table of a daemon    *)
(* that is in phase p, t after its iteration started: until the update     *)
(* after it is too old, and less of it while a request cut the iteration.  *)
Rest(p, t, age) ==
    IF age <= ActivityPeriod
    THEN IF p = "sleep" /\ Left(t) > Leftover THEN age + Leftover - Left(t) ELSE age
    ELSE IF p = "sleep" THEN ActivityPeriod + Leftover - Left(t)
         ELSE IF p = "receive" THEN ActivityPeriod + Leftover + t
         ELSE ActivityPeriod + Leftover

(* What is stale in a queue is no older than the wait there, ...           *)
QueueGhosts(n) ==
    \A i \in DOMAIN queue[n] :
        queue[n][i] \notin Announced => quiet + Nap <= Behind(n)

(* ... in receivedNifs, than the wait and the window so far, ...           *)
ReceivedGhosts(n) ==
    /\ phase[n] # "receive" => received[n] = {}
    /\ \A r \in received[n] :
          r \notin Sendable => quiet + Nap <= Times(events, Nap) + Leftover + elapsed[n]

(* ... the interfaces the iteration started with, than the window, ...     *)
NifsGhosts(n) ==
    phase[n] = "receive" /\ nifs[n] # Interfaces(n) =>
        quiet + Nap <= Times(events, Nap) + elapsed[n]

(* ... and in the table, than that and the entry's age.                    *)
TableGhosts(n) ==
    /\ phase[n] = "off" => neighbors[n] = {}
    /\ \A e \in neighbors[n] :
          e.data \notin Due(n) =>
              quiet + Nap <= Times(events, Nap) + Leftover + Gap
                                 + Rest(phase[n], elapsed[n], e.age)

Ghosts(n) == QueueGhosts(n) /\ ReceivedGhosts(n) /\ NifsGhosts(n) /\ TableGhosts(n)

GhostInv == RoomInv /\ quiet \in Nat /\ \A n \in Node : Ghosts(n)

LEMMA SpanTypes ==
    /\ Nap \in Nat /\ Leftover \in Nat /\ Gap \in Nat /\ Leftover <= Nap
    /\ Leftover + SendingPeriod >= Nap /\ SendingPeriod <= Gap
    /\ SendingPeriod \in Nat /\ ActivityPeriod \in Nat /\ IterationPeriod \in Nat \ {0}
BY NetworkAssumption DEF Nap, Leftover, Gap

LEMMA RestType ==
    ASSUME NEW p, NEW t \in Nat, NEW age \in Nat
    PROVE  /\ Left(t) \in Nat /\ Left(t) <= Nap /\ Rest(p, t, age) \in Int
           /\ Rest(p, t, age) + Leftover + Gap >= 0
           /\ p # "receive" \/ t <= Gap
                 => Rest(p, t, age) <= ActivityPeriod + Leftover + Gap
<1>1. Left(t) \in Nat /\ Left(t) <= Nap
  BY SpanTypes DEF Left
<1> QED
  BY <1>1, SpanTypes DEF Rest

(* A tick makes room for itself: the entry gets older, or too old.         *)
LEMMA RestTick ==
    ASSUME NEW p, NEW t \in Nat, NEW age \in Nat, NEW older \in Nat,
           p = "receive" \/ (p = "sleep" /\ t < Nap),
           older = age + 1 \/ (older = age /\ age > ActivityPeriod)
    PROVE  Rest(p, t, age) + 1 <= Rest(p, t + 1, older)
<1>1. Left(t) \in Nat /\ Left(t + 1) \in Nat
  BY SpanTypes DEF Left
<1>2. CASE p = "receive"
  BY <1>2, SpanTypes DEF Rest
<1>3. CASE p = "sleep" /\ t < Nap
  <2>1. Left(t) = Left(t + 1) + 1
    BY <1>3, SpanTypes DEF Left
  <2> QED
    BY <1>1, <1>3, <2>1, SpanTypes DEF Rest
<1> QED
  BY <1>2, <1>3

(* The end of a sleep takes nothing away, that of a window what is then    *)
(* left of the iteration, and only if a request ended it.                  *)
LEMMA RestSteps ==
    ASSUME NEW t \in Nat, NEW age \in Nat
    PROVE  /\ Rest("sleep", t, age) <= Rest("announce", 0, age)
           /\ Rest("announce", 0, age) <= Rest("receive", 0, age)
           /\ age <= ActivityPeriod =>
                 /\ Rest("receive", t, age) = age
                 /\ age <= Rest("sleep", t, age) + Nap
                 /\ t >= SendingPeriod => Rest("sleep", t, age) = age
<1>1. Left(t) \in Nat /\ Left(t) <= Nap
  BY SpanTypes DEF Left
<1>2. t >= SendingPeriod => Left(t) <= Leftover
  BY SpanTypes DEF Left
<1> QED
  BY <1>1, <1>2, SpanTypes DEF Rest

LEMMA GhostTypes ==
    ASSUME GhostInv, NetworkInv', events' \in Nat, NEW n \in Node
    PROVE  /\ Times(events, Nap) \in Nat /\ Times(events', Nap) \in Nat
           /\ elapsed[n] \in Nat /\ elapsed'[n] \in Nat /\ quiet \in Nat
           /\ phase[n] = "receive" => elapsed[n] <= Gap
           /\ Behind(n) \in Int /\ Behind(n) >= 0 /\ Behind(n)' \in Int
           /\ neighbors[n] \in SUBSET Entries
           /\ \A e \in neighbors[n] :
                 /\ e.age \in Nat /\ Rest(phase[n], elapsed[n], e.age) \in Int
                 /\ Rest(phase[n], elapsed[n], e.age) + Leftover + Gap >= 0
           /\ LinksOK /\ Ghosts(n)
<1>1. NetworkInv /\ events \in Nat /\ RoomInv
  BY NetworkAssumption DEF GhostInv, RoomInv
<1>2. Times(events, Nap) \in Nat /\ Times(events', Nap) \in Nat
  BY <1>1, SpanTypes, TimesNext
<1>3. /\ elapsed[n] \in Nat /\ elapsed'[n] \in Nat
      /\ phase[n] = "receive" => elapsed[n] <= Gap
  BY <1>1 DEF NetworkInv, PhaseOK, Gap
<1>4. Behind(n) \in Int /\ Behind(n)' \in Int
  BY <1>1, RoomTypes
<1>5. Behind(n) >= 0
  BY <1>1 DEF RoomInv
<1>6. neighbors[n] \in SUBSET Entries /\ \A e \in neighbors[n] : e.age \in Nat
  <2>1. neighbors[n] \in SUBSET Entries
    BY <1>1 DEF NetworkInv, NeighborsOK
  <2> QED
    BY <2>1, NetworkAssumption DEF Entries, TS!Entry, AgeCap
<1>7. \A e \in neighbors[n] : /\ Rest(phase[n], elapsed[n], e.age) \in Int
                              /\ Rest(phase[n], elapsed[n], e.age) + Leftover + Gap >= 0
  BY <1>3, <1>6, RestType
<1> QED
  BY <1>1, <1>2, <1>3, <1>4, <1>5, <1>6, <1>7 DEF GhostInv, NetworkInv

(* While the interfaces stay and no machine goes, nothing becomes stale.   *)
LEMMA NothingStale ==
    ASSUME links' = links, Running \subseteq Running'
    PROVE  /\ Announced \subseteq Announced' /\ Sendable \subseteq Sendable'
           /\ \A n \in Node : Due(n) \subseteq Due(n)' /\ Interfaces(n)' = Interfaces(n)
<1>1. \A n : Interfaces(n)' = Interfaces(n)
  BY DEF Interfaces
<1>2. \A n, m : Sent(m)' = Sent(m) /\ Visible(n, m)' = Visible(n, m)
  BY <1>1 DEF Sent, Visible
<1> QED
  BY <1>1, <1>2 DEF Announced, Sendable, Due

LEMMA QueueFrame ==
    ASSUME GhostInv, NetworkInv', events' \in Nat, NEW n \in Node,
           links' = links, Running \subseteq Running', quiet' = quiet,
           Behind(n) <= Behind(n)',
           \A i \in DOMAIN queue'[n] :
              \/ queue'[n][i] \in Announced'
              \/ \E j \in DOMAIN queue[n] : queue'[n][i] = queue[n][j]
    PROVE  QueueGhosts(n)'
<1>1. Announced \subseteq Announced'
  BY NothingStale
<1>2. /\ quiet \in Nat /\ Behind(n) \in Int /\ Behind(n)' \in Int /\ Nap \in Nat
      /\ QueueGhosts(n)
  BY GhostTypes, SpanTypes DEF Ghosts
<1>3. ASSUME NEW i \in DOMAIN queue'[n], queue'[n][i] \notin Announced'
      PROVE  quiet' + Nap <= Behind(n)'
  <2>1. PICK j \in DOMAIN queue[n] : queue'[n][i] = queue[n][j]
    BY <1>3
  <2>2. quiet + Nap <= Behind(n)
    BY <1>1, <1>2, <1>3, <2>1 DEF QueueGhosts
  <2> QED
    BY <1>2, <2>2
<1>4. Nap' = Nap
  BY DEF Nap
<1> QED
  BY <1>3, <1>4 DEF QueueGhosts

(* A machine of which nothing but the queue changes.                       *)
LEMMA GhostFrame ==
    ASSUME GhostInv, NetworkInv', events' \in Nat, events <= events', NEW n \in Node,
           links' = links, Running \subseteq Running', quiet' = quiet,
           phase'[n] = phase[n], elapsed'[n] = elapsed[n], nifs'[n] = nifs[n],
           received'[n] = received[n], neighbors'[n] = neighbors[n]
    PROVE  /\ ReceivedGhosts(n)' /\ NifsGhosts(n)' /\ TableGhosts(n)'
           /\ Behind(n) <= Behind(n)'
<1>1. /\ Sendable \subseteq Sendable' /\ Due(n) \subseteq Due(n)'
      /\ Interfaces(n)' = Interfaces(n)
  BY NothingStale
<1>2. /\ Times(events, Nap) \in Nat /\ Times(events', Nap) \in Nat
      /\ quiet \in Nat /\ elapsed[n] \in Nat /\ Nap \in Nat /\ Leftover \in Nat /\ Gap \in Nat
      /\ \A e \in neighbors[n] : Rest(phase[n], elapsed[n], e.age) \in Int
      /\ ReceivedGhosts(n) /\ NifsGhosts(n) /\ TableGhosts(n)
  BY GhostTypes, SpanTypes DEF Ghosts
<1>3. Times(events, Nap) <= Times(events', Nap)
  BY <1>2, TimesMonotonic, NetworkAssumption DEF GhostInv, RoomInv
<1>4. ReceivedGhosts(n)'
  <2>1. ReceivedGhosts(n)' <=>
            /\ phase'[n] # "receive" => received'[n] = {}
            /\ \A r \in received'[n] : r \notin Sendable' =>
                  quiet' + Nap <= Times(events', Nap) + Leftover + elapsed'[n]
    BY DEF ReceivedGhosts, Nap, Leftover
  <2> QED
    BY <1>1, <1>2, <1>3, <2>1 DEF ReceivedGhosts
<1>5. NifsGhosts(n)'
  <2>1. NifsGhosts(n)' <=>
            (phase'[n] = "receive" /\ nifs'[n] # Interfaces(n)' =>
                quiet' + Nap <= Times(events', Nap) + elapsed'[n])
    BY DEF NifsGhosts, Nap
  <2> QED
    BY <1>1, <1>2, <1>3, <2>1 DEF NifsGhosts
<1>6. TableGhosts(n)'
  <2>1. TableGhosts(n)' <=>
            /\ phase'[n] = "off" => neighbors'[n] = {}
            /\ \A e \in neighbors'[n] : e.data \notin Due(n)' =>
                  quiet' + Nap <= Times(events', Nap) + Leftover + Gap
                                     + Rest(phase'[n], elapsed'[n], e.age)
    BY DEF TableGhosts, Nap, Leftover, Gap, Rest, Left
  <2> QED
    BY <1>1, <1>2, <1>3, <2>1 DEF TableGhosts
<1>7. Behind(n) <= Behind(n)'
  <2>1. Behind(n)' = Times(events', Nap) +
            (IF phase[n] = "sleep"
             THEN Leftover - (IF elapsed[n] < Nap THEN Nap - elapsed[n] ELSE 0)
             ELSE IF phase[n] = "receive" /\ elapsed[n] > 0 THEN 0 ELSE Leftover)
    BY DEF Behind, Leftover, Nap
  <2>2. Behind(n) = Times(events, Nap) +
            (IF phase[n] = "sleep"
             THEN Leftover - (IF elapsed[n] < Nap THEN Nap - elapsed[n] ELSE 0)
             ELSE IF phase[n] = "receive" /\ elapsed[n] > 0 THEN 0 ELSE Leftover)
    BY DEF Behind
  <2> QED
    BY <1>2, <1>3, <2>1, <2>2
<1> QED
  BY <1>4, <1>5, <1>6, <1>7

(* What a crash or a change makes stale anywhere is not old yet.           *)
LEMMA FreshGhosts ==
    ASSUME GhostInv, NetworkInv', events' = events + 1, NEW n \in Node, quiet' = 0,
           phase'[n] = phase[n], elapsed'[n] = elapsed[n], received'[n] = received[n],
           neighbors'[n] = neighbors[n], Behind(n)' = Behind(n) + Nap
    PROVE  Ghosts(n)'
<1>1. events \in Nat /\ events' \in Nat
  BY NetworkAssumption DEF GhostInv, RoomInv
<1>2. /\ Times(events, Nap) \in Nat /\ Times(events', Nap) = Times(events, Nap) + Nap
      /\ elapsed[n] \in Nat /\ Nap \in Nat /\ Leftover \in Nat /\ Gap \in Nat
      /\ Behind(n) \in Int /\ Behind(n) >= 0
      /\ ReceivedGhosts(n) /\ TableGhosts(n)
      /\ \A e \in neighbors[n] : /\ Rest(phase[n], elapsed[n], e.age) \in Int
                                 /\ Rest(phase[n], elapsed[n], e.age) + Leftover + Gap >= 0
  <2>1. Nap \in Nat /\ Leftover \in Nat /\ Gap \in Nat
    BY SpanTypes
  <2>2. Times(events, Nap) \in Nat /\ Times(events', Nap) = Times(events, Nap) + Nap
    BY <1>1, <2>1, TimesNext
  <2> QED
    BY <1>1, <2>1, <2>2, GhostTypes DEF Ghosts
<1>3. QueueGhosts(n)'
  <2>1. 0 + Nap <= Behind(n)' /\ Nap' = Nap
    BY <1>2 DEF Nap
  <2> QED
    BY <2>1 DEF QueueGhosts
<1>4. ReceivedGhosts(n)'
  <2>1. 0 + Nap <= Times(events', Nap) + Leftover + elapsed'[n]
    BY <1>2
  <2> QED
    BY <1>2, <2>1 DEF ReceivedGhosts, Nap, Leftover
<1>5. NifsGhosts(n)'
  <2>1. 0 + Nap <= Times(events', Nap) + elapsed'[n]
    BY <1>2
  <2> QED
    BY <2>1 DEF NifsGhosts, Nap
<1>6. TableGhosts(n)'
  <2>1. TableGhosts(n)' <=>
            /\ phase'[n] = "off" => neighbors'[n] = {}
            /\ \A e \in neighbors'[n] : e.data \notin Due(n)' =>
                  quiet' + Nap <= Times(events', Nap) + Leftover + Gap
                                     + Rest(phase'[n], elapsed'[n], e.age)
    BY DEF TableGhosts, Nap, Leftover, Gap, Rest, Left
  <2> QED
    BY <1>2, <2>1 DEF TableGhosts
<1> QED
  BY <1>3, <1>4, <1>5, <1>6 DEF Ghosts

(* An update makes no old entry, and drops those that are too old.         *)
LEMMA UpdateAges ==
    ASSUME NEW S \in SUBSET Entries, NEW rs,
           NEW T, T = TS!RemoveOlder(TS!Update(S, Pairs(rs)), ActivityPeriod), NEW e \in T
    PROVE  (e \in S /\ e.age <= ActivityPeriod) \/ (e.data \in rs /\ e.age = 0)
<1>1. ~(e.age > ActivityPeriod) /\ e \in TS!Update(S, Pairs(rs))
  BY DEF TS!RemoveOlder
<1>2. e \in S \/ \E p \in Pairs(rs) : e = [index |-> p[1], data |-> p[2], age |-> 0]
  BY <1>1 DEF TS!Update
<1>3. CASE e \in S
  <2>1. e.age \in Nat
    BY <1>3, NetworkAssumption DEF Entries, TS!Entry, AgeCap
  <2> QED
    BY <1>1, <1>3, <2>1, NetworkAssumption
<1>4. CASE \E p \in Pairs(rs) : e = [index |-> p[1], data |-> p[2], age |-> 0]
  BY <1>4 DEF Pairs
<1> QED
  BY <1>2, <1>3, <1>4

(* Each entry after a tick is one of before, older or too old.             *)
LEMMA AgedFrom ==
    ASSUME NEW S \in SUBSET Entries, NEW f \in TS!Aged(S, AgeCap)
    PROVE  \E e \in S : /\ f.data = e.data /\ e.age \in Nat /\ f.age \in Nat
                        /\ f.age = e.age + 1 \/ (f.age = e.age /\ e.age > ActivityPeriod)
<1>1. PICK e \in S : f = [e EXCEPT !.age = IF @ < AgeCap THEN @ + 1 ELSE @]
  BY DEF TS!Aged
<1>2. e \in Entries /\ AgeCap \in Nat /\ AgeCap = ActivityPeriod + 1 /\ ActivityPeriod \in Nat
  BY NetworkAssumption DEF AgeCap
<1>3. e.age \in 0 .. AgeCap /\ f.data = e.data
      /\ f.age = IF e.age < AgeCap THEN e.age + 1 ELSE e.age
  BY <1>1, <1>2 DEF Entries, TS!Entry
<1> QED
  BY <1>2, <1>3

(* The step of a daemon.                                                   *)
LEMMA BootGhosts ==
    ASSUME GhostInv, NetworkInv', NEW k \in Node, Boot(k), NEW n \in Node
    PROVE  Ghosts(n)'
<1>1. /\ NetworkInv /\ events \in Nat /\ events' = events /\ phase \in [Node -> Phase]
      /\ phase[k] = "off" /\ phase' = [phase EXCEPT ![k] = "announce"]
      /\ UNCHANGED <<links, nifs, elapsed, queue, received, neighbors, quiet>>
      /\ Running \subseteq Running'
  BY NetworkAssumption DEF GhostInv, RoomInv, NetworkInv, PhaseOK, Boot, Running
<1>2. events' \in Nat /\ events <= events'
  BY <1>1
<1>3. Behind(n)' = Behind(n) /\ Behind(n) \in Int
  BY <1>1, <1>2, GhostTypes DEF Behind, Leftover, Nap
<1>4. Behind(n) <= Behind(n)'
  BY <1>3
<1>5. QueueGhosts(n)'
  BY <1>1, <1>2, <1>4, QueueFrame
<1>6. ReceivedGhosts(n)' /\ NifsGhosts(n)' /\ TableGhosts(n)'
  <2>1. CASE n # k
    <3>1. phase'[n] = phase[n]
      BY <1>1, <2>1
    <3> QED
      BY <1>1, <1>2, <3>1, GhostFrame
  <2>2. CASE n = k
    <3>1. phase[n] = "off" /\ phase'[n] = "announce"
      BY <1>1, <2>2
    <3>2. received'[n] = {} /\ neighbors'[n] = {}
      BY <1>1, <1>2, <3>1, GhostTypes DEF Ghosts, ReceivedGhosts, TableGhosts
    <3> QED
      BY <3>1, <3>2 DEF ReceivedGhosts, NifsGhosts, TableGhosts
  <2> QED
    BY <2>1, <2>2
<1> QED
  BY <1>5, <1>6 DEF Ghosts

LEMMA AnnounceGhosts ==
    ASSUME GhostInv, NetworkInv', NEW k \in Node, Announce(k), NEW n \in Node
    PROVE  Ghosts(n)'
<1>1. /\ NetworkInv /\ events \in Nat /\ events' = events /\ phase \in [Node -> Phase]
      /\ nifs \in [Node -> Seq(NetInterfaceType)]
      /\ phase[k] = "announce" /\ phase' = [phase EXCEPT ![k] = "receive"]
      /\ nifs' = [nifs EXCEPT ![k] = Interfaces(k)] /\ elapsed[k] = 0
      /\ UNCHANGED <<links, elapsed, received, neighbors, quiet>>
      /\ Running \subseteq Running' /\ k \in Running
  BY NetworkAssumption
     DEF GhostInv, RoomInv, NetworkInv, PhaseOK, NifsOK, Announce, Running
<1>2. events' \in Nat /\ events <= events'
  BY <1>1
<1>3. Behind(n)' = Behind(n) /\ Behind(n) \in Int
  BY <1>1, <1>2, GhostTypes DEF Behind, Leftover, Nap
<1>4. Behind(n) <= Behind(n)'
  BY <1>3
<1>5. QueueGhosts(n)'
  <2>1. Interfaces(k) \in Announced'
    BY <1>1, NothingStale DEF Announced
  <2>2. ASSUME NEW i \in DOMAIN queue'[n]
        PROVE  \/ queue'[n][i] = Interfaces(k)
               \/ \E j \in DOMAIN queue[n] : queue'[n][i] = queue[n][j]
    <3>1. /\ \A j \in DOMAIN queue[n] : queue'[n][j] = queue[n][j]
          /\ \A j \in DOMAIN queue'[n] \ DOMAIN queue[n] : queue'[n][j] = Interfaces(k)
      BY <1>1, AnnounceQueues
    <3> QED
      BY <3>1
  <2> QED
    BY <1>1, <1>2, <1>4, <2>1, <2>2, QueueFrame
<1>6. ReceivedGhosts(n)' /\ NifsGhosts(n)' /\ TableGhosts(n)'
  <2>1. CASE n # k
    <3>1. phase'[n] = phase[n] /\ nifs'[n] = nifs[n]
      BY <1>1, <2>1
    <3> QED
      BY <1>1, <1>2, <3>1, GhostFrame
  <2>2. CASE n = k
    <3>1. /\ phase[n] = "announce" /\ phase'[n] = "receive"
          /\ nifs'[n] = Interfaces(n) /\ elapsed[n] = 0 /\ elapsed'[n] = 0
          /\ Interfaces(n)' = Interfaces(n) /\ Due(n) \subseteq Due(n)'
      BY <1>1, <2>2, NothingStale
    <3>2. /\ received[n] = {} /\ TableGhosts(n) /\ Times(events, Nap) \in Nat
          /\ \A e \in neighbors[n] :
                e.age \in Nat /\ Rest("announce", 0, e.age) \in Int
      BY <1>1, <1>2, <3>1, GhostTypes DEF Ghosts, ReceivedGhosts
    <3>3. ReceivedGhosts(n)' /\ NifsGhosts(n)'
      BY <1>1, <3>1, <3>2 DEF ReceivedGhosts, NifsGhosts
    <3>4. ASSUME NEW e \in neighbors'[n], e.data \notin Due(n)'
          PROVE  quiet + Nap <= Times(events, Nap) + Leftover + Gap + Rest("receive", 0, e.age)
      <4>1. quiet + Nap <= Times(events, Nap) + Leftover + Gap + Rest("announce", 0, e.age)
        BY <1>1, <3>1, <3>2, <3>4 DEF TableGhosts
      <4>2. Rest("announce", 0, e.age) <= Rest("receive", 0, e.age)
        BY <1>1, <3>2, RestSteps
      <4>3. e.age \in Nat /\ Rest("announce", 0, e.age) \in Int
        BY <1>1, <3>2
      <4>4. Rest("receive", 0, e.age) \in Int
        BY <4>3, RestType
      <4> QED
        BY <3>2, <4>1, <4>2, <4>3, <4>4, SpanTypes DEF GhostInv
    <3>5. TableGhosts(n)' <=>
            /\ phase'[n] = "off" => neighbors'[n] = {}
            /\ \A e \in neighbors'[n] : e.data \notin Due(n)' =>
                  quiet' + Nap <= Times(events', Nap) + Leftover + Gap
                                     + Rest(phase'[n], elapsed'[n], e.age)
      BY DEF TableGhosts, Nap, Leftover, Gap, Rest, Left
    <3>6. TableGhosts(n)'
      BY <1>1, <3>1, <3>4, <3>5
    <3> QED
      BY <3>3, <3>6
  <2> QED
    BY <2>1, <2>2
<1> QED
  BY <1>5, <1>6 DEF Ghosts

LEMMA ReceiveGhosts ==
    ASSUME GhostInv, NetworkInv', NEW k \in Node, Receive(k), NEW n \in Node
    PROVE  Ghosts(n)'
<1> DEFINE last == LastOfEachMac(Head(queue[k]))
<1>1. /\ NetworkInv /\ events \in Nat /\ events' = events
      /\ queue \in [Node -> Seq(Seq(NetInterfaceType))]
      /\ received \in [Node -> SUBSET NetInterfaceType]
      /\ phase[k] = "receive" /\ queue[k] # <<>>
      /\ queue' = [queue EXCEPT ![k] = Tail(@)]
      /\ received' = [received EXCEPT ![k] =
             {r \in @ : \A nif \in last : nif.mac # r.mac} \cup last]
      /\ UNCHANGED <<links, phase, nifs, elapsed, neighbors, quiet>>
      /\ Running' = Running
  BY NetworkAssumption
     DEF GhostInv, RoomInv, NetworkInv, QueueOK, ReceivedOK, Receive, Running
<1> HIDE DEF last
<1>2. events' \in Nat /\ events <= events'
  BY <1>1
<1>3. Behind(n)' = Behind(n) /\ Behind(n) \in Int
  BY <1>1, <1>2, GhostTypes DEF Behind, Leftover, Nap
<1>4. Behind(n) <= Behind(n)'
  BY <1>3
<1>5. QueueGhosts(n)'
  <2>1. \A i \in DOMAIN queue'[n] : \E j \in DOMAIN queue[n] : queue'[n][i] = queue[n][j]
    <3>1. CASE n # k
      <4>1. queue'[n] = queue[n]
        BY <1>1, <3>1
      <4> QED
        BY <4>1
    <3>2. CASE n = k
      <4>1. queue'[n] = Tail(queue[n]) /\ queue[n] # <<>> /\ queue[n] \in Seq(Seq(NetInterfaceType))
        BY <1>1, <3>2
      <4>2. ASSUME NEW i \in DOMAIN queue'[n]
            PROVE  i + 1 \in DOMAIN queue[n] /\ queue'[n][i] = queue[n][i + 1]
        BY <4>1
      <4> QED
        BY <4>2
    <3> QED
      BY <3>1, <3>2
  <2> QED
    BY <1>1, <1>2, <1>4, <2>1, QueueFrame
<1>6. CASE n # k
  <2>1. received'[n] = received[n]
    BY <1>1, <1>6
  <2> QED
    BY <1>1, <1>2, <1>5, <2>1, GhostFrame DEF Ghosts
<1>7. CASE n = k
  <2>1. /\ ReceivedGhosts(n) /\ NifsGhosts(n) /\ TableGhosts(n) /\ QueueGhosts(n)
        /\ Times(events, Nap) \in Nat /\ elapsed[n] \in Nat /\ quiet \in Nat /\ Behind(n) \in Int
    BY <1>1, <1>2, GhostTypes DEF Ghosts
  <2>2. /\ Sendable' = Sendable /\ Due(n)' = Due(n) /\ Interfaces(n)' = Interfaces(n)
    BY <1>1 DEF Sendable, Due, Visible, Sent, Interfaces
  <2>3. ASSUME NEW r \in last, r \notin Sendable
        PROVE  quiet + Nap <= Times(events, Nap) + Leftover + elapsed[n]
    <3>1. 1 \in DOMAIN queue[n] /\ Head(queue[n]) = queue[n][1]
      BY <1>1, <1>7
    <3>2. queue[n][1] \notin Announced
      BY <1>7, <2>3, <3>1 DEF last, Announced, Sendable, Sent
    <3>3. quiet + Nap <= Behind(n)
      BY <2>1, <3>1, <3>2 DEF QueueGhosts
    <3>4. Behind(n) = Times(events, Nap) + (IF elapsed[n] > 0 THEN 0 ELSE Leftover)
      BY <1>1, <1>7 DEF Behind
    <3> QED
      BY <2>1, <3>3, <3>4, SpanTypes
  <2>4. received'[n] \subseteq received[n] \cup last
    BY <1>1, <1>7
  <2>5. ReceivedGhosts(n)'
    BY <1>1, <1>7, <2>1, <2>2, <2>3, <2>4 DEF ReceivedGhosts, Nap, Leftover
  <2>6. NifsGhosts(n)'
    BY <1>1, <2>1, <2>2 DEF NifsGhosts, Nap
  <2>7. TableGhosts(n)'
    BY <1>1, <2>1, <2>2 DEF TableGhosts, Nap, Leftover, Gap, Rest, Left
  <2> QED
    BY <1>5, <2>5, <2>6, <2>7 DEF Ghosts
<1> QED
  BY <1>6, <1>7

(* At the end of a window what was received is new in the table, and what  *)
(* was in it has got as old as the window.                                 *)
LEMMA FinishGhosts ==
    ASSUME GhostInv, NetworkInv', NEW k \in Node, Finish(k), NEW n \in Node
    PROVE  Ghosts(n)'
<1> DEFINE matched == Matched(nifs[k], received[k])
<1>1. /\ NetworkInv /\ RoomInv /\ events \in Nat
      /\ phase \in [Node -> Phase] /\ nifs \in [Node -> Seq(NetInterfaceType)]
      /\ received \in [Node -> SUBSET NetInterfaceType] /\ neighbors \in [Node -> SUBSET Entries]
      /\ phase[k] = "receive" /\ phase' = [phase EXCEPT ![k] = "sleep"]
      /\ received' = [received EXCEPT ![k] = {}]
      /\ nifs' = [nifs EXCEPT ![k] = <<>>]
      /\ neighbors' = [neighbors EXCEPT ![k] =
             TS!RemoveOlder(TS!Update(@, Pairs(matched)), ActivityPeriod)]
      /\ UNCHANGED <<links, elapsed, queue, quiet>>
      /\ Running' = Running
  BY NetworkAssumption
     DEF GhostInv, RoomInv, NetworkInv, PhaseOK, NifsOK, ReceivedOK, NeighborsOK, Finish,
         Running, Pairs
<1> HIDE DEF matched
<1>2. \/ events' = events /\ elapsed[k] >= SendingPeriod
      \/ events' = events + 1 /\ elapsed[k] < SendingPeriod
  BY DEF Finish, WindowOver
<1>3. events' \in Nat /\ events <= events'
  BY <1>1, <1>2
<1>4. Behind(n) <= Behind(n)'
  BY <1>1, FinishBehind
<1>5. QueueGhosts(n)'
  BY <1>1, <1>3, <1>4, QueueFrame
<1>6. CASE n # k
  <2>1. /\ phase'[n] = phase[n] /\ nifs'[n] = nifs[n]
        /\ received'[n] = received[n] /\ neighbors'[n] = neighbors[n]
    BY <1>1, <1>6
  <2> QED
    BY <1>1, <1>3, <1>5, <2>1, GhostFrame DEF Ghosts
<1>7. CASE n = k
  <2>1. /\ ReceivedGhosts(n) /\ NifsGhosts(n) /\ TableGhosts(n)
        /\ Times(events, Nap) \in Nat /\ Times(events', Nap) \in Nat
        /\ elapsed[n] \in Nat /\ quiet \in Nat /\ elapsed[n] <= Gap
        /\ neighbors[n] \in SUBSET Entries
        /\ \A e \in neighbors[n] : e.age \in Nat
    BY <1>1, <1>3, <1>7, GhostTypes DEF Ghosts
  <2>2. /\ Due(n)' = Due(n) /\ phase[n] = "receive" /\ phase'[n] = "sleep"
        /\ received'[n] = {} /\ elapsed'[n] = elapsed[n]
    BY <1>1, <1>7 DEF Due, Visible, Interfaces
  <2>3. \/ Times(events', Nap) = Times(events, Nap) /\ elapsed[n] >= SendingPeriod
        \/ Times(events', Nap) = Times(events, Nap) + Nap
    BY <1>1, <1>2, <1>7, SpanTypes, TimesNext
  <2>4. ASSUME NEW e \in neighbors'[n]
        PROVE  (e \in neighbors[n] /\ e.age \in Nat /\ e.age <= ActivityPeriod)
                 \/ (e.data \in matched /\ e.age = 0)
    <3>1. neighbors'[n] = TS!RemoveOlder(TS!Update(neighbors[n], Pairs(matched)), ActivityPeriod)
      BY <1>1, <1>7
    <3> QED
      BY <2>1, <3>1, UpdateAges
  <2>5. ASSUME NEW d \in matched, d \notin Due(n)
        PROVE  quiet + Nap <= Times(events, Nap) + Leftover + elapsed[n]
    <3>1. PICK r \in received[n] : /\ d = Filtered(nifs[n], r)
                                   /\ d.ipv4s # {} \/ d.ipv6s # {}
      BY <1>7 DEF matched, Matched
    <3>2. CASE nifs[n] # Interfaces(n)
      <4>1. quiet + Nap <= Times(events, Nap) + elapsed[n]
        BY <2>1, <2>2, <3>2 DEF NifsGhosts
      <4> QED
        BY <2>1, <4>1, SpanTypes
    <3>3. CASE nifs[n] = Interfaces(n)
      <4>1. ASSUME NEW m \in Running, r \in Sent(m)
            PROVE  FALSE
        <5>1. d \in Visible(n, m)
          BY <3>1, <3>3, <4>1 DEF Visible, Matched, Sent
        <5> QED
          BY <2>5, <5>1 DEF Due
      <4>2. r \notin Sendable
        BY <4>1 DEF Sendable
      <4> QED
        BY <2>1, <3>1, <4>2 DEF ReceivedGhosts
    <3> QED
      BY <3>2, <3>3
  <2>6. ASSUME NEW e \in neighbors'[n], e.data \notin Due(n)
        PROVE  quiet + Nap <= Times(events', Nap) + Leftover + Gap
                                 + Rest("sleep", elapsed[n], e.age)
    <3>1. e.age \in Nat /\ e.age <= ActivityPeriod
      BY <2>4, SpanTypes
    <3>2. /\ Rest("sleep", elapsed[n], e.age) \in Int
          /\ Rest("receive", elapsed[n], e.age) = e.age
          /\ e.age <= Rest("sleep", elapsed[n], e.age) + Nap
          /\ elapsed[n] >= SendingPeriod => Rest("sleep", elapsed[n], e.age) = e.age
      BY <2>1, <3>1, RestSteps, RestType
    <3>3. quiet + Nap <= Times(events, Nap) + Leftover + Gap + e.age
      <4>1. CASE e \in neighbors[n]
        BY <2>1, <2>2, <2>6, <3>2, <4>1 DEF TableGhosts
      <4>2. CASE e.data \in matched
        <5>1. quiet + Nap <= Times(events, Nap) + Leftover + elapsed[n]
          BY <2>5, <2>6, <4>2
        <5> QED
          BY <2>1, <3>1, <5>1, SpanTypes
      <4> QED
        BY <2>4, <4>1, <4>2
    <3> QED
      BY <2>1, <2>3, <3>1, <3>2, <3>3, SpanTypes
  <2>7. TableGhosts(n)' <=>
            /\ phase'[n] = "off" => neighbors'[n] = {}
            /\ \A e \in neighbors'[n] : e.data \notin Due(n)' =>
                  quiet' + Nap <= Times(events', Nap) + Leftover + Gap
                                     + Rest(phase'[n], elapsed'[n], e.age)
    BY DEF TableGhosts, Nap, Leftover, Gap, Rest, Left
  <2>8. TableGhosts(n)'
    BY <1>1, <2>2, <2>6, <2>7
  <2>9. ReceivedGhosts(n)' /\ NifsGhosts(n)'
    BY <2>2 DEF ReceivedGhosts, NifsGhosts
  <2> QED
    BY <1>5, <2>8, <2>9 DEF Ghosts
<1> QED
  BY <1>6, <1>7

LEMMA WakeUpGhosts ==
    ASSUME GhostInv, NetworkInv', NEW k \in Node, WakeUp(k), NEW n \in Node,
           Behind(n) <= Behind(n)'
    PROVE  Ghosts(n)'
<1>1. /\ NetworkInv /\ events \in Nat /\ events' = events
      /\ phase \in [Node -> Phase] /\ elapsed \in [Node -> Nat]
      /\ phase[k] = "sleep" /\ phase' = [phase EXCEPT ![k] = "announce"]
      /\ elapsed' = [elapsed EXCEPT ![k] = 0]
      /\ UNCHANGED <<links, nifs, queue, received, neighbors, quiet>>
      /\ Running' = Running
  BY NetworkAssumption DEF GhostInv, RoomInv, NetworkInv, PhaseOK, WakeUp, Running
<1>2. events' \in Nat /\ events <= events'
  BY <1>1
<1>3. QueueGhosts(n)'
  BY <1>1, <1>2, QueueFrame
<1>4. CASE n # k
  <2>1. phase'[n] = phase[n] /\ elapsed'[n] = elapsed[n]
    BY <1>1, <1>4
  <2> QED
    BY <1>1, <1>2, <1>3, <2>1, GhostFrame DEF Ghosts
<1>5. CASE n = k
  <2>1. /\ ReceivedGhosts(n) /\ TableGhosts(n)
        /\ Times(events, Nap) \in Nat /\ elapsed[n] \in Nat /\ quiet \in Nat
        /\ \A e \in neighbors[n] : e.age \in Nat
    BY <1>1, <1>2, GhostTypes DEF Ghosts
  <2>2. /\ Due(n)' = Due(n) /\ phase[n] = "sleep" /\ phase'[n] = "announce"
        /\ elapsed'[n] = 0
    BY <1>1, <1>5 DEF Due, Visible, Interfaces
  <2>3. ASSUME NEW e \in neighbors'[n], e.data \notin Due(n)
        PROVE  quiet + Nap <= Times(events, Nap) + Leftover + Gap + Rest("announce", 0, e.age)
    <3>1. e.age \in Nat
      BY <1>1, <2>1
    <3>2. /\ Rest("sleep", elapsed[n], e.age) \in Int /\ Rest("announce", 0, e.age) \in Int
          /\ Rest("sleep", elapsed[n], e.age) <= Rest("announce", 0, e.age)
      BY <2>1, <3>1, RestSteps, RestType
    <3>3. quiet + Nap <= Times(events, Nap) + Leftover + Gap
                            + Rest("sleep", elapsed[n], e.age)
      BY <1>1, <2>1, <2>2, <2>3 DEF TableGhosts
    <3> QED
      BY <2>1, <3>2, <3>3, SpanTypes
  <2>4. TableGhosts(n)' <=>
            /\ phase'[n] = "off" => neighbors'[n] = {}
            /\ \A e \in neighbors'[n] : e.data \notin Due(n)' =>
                  quiet' + Nap <= Times(events', Nap) + Leftover + Gap
                                     + Rest(phase'[n], elapsed'[n], e.age)
    BY DEF TableGhosts, Nap, Leftover, Gap, Rest, Left
  <2>5. TableGhosts(n)'
    BY <1>1, <2>2, <2>3, <2>4
  <2>6. ReceivedGhosts(n)' /\ NifsGhosts(n)'
    BY <1>1, <2>1, <2>2 DEF ReceivedGhosts, NifsGhosts
  <2> QED
    BY <1>3, <2>5, <2>6 DEF Ghosts
<1> QED
  BY <1>4, <1>5

LEMMA EventGhosts ==
    ASSUME GhostInv, NetworkInv', NEW k \in Node, Crash(k) \/ Reconfigure(k), NEW n \in Node
    PROVE  Ghosts(n)'
<1>1. /\ NetworkInv /\ RoomInv /\ events' = events + 1 /\ quiet' = 0
      /\ phase \in [Node -> Phase] /\ elapsed \in [Node -> Nat]
      /\ queue \in [Node -> Seq(Seq(NetInterfaceType))]
      /\ received \in [Node -> SUBSET NetInterfaceType] /\ neighbors \in [Node -> SUBSET Entries]
  BY DEF GhostInv, RoomInv, NetworkInv, PhaseOK, QueueOK, ReceivedOK, NeighborsOK, Crash,
         Reconfigure
<1>2. CASE n # k \/ Reconfigure(k)
  <2>1. /\ phase'[n] = phase[n] /\ elapsed'[n] = elapsed[n]
        /\ received'[n] = received[n] /\ neighbors'[n] = neighbors[n]
    BY <1>1, <1>2 DEF Crash, Reconfigure
  <2>2. Behind(n)' = Behind(n) + Nap
    BY <1>1, <1>2, EventBehind
  <2> QED
    BY <1>1, <2>1, <2>2, FreshGhosts
<1>3. CASE n = k /\ Crash(k)
  <2>1. phase'[n] = "off" /\ queue'[n] = <<>> /\ received'[n] = {} /\ neighbors'[n] = {}
    BY <1>1, <1>3 DEF Crash, TS!EmptySet
  <2> QED
    BY <2>1 DEF Ghosts, QueueGhosts, ReceivedGhosts, NifsGhosts, TableGhosts
<1> QED
  BY <1>2, <1>3

(* A tick adds no more to the time than to what the bounds allow: time     *)
(* passes in a window, or asleep, and what is listed gets older.           *)
LEMMA TickGhosts ==
    ASSUME GhostInv, NetworkInv', Tick, NEW n \in Node
    PROVE  Ghosts(n)' /\ quiet' \in Nat
<1>1. /\ NetworkInv /\ RoomInv /\ events \in Nat /\ events' = events
      /\ phase' = phase /\ phase \in [Node -> Phase]
      /\ neighbors' = [m \in Node |-> TS!Aged(neighbors[m], AgeCap)]
      /\ elapsed' = [m \in Node |-> IF m \in Running THEN elapsed[m] + 1 ELSE 0]
      /\ UNCHANGED <<links, nifs, queue, received>>
      /\ Running' = Running /\ Waits(n) /\ quiet \in Nat
  BY NetworkAssumption DEF GhostInv, RoomInv, NetworkInv, PhaseOK, Tick, Running
<1>2. quiet' \in Nat /\ quiet' <= quiet + 1
  BY <1>1 DEF Tick
<1>3. /\ QueueGhosts(n) /\ ReceivedGhosts(n) /\ NifsGhosts(n) /\ TableGhosts(n)
      /\ Times(events, Nap) \in Nat /\ elapsed[n] \in Nat /\ Behind(n) \in Int
      /\ neighbors[n] \in SUBSET Entries
  BY <1>1, GhostTypes DEF Ghosts
<1>4. /\ Announced' = Announced /\ Sendable' = Sendable /\ Due(n)' = Due(n)
      /\ Interfaces(n)' = Interfaces(n)
  BY <1>1 DEF Announced, Sendable, Due, Visible, Sent, Interfaces
<1>5. /\ phase[n] \in {"off", "receive", "sleep"}
      /\ phase[n] = "sleep" => elapsed[n] < Nap
      /\ phase[n] \in {"receive", "sleep"} => elapsed'[n] = elapsed[n] + 1
  BY <1>1 DEF Waits, Nap, Running
<1>6. QueueGhosts(n)'
  <2>1. IF phase[n] = "sleep" THEN Behind(n)' = Behind(n) + 1 ELSE queue[n] = <<>>
    BY <1>1, TickAccounts
  <2>2. ASSUME NEW i \in DOMAIN queue[n], queue[n][i] \notin Announced
        PROVE  quiet' + Nap <= Behind(n)'
    <3>1. quiet + Nap <= Behind(n)
      BY <1>3, <2>2 DEF QueueGhosts
    <3>2. Behind(n)' = Behind(n) + 1
      BY <2>1, <2>2
    <3> QED
      BY <1>1, <1>2, <1>3, <3>1, <3>2, SpanTypes
  <2> QED
    BY <1>1, <1>4, <2>2 DEF QueueGhosts, Nap
<1>7. ReceivedGhosts(n)'
  <2>1. ASSUME NEW r \in received[n], r \notin Sendable
        PROVE  quiet' + Nap <= Times(events, Nap) + Leftover + elapsed'[n]
    <3>1. /\ quiet + Nap <= Times(events, Nap) + Leftover + elapsed[n]
          /\ phase[n] = "receive"
      BY <1>3, <2>1 DEF ReceivedGhosts
    <3> QED
      BY <1>1, <1>2, <1>3, <1>5, <3>1, SpanTypes
  <2> QED
    BY <1>1, <1>3, <1>4, <2>1 DEF ReceivedGhosts, Nap, Leftover
<1>8. NifsGhosts(n)'
  <2>1. ASSUME phase[n] = "receive", nifs[n] # Interfaces(n)
        PROVE  quiet' + Nap <= Times(events, Nap) + elapsed'[n]
    <3>1. quiet + Nap <= Times(events, Nap) + elapsed[n]
      BY <1>3, <2>1 DEF NifsGhosts
    <3> QED
      BY <1>1, <1>2, <1>3, <1>5, <2>1, <3>1, SpanTypes
  <2> QED
    BY <1>1, <1>4, <2>1 DEF NifsGhosts, Nap
<1>9. TableGhosts(n)'
  <2>1. neighbors'[n] = TS!Aged(neighbors[n], AgeCap)
    BY <1>1
  <2>2. ASSUME NEW f \in neighbors'[n]
        PROVE  \E e \in neighbors[n] :
                  /\ f.data = e.data /\ e.age \in Nat /\ f.age \in Nat
                  /\ f.age = e.age + 1 \/ (f.age = e.age /\ e.age > ActivityPeriod)
    BY <1>3, <2>1, AgedFrom
  <2>3. phase[n] = "off" => neighbors'[n] = {}
    BY <1>3, <2>2 DEF TableGhosts
  <2>4. ASSUME NEW f \in neighbors'[n], f.data \notin Due(n)
        PROVE  quiet' + Nap <= Times(events, Nap) + Leftover + Gap
                                  + Rest(phase[n], elapsed'[n], f.age)
    <3>1. PICK e \in neighbors[n] :
             /\ f.data = e.data /\ e.age \in Nat /\ f.age \in Nat
             /\ f.age = e.age + 1 \/ (f.age = e.age /\ e.age > ActivityPeriod)
      BY <2>2
    <3>2. quiet + Nap <= Times(events, Nap) + Leftover + Gap
                            + Rest(phase[n], elapsed[n], e.age)
      BY <1>3, <2>4, <3>1 DEF TableGhosts
    <3>3. phase[n] = "receive" \/ (phase[n] = "sleep" /\ elapsed[n] < Nap)
      BY <1>5, <2>3, <2>4
    <3>4. Rest(phase[n], elapsed[n], e.age) + 1 <= Rest(phase[n], elapsed[n] + 1, f.age)
      BY <1>3, <3>1, <3>3, RestTick
    <3>5. elapsed'[n] = elapsed[n] + 1 /\ elapsed[n] + 1 \in Nat
      BY <1>3, <1>5, <3>3
    <3>6. /\ Rest(phase[n], elapsed[n], e.age) \in Int
          /\ Rest(phase[n], elapsed[n] + 1, f.age) \in Int
      BY <1>3, <3>1, <3>5, RestType
    <3> QED
      BY <1>1, <1>2, <1>3, <3>2, <3>4, <3>5, <3>6, SpanTypes
  <2>5. TableGhosts(n)' <=>
            /\ phase'[n] = "off" => neighbors'[n] = {}
            /\ \A e \in neighbors'[n] : e.data \notin Due(n)' =>
                  quiet' + Nap <= Times(events', Nap) + Leftover + Gap
                                     + Rest(phase'[n], elapsed'[n], e.age)
    BY DEF TableGhosts, Nap, Leftover, Gap, Rest, Left
  <2> QED
    BY <1>1, <1>4, <2>3, <2>4, <2>5
<1> QED
  BY <1>2, <1>6, <1>7, <1>8, <1>9 DEF Ghosts

LEMMA GhostNext == GhostInv /\ [Next]_vars => GhostInv'
<1> SUFFICES ASSUME GhostInv, [Next]_vars PROVE GhostInv'
  OBVIOUS
<1>0. RoomInv /\ RoomInv' /\ NetworkInv' /\ events \in Nat /\ events' \in Nat /\ quiet \in Nat
  BY RoomNext, NetworkAssumption DEF GhostInv, RoomInv
<1>1. ASSUME NEW k \in Node, Boot(k)
      PROVE  quiet' \in Nat /\ \A n \in Node : Ghosts(n)'
  BY <1>0, <1>1, BootGhosts DEF Boot
<1>2. ASSUME NEW k \in Node, Announce(k)
      PROVE  quiet' \in Nat /\ \A n \in Node : Ghosts(n)'
  BY <1>0, <1>2, AnnounceGhosts DEF Announce
<1>3. ASSUME NEW k \in Node, Receive(k)
      PROVE  quiet' \in Nat /\ \A n \in Node : Ghosts(n)'
  BY <1>0, <1>3, ReceiveGhosts DEF Receive
<1>4. ASSUME NEW k \in Node, Finish(k)
      PROVE  quiet' \in Nat /\ \A n \in Node : Ghosts(n)'
  BY <1>0, <1>4, FinishGhosts DEF Finish
<1>5. ASSUME NEW k \in Node, WakeUp(k)
      PROVE  quiet' \in Nat /\ \A n \in Node : Ghosts(n)'
  BY <1>0, <1>5, WakeUpBehind, WakeUpGhosts DEF WakeUp
<1>6. ASSUME NEW k \in Node, Crash(k) \/ Reconfigure(k)
      PROVE  quiet' \in Nat /\ \A n \in Node : Ghosts(n)'
  BY <1>0, <1>6, EventGhosts DEF Crash, Reconfigure
<1>7. CASE Tick
  <2>1. \A n \in Node : Ghosts(n)'
    BY <1>0, <1>7, TickGhosts
  <2>2. quiet' \in Nat
    BY <1>0, <1>7 DEF Tick
  <2> QED
    BY <1>0, <2>1, <2>2 DEF GhostInv
<1>8. CASE UNCHANGED vars
  <2>1. /\ UNCHANGED <<links, phase, nifs, elapsed, queue, received, neighbors, quiet, events>>
        /\ Running' = Running /\ events <= events'
    BY <1>0, <1>8 DEF vars, Running
  <2>2. ASSUME NEW n \in Node
        PROVE  Ghosts(n)'
    <3>1. /\ ReceivedGhosts(n)' /\ NifsGhosts(n)' /\ TableGhosts(n)'
          /\ Behind(n) <= Behind(n)'
      BY <1>0, <2>1, GhostFrame
    <3>2. QueueGhosts(n)'
      BY <1>0, <2>1, <3>1, QueueFrame
    <3> QED
      BY <3>1, <3>2 DEF Ghosts
  <2> QED
    BY <1>0, <2>1, <2>2 DEF GhostInv
<1> QED
  BY <1>0, <1>1, <1>2, <1>3, <1>4, <1>5, <1>6, <1>7, <1>8 DEF Next, NodeStep, GhostInv

LEMMA GhostInit == Init => GhostInv
<1> SUFFICES ASSUME Init PROVE GhostInv
  OBVIOUS
<1>1. RoomInv
  BY RoomInit
<1>2. quiet \in Nat
  <2>1. QuietCap \in Nat
    <3>1. Times(IF MaxEvents = 0 THEN 0 ELSE MaxEvents - 1, Nap) \in Nat
      <4>1. (IF MaxEvents = 0 THEN 0 ELSE MaxEvents - 1) \in Nat
        BY NetworkAssumption
      <4> QED
        BY <4>1, SpanTypes, TimesNext
    <3> QED
      BY <3>1, SpanTypes DEF QuietCap, ForgetAfter, Times
  <2> QED
    BY <2>1 DEF Init
<1>3. ASSUME NEW n \in Node
      PROVE  Ghosts(n)
  <2>1. phase[n] = "off" /\ queue[n] = <<>> /\ received[n] = {} /\ neighbors[n] = {}
    BY DEF Init, TS!EmptySet
  <2> QED
    BY <2>1 DEF Ghosts, QueueGhosts, ReceivedGhosts, NifsGhosts, TableGhosts
<1> QED
  BY <1>1, <1>2, <1>3 DEF GhostInv

LEMMA GhostsGone == GhostInv => GhostsForgotten
<1> SUFFICES ASSUME GhostInv, NEW n \in Node, NEW e \in neighbors[n], e.data \notin Due(n)
             PROVE  ~(quiet > ForgetAfter)
  BY DEF GhostsForgotten, TS!Data, Due
<1>1. /\ TableGhosts(n) /\ quiet \in Nat /\ elapsed[n] \in Nat
      /\ phase[n] = "receive" => elapsed[n] <= Gap
      /\ e.age \in Nat
  <2>1. NetworkInv /\ Ghosts(n) /\ quiet \in Nat
    BY DEF GhostInv, RoomInv
  <2>2. elapsed[n] \in Nat /\ phase[n] = "receive" => elapsed[n] <= Gap
    BY <2>1 DEF NetworkInv, PhaseOK, Gap
  <2>3. elapsed[n] \in Nat
    BY <2>1 DEF NetworkInv, PhaseOK
  <2>4. e \in Entries
    BY <2>1 DEF NetworkInv, NeighborsOK
  <2> QED
    BY <2>1, <2>2, <2>3, <2>4, NetworkAssumption DEF Ghosts, Entries, TS!Entry, AgeCap
<1>2. /\ Rest(phase[n], elapsed[n], e.age) \in Int
      /\ Rest(phase[n], elapsed[n], e.age) <= ActivityPeriod + Leftover + Gap
  BY <1>1, RestType
<1>3. quiet + Nap <= Times(events, Nap) + Leftover + Gap + Rest(phase[n], elapsed[n], e.age)
  BY <1>1 DEF TableGhosts
<1> DEFINE others == IF MaxEvents = 0 THEN 0 ELSE MaxEvents - 1
<1>4. /\ Times(events, Nap) \in Nat /\ Times(others, Nap) \in Nat
      /\ Times(events, Nap) <= Times(others, Nap) + Nap
  <2>1. events \in Nat /\ MaxEvents \in Nat /\ events <= MaxEvents
    BY NetworkAssumption DEF GhostInv, RoomInv
  <2>2. others \in Nat /\ events <= others + 1
    BY <2>1
  <2> HIDE DEF others
  <2>3. others + 1 \in Nat
    BY <2>2
  <2>4. Times(events, Nap) <= Times(others + 1, Nap)
    BY <2>1, <2>2, <2>3, SpanTypes, TimesMonotonic
  <2> QED
    BY <2>1, <2>2, <2>4, SpanTypes, TimesNext
<1>5. ForgetAfter = Times(others, Nap) + 2 * (Leftover + Gap) + ActivityPeriod
  BY DEF ForgetAfter, Times
<1> HIDE DEF others
<1> QED
  BY <1>1, <1>2, <1>3, <1>4, <1>5, SpanTypes

(* Nothing that is gone, of a machine or of a prefix, is listed for longer *)
(* than ForgetAfter once the machines stop crashing and changing           *)
(* (GhostsForgotten), for any machines, periods, losses and queues: what   *)
(* the receive loop (lines 170-261) still finds queued, and the interfaces *)
(* an iteration started with, renew no entry that remove (line 309) would  *)
(* not drop in time.                                                       *)
THEOREM DepartedAreForgotten == SafetySpec => []GhostsForgotten
<1>1. Init => GhostInv
  BY GhostInit
<1>2. GhostInv /\ [Next]_vars => GhostInv'
  BY GhostNext
<1>3. GhostInv => GhostsForgotten
  BY GhostsGone
<1> QED
  BY <1>1, <1>2, <1>3, PTL DEF SafetySpec
=============================================================================
