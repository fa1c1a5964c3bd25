-------------------------- MODULE NeighborNetwork --------------------------
(***************************************************************************)
(* Several machines on one multicast link, each running the daemon.        *)
(*                                                                         *)
(* NeighborDiscoverySystem is one machine step by step.  Here the          *)
(* iteration (runIteration, NetworkNeighborDiscoverer.cpp:40) is reduced   *)
(* to what the others see of it: announce, the receive window, the table.  *)
(* In return the machines are all modelled, each by the same code, their   *)
(* addresses are bits matched by isSameSubnet, and their clocks drift: a   *)
(* window and a sleep may last up to Jitter longer than configured.  Each  *)
(* has an IPv6 address, so that it announces itself; the two families then *)
(* carry the same datagram to the same machines, and are one here: that of *)
(* which a machine gets more copies.                                       *)
(***************************************************************************)
EXTENDS Subnet, Sequences

CONSTANTS
    Node,             \* the machines
    Configured,       \* the interface tables each may have
    IterationPeriod,  \* Config::ITERATION_PERIOD_SECONDS, in ticks
    SendingPeriod,    \* Config::SENDING_PERIOD_SECONDS
    ActivityPeriod,   \* Config::NEIGHBOR_ACTIVITY_PERIOD_SECONDS
    Jitter,           \* how much longer than that a wait may last
    MaxLoss,          \* announcements a machine may miss in a row from another
    Shared,           \* interfaces a machine may have on the link
    MaxCopies,        \* datagrams of one announcement a machine may receive
    RxCapacity,       \* bound: datagrams a receiver socket queues
    MaxEvents         \* bound: crashes, reconfigurations and requests

(* An entry of the kernel's interface table: the addresses with their      *)
(* netmasks, of which getInterfaces makes a NetInterface.                  *)
Link == [mac : STRING, ipv4s : SUBSET IPv4Info, ipv6s : SUBSET [address : Address, netmask : Address]]

ASSUME NetworkAssumption ==
    /\ \A n \in Node :
          /\ Configured[n] # {} /\ Configured[n] \subseteq Seq(Link)
          /\ \A table \in Configured[n] : \E i \in DOMAIN table : table[i].ipv6s # {}
          /\ \A table \in Configured[n] : Len(table) * Shared <= MaxCopies
    /\ Shared \in Nat \ {0} /\ MaxCopies \in Nat \ {0}
    /\ IterationPeriod \in Nat \ {0} /\ SendingPeriod \in Nat \ {0}
    /\ ActivityPeriod \in Nat /\ Jitter \in Nat
    /\ MaxLoss \in Nat /\ RxCapacity \in Nat \ {0} /\ MaxEvents \in Nat

VARIABLES
    links,      \* the interface table of each machine, in getInterfaces' order
    phase,      \* where its daemon is
    nifs,       \* runIteration's nifs, empty between iterations
    elapsed,    \* time since its iteration started
    queue,      \* datagrams waiting in its receiver
    received,   \* receivedNifs
    neighbors,  \* its table of neighbors
    missed,     \* announcements of each machine it has missed in a row
    steady,     \* history: <<n, m>>: n has listed m, and both have run on since
    quiet,      \* history: time since the last crash or reconfiguration
    events      \* crashes, reconfigurations and requests so far

vars == <<links, phase, nifs, elapsed, queue, received, neighbors, missed, steady,
          quiet, events>>

TS == INSTANCE IndexedTimedSet

AgeCap == ActivityPeriod + 1

(* How long a window lasts at most, an iteration that a request ends, and  *)
(* the sleep after a window that none ended.                               *)
Gap == SendingPeriod + Jitter
Nap == IterationPeriod + Jitter
Leftover == IF Nap > SendingPeriod THEN Nap - SendingPeriod ELSE 0

(* What was last announced before the network came to rest is heard of for *)
(* an iteration per request and a window, is listed for the activity       *)
(* period, and is dropped at the end of the window after that.             *)
ForgetAfter ==
    (IF MaxEvents = 0 THEN 0 ELSE MaxEvents - 1) * Nap
        + 2 * (Leftover + Gap) + ActivityPeriod
QuietCap == ForgetAfter + 1

Phase == {"off", "announce", "receive", "sleep"}
Running == {n \in Node : phase[n] # "off"}

NetInterface(l) ==
    [mac |-> l.mac, ipv4s |-> l.ipv4s,
     ipv6s |-> {[address |-> ip.address, prefixLength |-> PrefixLength(ip.netmask)] :
                   ip \in l.ipv6s}]

(* getInterfaces, for each interface table there may be.                   *)
getInterfaces ==
    [table \in UNION {Configured[n] : n \in Node} |->
        [i \in DOMAIN table |-> NetInterface(table[i])]]
Interfaces(n) == getInterfaces[links[n]]

Init ==
    /\ links \in [Node -> UNION {Configured[n] : n \in Node}]
    /\ \A n \in Node : links[n] \in Configured[n]
    /\ phase = [n \in Node |-> "off"]
    /\ nifs = [n \in Node |-> <<>>]
    /\ elapsed = [n \in Node |-> 0]
    /\ queue = [n \in Node |-> <<>>]
    /\ received = [n \in Node |-> {}]
    /\ neighbors = [n \in Node |-> TS!EmptySet]
    /\ missed = [n \in Node |-> [m \in Node |-> 0]]
    /\ steady = {}
    /\ quiet = QuietCap
    /\ events = 0

-----------------------------------------------------------------------------
(* The daemon of one machine.                                              *)

Boot(n) ==
    /\ phase[n] = "off"
    /\ phase' = [phase EXCEPT ![n] = "announce"]
    /\ UNCHANGED <<links, nifs, elapsed, queue, received, neighbors, missed, steady,
                   quiet, events>>

(* What recvfrom finds later: the kernel drops what finds the queue full.  *)
Enqueue(waiting, datagram, copies) ==
    LET room == RxCapacity - Len(waiting)
    IN  waiting \o [i \in 1 .. (IF copies < room THEN copies ELSE room) |-> datagram]

(* How many datagrams of an announcement of n a machine may receive: the   *)
(* sender sends one per target, over IPv4 all by one interface, over IPv6  *)
(* each by its own, and each arrives on every interface on the link.       *)
Copies(n) == 1 .. Len(links[n]) * Shared

(* Mutants of Delivered: datagrams that only loop back, as with no         *)
(* interface set for them to leave on, and targets that were added twice.  *)
DeliveredToSelf(n, copies) ==
    [m \in Node |-> IF m \in DOMAIN copies \cap {n}
                    THEN Enqueue(queue[m], Interfaces(n), copies[m]) ELSE queue[m]]
DeliveredTwice(n, copies) ==
    [m \in Node |-> IF m \in DOMAIN copies
                    THEN Enqueue(queue[m], Interfaces(n), 2 * copies[m]) ELSE queue[m]]

(* The queues once so many copies have reached each of these machines.     *)
Delivered(n, copies) ==
    [m \in Node |-> IF m \in DOMAIN copies
                    THEN Enqueue(queue[m], Interfaces(n), copies[m]) ELSE queue[m]]

(* getInterfaces and "send own interfaces": to every running daemon,       *)
(* itself included since the senders leave the loop on.  All copies, or    *)
(* all but some, may get lost on the way to the others, or find a full     *)
(* queue.                                                                  *)
Announce(n) ==
    /\ phase[n] = "announce"
    /\ nifs' = [nifs EXCEPT ![n] = Interfaces(n)]
    /\ \E lost \in SUBSET (Running \ {n}) :
         /\ \A m \in lost : missed[m][n] < MaxLoss
         /\ missed' = [m \in Node |-> [missed[m] EXCEPT ![n] =
                          IF m \in lost THEN @ + 1 ELSE 0]]
         /\ \E copies \in [Running \ lost -> Copies(n)] : queue' = Delivered(n, copies)
    /\ phase' = [phase EXCEPT ![n] = "receive"]
    /\ UNCHANGED <<links, elapsed, received, neighbors, steady, quiet, events>>

(* Mutant of LastOfEachMac: receivedNifs keyed by more than the MAC.       *)
EveryOne(list) == {list[i] : i \in DOMAIN list}

(* receivedNifs[nif.mac] = nif for each interface in turn: of those with   *)
(* the same MAC the last one stays.                                        *)
LastOfEachMac(list) ==
    {list[i] : i \in {j \in DOMAIN list :
                         \A k \in DOMAIN list : k > j => list[k].mac # list[j].mac}}

(* A pass of the receive loop that finds a datagram.                       *)
Receive(n) ==
    /\ phase[n] = "receive" /\ queue[n] # <<>>
    /\ LET last == LastOfEachMac(Head(queue[n])) IN
         received' = [received EXCEPT ![n] =
             {r \in @ : \A nif \in last : nif.mac # r.mac} \cup last]
    /\ queue' = [queue EXCEPT ![n] = Tail(@)]
    /\ UNCHANGED <<links, phase, nifs, elapsed, neighbors, missed, steady, quiet, events>>

(* The addresses of a received interface that are in the subnet of an      *)
(* address of some local interface.                                        *)
Filtered(local, nif) ==
    [nif EXCEPT
        !.ipv4s = {r \in @ : \E i \in DOMAIN local : \E l \in local[i].ipv4s :
                                 IsSameSubnet4(l, r)},
        !.ipv6s = {r \in @ : \E i \in DOMAIN local : \E l \in local[i].ipv6s :
                                 IsSameSubnet6(l, r)}]

(* Interfaces left without an address are dropped.                         *)
Matched(local, interfaces) ==
    {nif \in {Filtered(local, r) : r \in interfaces} : nif.ipv4s # {} \/ nif.ipv6s # {}}

(* What machine n should list of machine m.                                *)
Visible(n, m) == Matched(Interfaces(n), LastOfEachMac(Interfaces(m)))

(* Machines whose interfaces, as they are now, this update refreshes.      *)
Refreshed(n, interfaces) == {m \in Running : Visible(n, m) \subseteq interfaces}

(* After at least one pass the window ends with the period, or sooner when *)
(* a CLI program has asked.                                                *)
WindowOver(n) ==
    \/ elapsed[n] >= SendingPeriod /\ UNCHANGED events
    \/ elapsed[n] < SendingPeriod /\ events < MaxEvents /\ events' = events + 1

(* The end of the window: "handle received network interfaces".            *)
Finish(n) ==
    LET matched == Matched(nifs[n], received[n])
    IN  /\ phase[n] = "receive" /\ received[n] # {} /\ WindowOver(n)
        /\ neighbors' = [neighbors EXCEPT ![n] =
               TS!RemoveOlder(TS!Update(@, {<<nif.mac, nif>> : nif \in matched}),
                              ActivityPeriod)]
        /\ received' = [received EXCEPT ![n] = {}]
        /\ nifs' = [nifs EXCEPT ![n] = <<>>]
        /\ phase' = [phase EXCEPT ![n] = "sleep"]
        /\ steady' = steady \cup {<<n, m>> : m \in Refreshed(n, matched)}
        /\ UNCHANGED <<links, elapsed, queue, missed, quiet>>

(* Process::run: what is left of the period, nothing when the window       *)
(* lasted longer than the period.                                          *)
WakeUp(n) ==
    /\ phase[n] = "sleep" /\ elapsed[n] >= IterationPeriod
    /\ phase' = [phase EXCEPT ![n] = "announce"]
    /\ elapsed' = [elapsed EXCEPT ![n] = 0]
    /\ UNCHANGED <<links, nifs, queue, received, neighbors, missed, steady, quiet, events>>

NodeStep(n) == Announce(n) \/ Receive(n) \/ Finish(n) \/ WakeUp(n)

-----------------------------------------------------------------------------
(* What happens to the machines, and time.                                 *)

Unsteady(n) == {p \in steady : p[1] # n /\ p[2] # n}

(* The daemon is ended from outside; its memory is gone.                   *)
Crash(n) ==
    /\ events < MaxEvents /\ phase[n] # "off"
    /\ phase' = [phase EXCEPT ![n] = "off"]
    /\ nifs' = [nifs EXCEPT ![n] = <<>>]
    /\ elapsed' = [elapsed EXCEPT ![n] = 0]
    /\ queue' = [queue EXCEPT ![n] = <<>>]
    /\ received' = [received EXCEPT ![n] = {}]
    /\ neighbors' = [neighbors EXCEPT ![n] = TS!EmptySet]
    /\ missed' = [missed EXCEPT ![n] = [m \in Node |-> 0]]
    /\ steady' = Unsteady(n)
    /\ quiet' = 0 /\ events' = events + 1
    /\ UNCHANGED links

(* The interfaces of a machine change under its daemon.                    *)
Reconfigure(n) ==
    /\ events < MaxEvents
    /\ \E l \in Configured[n] \ {links[n]} : links' = [links EXCEPT ![n] = l]
    /\ steady' = Unsteady(n)
    /\ quiet' = 0 /\ events' = events + 1
    /\ UNCHANGED <<phase, nifs, elapsed, queue, received, neighbors, missed>>

(* A daemon waits in its receive loop, which takes what arrives at once,   *)
(* or sleeps; each wait may last Jitter longer than it should.             *)
Waits(n) ==
    \/ phase[n] = "off"
    \/ phase[n] = "receive" /\ queue[n] = <<>> /\ elapsed[n] < SendingPeriod + Jitter
    \/ phase[n] = "sleep" /\ elapsed[n] < IterationPeriod + Jitter

Tick ==
    /\ Running # {} /\ \A n \in Node : Waits(n)
    /\ elapsed' = [n \in Node |-> IF n \in Running THEN elapsed[n] + 1 ELSE 0]
    /\ neighbors' = [n \in Node |-> TS!Aged(neighbors[n], AgeCap)]
    /\ quiet' = IF quiet < QuietCap THEN quiet + 1 ELSE quiet
    /\ UNCHANGED <<links, phase, nifs, queue, received, missed, steady, events>>

Next ==
    \/ \E n \in Node : Boot(n) \/ NodeStep(n) \/ Crash(n) \/ Reconfigure(n)
    \/ Tick

(* Every daemon keeps being scheduled, and time passes.                    *)
Fairness == WF_vars(Tick) /\ \A n \in Node : WF_vars(NodeStep(n))

SafetySpec == Init /\ [][Next]_vars
Spec == SafetySpec /\ Fairness

-----------------------------------------------------------------------------
(* Properties.                                                             *)

NetInterfaceType == [mac : STRING, ipv4s : SUBSET IPv4Info, ipv6s : SUBSET IPv6Info]

(* The variables stay in their types, and receivedNifs and the table are   *)
(* maps: no two of their interfaces share a MAC (lines 190 and 294).       *)
TypeOK ==
    \A n \in Node :
        /\ links[n] \in Configured[n]
        /\ phase[n] \in Phase
        /\ elapsed[n] \in 0 .. SendingPeriod + IterationPeriod + Jitter
        /\ Len(queue[n]) <= RxCapacity
        /\ \A r \in received[n] : r \in NetInterfaceType
        /\ \A r, s \in received[n] : r.mac = s.mac => r = s
        /\ \A e \in neighbors[n] :
              e.data \in NetInterfaceType /\ e.index = e.data.mac /\ e.age \in 0 .. AgeCap
        /\ \A e, f \in neighbors[n] : e.index = f.index => e = f
        /\ \A m \in Node : missed[n][m] \in 0 .. MaxLoss

(* A machine that keeps its addresses lists nothing but interfaces with an *)
(* address in the prefix, or under the netmask, of one of its own ("CLI    *)
(* returns network interfaces only with matching subnet/prefix IPs",       *)
(* README.md:11).                                                          *)
Local(n) == {Interfaces(n)[i] : i \in DOMAIN links[n]}

ListedShareAPrefix ==
    \A n \in {k \in Node : Configured[k] = {links[k]}} :
        \A e \in neighbors[n] :
            /\ e.data.ipv4s # {} \/ e.data.ipv6s # {}
            /\ \A r \in e.data.ipv4s :
                  \E l \in UNION {nif.ipv4s : nif \in Local(n)} : SameMasked(l, r)
            /\ \A r \in e.data.ipv6s :
                  \E l \in UNION {nif.ipv6s : nif \in Local(n)} : SamePrefix(l, r)

(* The receive loops keep up with what the machines announce: although a   *)
(* window that a request ends takes as little as one datagram, and each    *)
(* machine sends one per target in every iteration, no receiver's queue is *)
(* ever full, so that of no announcement all copies would be dropped on    *)
(* arrival, which no bound on losses would cover.                          *)
QueuesHaveRoom == \A n \in Node : Len(queue[n]) < RxCapacity

(* A machine that was listed and has run on since is never dropped: lost   *)
(* announcements and waits that last longer than configured do not add up  *)
(* to a silence that the activity period takes for a departure.  It takes  *)
(* ActivityPeriod >= (MaxLoss + 1) * (SendingPeriod + Jitter), and with    *)
(* three machines IterationPeriod + Jitter more for each request but the   *)
(* first; Config.hpp sets ActivityPeriod and SendingPeriod to the same.    *)
SteadyNeighborsKept ==
    \A p \in steady :
        \A nif \in Visible(p[1], p[2]) : \E e \in neighbors[p[1]] : e.data = nif

(* What crashed, moved or changed is not listed for ever: so long after    *)
(* the last crash or change, no table has an interface that no running     *)
(* machine has, or one in a prefix its machine has left.  Neither datagrams *)
(* still queued behind others, nor an iteration that works with the old    *)
(* interfaces, nor its update renew an entry later than that.              *)
GhostsForgotten ==
    quiet > ForgetAfter =>
        \A n \in Node :
            TS!Data(neighbors[n]) \subseteq UNION {Visible(n, m) : m \in Running}

(* Once the machines stop crashing and changing, each running one lists    *)
(* all the interfaces it should, those of running machines, and no others: *)
(* what crashed, moved or was announced before expires, what is announced  *)
(* gets through, and nothing flaps.                                        *)
Converged(n) ==
    TS!Data(neighbors[n]) = UNION {Visible(n, m) : m \in Running}

TablesConverge ==
    <>[](\A n \in Running : Converged(n))
=============================================================================
