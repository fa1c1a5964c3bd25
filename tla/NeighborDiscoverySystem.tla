---------------------- MODULE NeighborDiscoverySystem ----------------------
(***************************************************************************)
(* One machine: the daemon, the CLI programs run on it, its interfaces and *)
(* the neighbors that announce themselves to it, and time.                 *)
(*                                                                         *)
(* Time advances in ticks, and only where the code waits: computation      *)
(* takes none.  A tick is a duration that divides every period of Config.  *)
(***************************************************************************)
EXTENDS NetworkNeighborDiscoverer, CppCliNeighborRequestor

CONSTANTS
    InitialLink,   \* the interface tables the machine may boot with
    Events,        \* what may happen to the interfaces and to the neighbors
    Addresses,     \* the sets of addresses an interface may be given
    Host,          \* other machines running the daemon
    HostLink,      \* the interface of this machine each Host reaches
    Announcement,  \* the datagram each Host sends
    HostTargets,   \* the targets it sends it to, at most
    Stalling,      \* programs that may be stopped between two of their steps
    SilenceCap     \* bound: how far the silence of a Host is counted

ASSUME SystemAssumption ==
    /\ InitialLink \subseteq [IfName -> Link]
    /\ Addresses \subseteq SUBSET Ip
    /\ HostLink \in [Host -> IfName]
    /\ Announcement \in [Host -> Message]
    /\ HostTargets \in [Host -> Nat \ {0}]
    /\ SilenceCap \in Nat \ {0}

VARIABLES
    departed,  \* hosts that have stopped announcing
    silence    \* history: time since a datagram of each Host was queued

environmentVars == <<departed, silence>>
vars == <<kernelVars, connectionVars, daemonVars, clientVars, environmentVars>>

-----------------------------------------------------------------------------
(* The interfaces.                                                         *)

(* "outage": the last interface that is up may go down as well.            *)
SetDown(n) ==
    /\ "down" \in Events /\ n \in Up
    /\ Up # {n} \/ "outage" \in Events
    /\ link' = [link EXCEPT ![n].up = FALSE]
    /\ UNCHANGED lastIndex

SetUp(n) ==
    /\ "down" \in Events /\ link[n].index # 0 /\ ~link[n].up
    /\ link' = [link EXCEPT ![n].up = TRUE]
    /\ UNCHANGED lastIndex

Readdress(n) ==
    /\ "readdress" \in Events /\ n \in Up
    /\ \E ips \in Addresses : link' = [link EXCEPT ![n].ips = ips]
    /\ UNCHANGED lastIndex

Unplug(n) ==
    /\ "unplug" \in Events /\ link[n].index # 0
    /\ Up # {n} \/ "outage" \in Events
    /\ link' = [link EXCEPT ![n] = [index |-> 0, up |-> FALSE, ips |-> {}]]
    /\ UNCHANGED lastIndex

(* An interface that is plugged in gets an index never used before.        *)
Plug(n) ==
    /\ "unplug" \in Events /\ link[n].index = 0 /\ lastIndex < MaxIndex
    /\ lastIndex' = lastIndex + 1
    /\ \E ips \in Addresses :
          link' = [link EXCEPT ![n] = [index |-> lastIndex + 1, up |-> TRUE, ips |-> ips]]

LinkStep ==
    /\ \E n \in IfName : SetDown(n) \/ SetUp(n) \/ Readdress(n) \/ Unplug(n) \/ Plug(n)
    /\ UNCHANGED <<sockets, memberships, rx, connectionVars, daemonVars, clientVars,
                   environmentVars>>

-----------------------------------------------------------------------------
(* The neighbors.                                                          *)

(* A host announces itself at most once per tick (its own period is        *)
(* longer).  Copies of its datagram, one per target or fewer, reach the    *)
(* receivers of some families, and are lost to one that has not joined on  *)
(* the interface or whose queue is full.                                   *)
Announce(h) ==
    /\ h \notin departed /\ silence[h] > 0
    /\ \E reached \in (SUBSET {f \in Family : /\ Arrives(f, IfNameToIndex(HostLink[h]))
                                            /\ Len(rx[f]) < RxCapacity}) \ {{}} :
       \E copies \in [reached -> 1 .. HostTargets[h]] :
          rx' = [f \in Family |->
                    IF f \in reached THEN Enqueue(rx[f], Announcement[h], copies[f])
                                     ELSE rx[f]]
    /\ silence' = [silence EXCEPT ![h] = 0]
    /\ UNCHANGED <<link, lastIndex, sockets, memberships, connectionVars, daemonVars,
                   clientVars, departed>>

Depart(h) ==
    /\ "depart" \in Events /\ h \notin departed
    /\ departed' = departed \cup {h}
    /\ UNCHANGED <<kernelVars, connectionVars, daemonVars, clientVars, silence>>

-----------------------------------------------------------------------------
(* Time.                                                                   *)

(* Where the daemon waits: in sleep, in the read of an accepted socket, in *)
(* the receive loop when a pass finds nothing to do (the loop spins, so it *)
(* takes what arrives at once), or because it is not running.              *)
NothingArrived ==
    /\ backlog = <<>> \/ ~Listening
    /\ \A f \in Family : rx[f] # <<>> => ~CanUse(f) \/ Sender(f) \notin sockets

DaemonWaits ==
    \/ pc = "sleep" /\ ~SleepIsOver
    \/ pc = "read" /\ clientSocket \in peerOpen \ unread
    \/ pc = "test" /\ LoopAgain /\ NothingArrived
    \/ ~Running

(* The programs have nothing to do but wait either.                        *)
ProgramsWait ==
    \A c \in Client \ Stalling :
        /\ clientState[c] # "connected"
        /\ clientState[c] = "waiting" => answers[c] = <<>> /\ waited[c] < CliWait

(* The silence of a host nothing can be read from is not told apart.       *)
SilenceBound(h) == IF Announcement[h].result = "ok" THEN SilenceCap ELSE 1

Advance(t, cap) == IF t < cap THEN t + 1 ELSE cap

Tick ==
    /\ DaemonWaits /\ ProgramsWait
    /\ neighbors' = TS!Aged(neighbors, AgeCap)
    /\ elapsed' = IF Running THEN Advance(elapsed, ElapsedCap) ELSE elapsed
    /\ waited' = [c \in Client |-> IF clientState[c] = "waiting"
                                   THEN Advance(waited[c], CliWait) ELSE waited[c]]
    /\ silence' = [h \in Host |-> Advance(silence[h], SilenceBound(h))]
    /\ UNCHANGED <<kernelVars, connectionVars, pc, nifs, prevNifs, todo, targets,
                   receivedNifs, receivedAny, requested, announced, consumed,
                   clientState, departed>>

-----------------------------------------------------------------------------
Init ==
    /\ InitDaemon /\ InitClient
    /\ link \in InitialLink
    /\ lastIndex \in IfIndex /\ \A n \in IfName : link[n].index <= lastIndex
    /\ \A i \in IfIndex : (\A n \in IfName : link[n].index <= i) => lastIndex <= i
    /\ departed = {}
    /\ silence = [h \in Host |-> SilenceBound(h)]

Next ==
    \/ (Start \/ Kill \/ DaemonStep) /\ UNCHANGED <<clientVars, environmentVars>>
    \/ (\E c \in Client : ClientStep(c)) /\ UNCHANGED <<daemonVars, environmentVars>>
    \/ LinkStep
    \/ \E h \in Host : Announce(h) \/ Depart(h)
    \/ Tick

(* The daemon and the programs are never stopped for good by the           *)
(* scheduler, and time passes: strongly fair, because the receive loop     *)
(* spins through its other steps between two clock readings.               *)
Fairness ==
    /\ WF_vars(DaemonStep /\ UNCHANGED <<clientVars, environmentVars>>)
    /\ \A c \in Client :
          WF_vars((SendRequest(c) \/ SendRequestFails(c) \/ ReceiveAnswer(c)
                      \/ ReceiveFails(c) \/ TimeOut(c))
                    /\ UNCHANGED <<daemonVars, environmentVars>>)
    /\ SF_vars(Tick)

SafetySpec == Init /\ [][Next]_vars
Spec == SafetySpec /\ Fairness

-----------------------------------------------------------------------------
(* Properties.                                                             *)

(* Every variable stays in its type: what LocalHost, the daemon and the    *)
(* CLI program may hold, the bounds of the counters included.              *)
TypeOK ==
    /\ TypeOKLocalHost /\ TypeOKDaemon /\ TypeOKClient
    /\ departed \in SUBSET Host
    /\ silence \in [Host -> 0 .. SilenceCap]

(* From the enable loop on, the senders' targets and the IPv6 receiver's   *)
(* memberships are those of the interfaces of this iteration, each once:   *)
(* the difference with prevNifs that runIteration applies (lines 71-147)   *)
(* neither loses an interface that changed nor leaves one that is gone.    *)
IndexOf(interfaces) == {IfNameToIndex(nif.name) : nif \in interfaces}

InterfacesMirrored ==
    nifs # {} /\ pc \notin {"disable", "enable"} =>
        /\ memberships["IPv6"] = IndexOf(nifs)
        /\ \A f \in Family :
              targets[f] = [i \in IfIndex |-> IF i \in IndexOf(nifs) THEN 1 ELSE 0]

(* When no interface has changed since getInterfaces, the announcement     *)
(* leaves on every one of them that can carry it ("to send all of its      *)
(* network interface data over all available network interfaces",          *)
(* README.md:13; IPMulticastSender::send stops at the first target that    *)
(* fails).                                                                 *)
AnnouncesOverEveryInterface ==
    [][pc = "sendIPv6" /\ pc' = "sendIPv4" /\ GetInterfaces = nifs =>
          IndexOf(nifs) \cap Usable6 \subseteq announced'["IPv6"]]_vars

(* Over IPv4 ("uses multicast sockets on IPv4 and IPv6", README.md:13) the *)
(* announcement is sent at all, when there is an IPv4 route out.           *)
AnnouncesOnIPv4 ==
    [][pc = "sendIPv4" /\ pc' = "receiveIPv6" /\ GetInterfaces = nifs
          /\ DefaultRoute # {} /\ Sender("IPv4") \in sockets =>
             announced'["IPv4"] # {}]_vars

(* To all of them, too: the announcement is sent on every interface that   *)
(* has an IPv4 address ("over all available network interfaces",           *)
(* README.md:13; the code picks the interface of every IPv4 target with    *)
(* INADDR_ANY, IPMulticastSender.hpp:195).                                 *)
AnnouncesIPv4OverEveryInterface ==
    [][pc = "sendIPv4" /\ pc' = "receiveIPv6" /\ GetInterfaces = nifs
          /\ Sender("IPv4") \in sockets =>
             IndexOf({nif \in nifs : nif.ips \cap Subnet4 # {}}) \subseteq announced'["IPv4"]]_vars

(* A request that was read is answered before the iteration ends, unless   *)
(* its program is gone: no later connection takes its place in             *)
(* clientSocket, and no path around the answer forgets it.                 *)
ReadRequestsAreAnswered ==
    [][\A c \in consumed \ consumed' :
          pc' = "sleep" /\ c \in peerOpen => Len(answers'[c]) = Len(answers[c]) + 1]_vars

(* A program is sent one answer and only after its request was read: what  *)
(* runIteration keeps of one client does not outlive the iteration, with   *)
(* programs that hang up or are slow and a daemon that dies and restarts.  *)
OneAnswerPerRequest ==
    \A c \in Client : answers[c] # <<>> => Len(answers[c]) = 1 /\ c \notin unread

(* The daemon's loop ends from outside only ("exit from loop happens       *)
(* externally by OS (Ctr+C, kill etc.)", Process.cpp:53).                  *)
OnlyExternalExit == pc # "terminated"

(* No program reaches its timeout while the daemon runs: CliWait covers    *)
(* the sleep of the daemon and the iterations that serve those before it,  *)
(* one per iteration.                                                      *)
NoClientTimesOut ==
    \A c \in Client :
        clientState[c] = "waiting" /\ waited[c] >= CliWait => answers[c] # <<>>

(* The table holds only addresses in a subnet of a local interface, when   *)
(* an answer is taken from it ("CLI returns network interfaces only with   *)
(* matching subnet/prefix IPs", README.md:11).                             *)
AnswersMatchLocalSubnets ==
    pc = "answer" /\ requested =>
        \A e \in neighbors : e.data.ips # {}
            /\ e.data.ips \subseteq UNION {nif.ips : nif \in nifs}

NeighborsOf(h) == {e \in neighbors : e.index \in Macs(Announcement[h].nifs)}

(* A host silent for longer than ForgetAfter is not in the table.  Its     *)
(* last datagram may wait for an iteration behind each datagram queued     *)
(* before it (a request ends the receive loop after one pass); the table   *)
(* stamps it only at the end of the receive window, and drops it when it   *)
(* is older than ActivityPeriod: three terms, of which the code names only *)
(* the last.                                                               *)
ForgetAfter == RxCapacity * IterationPeriod + SendingPeriod + ActivityPeriod

SilentHostsForgotten ==
    pc = "answer" =>
        \A h \in Host : silence[h] > ForgetAfter => NeighborsOf(h) = {}

(* A host that announced itself within ActivityPeriod, in a local subnet,  *)
(* is in the table whenever the receivers have been drained.               *)
HeardHostsKept ==
    pc = "answer" /\ (\A f \in Family : rx[f] = <<>>) =>
        \A h \in Host : silence[h] <= ActivityPeriod =>
            \A nif \in Announcement[h].nifs :
                Matched(nif) # {} => \E e \in neighbors : e.index = nif.mac

(* The iteration comes round again as long as the process lives: neither   *)
(* the receive loop nor a client holds it for ever.                        *)
IterationsRepeat == []<>(~Running \/ pc = "getInterfaces")

(* A program that waits for its answer ends.                               *)
RequestsEnd ==
    \A c \in Client : clientState[c] = "waiting" ~> clientState[c] # "waiting"

(* The neighbors of a host that stopped announcing leave the table.        *)
DepartedHostsForgotten ==
    \A h \in Host : h \in departed ~> [](NeighborsOf(h) = {})
=============================================================================
