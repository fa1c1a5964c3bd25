--------------------- MODULE NetworkNeighborDiscoverer ---------------------
(***************************************************************************)
(* The daemon: main (CppNeighborDiscovery.cpp), Process::run               *)
(* (include/Processes/Process.cpp) and NetworkNeighborDiscoverer           *)
(* (include/Network/NetworkNeighborDiscoverer.{hpp,cpp}).                  *)
(*                                                                         *)
(* The process is one thread.  A step is the code between two points at    *)
(* which something outside can be observed: pc names the next one.  The    *)
(* interface table is read by getInterfaces and once per interface that is *)
(* disabled or enabled, so links may change in between; the four calls for *)
(* one interface are one step.                                             *)
(***************************************************************************)
EXTENDS LocalHost

CONSTANTS
    IterationPeriod,   \* Config::ITERATION_PERIOD_SECONDS, in ticks
    SendingPeriod,     \* Config::SENDING_PERIOD_SECONDS
    ActivityPeriod,    \* Config::NEIGHBOR_ACTIVITY_PERIOD_SECONDS
    SocketFailures     \* the sockets whose creation may fail

ASSUME DaemonAssumption ==
    /\ IterationPeriod \in Nat /\ SendingPeriod \in Nat /\ ActivityPeriod \in Nat
    /\ SocketFailures \subseteq Socket

VARIABLES
    pc,            \* the next step of the daemon
    nifs,          \* runIteration's nifs
    prevNifs,      \* the interfaces of the iteration before
    todo,          \* what is left of the loop over nifsToDisable or nifsToEnable
    targets,       \* the senders' targets
    receivedNifs,  \* the map of received interfaces, keyed by MAC
    receivedAny,   \* receivedBytes > 0
    requested,     \* receivedRequestFromCliClient
    neighbors,     \* the table of neighbors
    elapsed,       \* time since the iteration started
    announced,     \* history: the interfaces the last announcement left on
    consumed       \* history: clients whose request this iteration has read

TS == INSTANCE IndexedTimedSet
TX == INSTANCE IPMulticastSender
RX == INSTANCE IPMulticastReceiver

AgeCap == ActivityPeriod + 1
ElapsedCap == IF IterationPeriod > SendingPeriod THEN IterationPeriod ELSE SendingPeriod

daemonVars == <<pc, nifs, prevNifs, todo, targets, receivedNifs, receivedAny,
                requested, neighbors, elapsed, announced, consumed>>

PC == {"off", "terminated", "getInterfaces", "disable", "enable", "sendIPv6",
       "sendIPv4", "receiveIPv6", "receiveIPv4", "accept", "read", "test",
       "handle", "answer", "sleep"}

Running == pc \notin {"off", "terminated"}

TypeOKDaemon ==
    /\ pc \in PC
    /\ nifs \in SUBSET NetInterface
    /\ prevNifs \in SUBSET NetInterface
    /\ todo \in SUBSET NetInterface
    /\ targets \in [Family -> [IfIndex -> 0 .. TX!Many]]
    /\ receivedNifs \in SUBSET NetInterface
    /\ receivedAny \in BOOLEAN
    /\ requested \in BOOLEAN
    /\ neighbors \in SUBSET TS!Entry(Mac, NetInterface, AgeCap)
    /\ elapsed \in 0 .. ElapsedCap
    /\ announced \in [Family -> SUBSET IfIndex]
    /\ consumed \in SUBSET Client

-----------------------------------------------------------------------------
(* The life of the process.                                                *)

(* The members before and after a process: no memory and no descriptors.   *)
InitDaemon ==
    /\ pc = "off"
    /\ nifs = {} /\ prevNifs = {} /\ todo = {}
    /\ targets = [f \in Family |-> TX!NoTargets(IfIndex)]
    /\ receivedNifs = {} /\ receivedAny = FALSE /\ requested = FALSE
    /\ neighbors = TS!EmptySet
    /\ elapsed = 0
    /\ announced = [f \in Family |-> {}]
    /\ consumed = {}
    /\ sockets = {}
    /\ memberships = [f \in Family |-> {}]
    /\ rx = [f \in Family |-> <<>>]
    /\ backlog = <<>> /\ clientSocket = NoClient

(* The process ends: its memory is gone, the kernel closes its sockets.    *)
Exit(how) ==
    /\ pc' = how
    /\ nifs' = {} /\ prevNifs' = {} /\ todo' = {}
    /\ targets' = [f \in Family |-> TX!NoTargets(IfIndex)]
    /\ receivedNifs' = {} /\ receivedAny' = FALSE /\ requested' = FALSE
    /\ neighbors' = TS!EmptySet
    /\ elapsed' = 0
    /\ announced' = [f \in Family |-> {}]
    /\ consumed' = {}
    /\ sockets' = {}
    /\ memberships' = [f \in Family |-> {}]
    /\ rx' = [f \in Family |-> <<>>]
    /\ backlog' = <<>> /\ clientSocket' = NoClient
    /\ UNCHANGED <<link, lastIndex, peerOpen, unread, answers>>

(* main and the constructor: a socket that cannot be created is logged and *)
(* left null.                                                              *)
Start ==
    /\ ~Running
    /\ \E failed \in SUBSET SocketFailures : sockets' = Socket \ failed
    /\ pc' = "getInterfaces"
    /\ UNCHANGED <<link, lastIndex, memberships, rx, connectionVars, nifs,
                   prevNifs, todo, targets, receivedNifs, receivedAny, requested,
                   neighbors, elapsed, announced, consumed>>

(* "exit from loop happens externally by OS" (Process.cpp:53).             *)
Kill ==
    /\ Running /\ "kill" \in Faults
    /\ Exit("off")

(* Mutant of SleepIsOver: the process is created with the longest period.  *)
LongSleepIsOver == elapsed >= ElapsedCap

(* run sleeps for what the iteration left of the period, not at all when   *)
(* it left nothing.                                                        *)
SleepIsOver == elapsed >= IterationPeriod

WakeUp ==
    /\ pc = "sleep" /\ SleepIsOver
    /\ pc' = "getInterfaces" /\ elapsed' = 0
    /\ UNCHANGED <<kernelVars, connectionVars, nifs, prevNifs, todo, targets,
                   receivedNifs, receivedAny, requested, neighbors, announced,
                   consumed>>

-----------------------------------------------------------------------------
(* The interfaces of this iteration.                                       *)

(* The failed FunctionReturn carries no msg: msg.value() throws, and       *)
(* nothing catches.                                                        *)
GetInterfacesFails ==
    /\ pc = "getInterfaces" /\ "getifaddrs" \in Faults
    /\ Exit("terminated")

(* Without an interface the body of the iteration is skipped.              *)
NoInterfaces ==
    /\ pc = "getInterfaces" /\ GetInterfaces = {}
    /\ prevNifs' = {}
    /\ pc' = "sleep"
    /\ UNCHANGED <<kernelVars, connectionVars, nifs, todo, targets, receivedNifs,
                   receivedAny, requested, neighbors, elapsed, announced, consumed>>

(* Mutants of NifsToDisable and NifsToEnable: the filter is dropped.       *)
AllPrevNifs(current) == prevNifs
AllNifs == nifs

NifsToDisable(current) == prevNifs \ current
NifsToEnable == nifs \ prevNifs

FoundInterfaces ==
    /\ pc = "getInterfaces" /\ GetInterfaces # {}
    /\ nifs' = GetInterfaces
    /\ todo' = NifsToDisable(nifs')
    /\ pc' = IF prevNifs = nifs' THEN "sendIPv6" ELSE "disable"
    /\ UNCHANGED <<kernelVars, connectionVars, prevNifs, targets, receivedNifs,
                   receivedAny, requested, neighbors, elapsed, announced, consumed>>

Disable(nif) ==
    LET i == IfNameToIndex(nif.name) IN
    /\ pc = "disable" /\ nif \in todo
    /\ todo' = todo \ {nif}
    /\ \E six \in RX!DisableIPv6(memberships["IPv6"], i),
          four \in RX!DisableIPv4(memberships["IPv4"], DefaultRoute) :
          memberships' = [f \in Family |->
              IF Receiver(f) \notin sockets THEN memberships[f]
              ELSE IF f = "IPv6" THEN six ELSE four]
    /\ targets' = [f \in Family |->
          IF Sender(f) \in sockets THEN TX!RemoveMulticastAddress(targets[f], i)
                                   ELSE targets[f]]
    /\ UNCHANGED <<link, lastIndex, sockets, rx, connectionVars, pc, nifs, prevNifs,
                   receivedNifs, receivedAny, requested, neighbors, elapsed,
                   announced, consumed>>

DisableDone ==
    /\ pc = "disable" /\ todo = {}
    /\ todo' = NifsToEnable
    /\ pc' = "enable"
    /\ UNCHANGED <<kernelVars, connectionVars, nifs, prevNifs, targets, receivedNifs,
                   receivedAny, requested, neighbors, elapsed, announced, consumed>>

Enable(nif) ==
    LET i == IfNameToIndex(nif.name) IN
    /\ pc = "enable" /\ nif \in todo
    /\ todo' = todo \ {nif}
    /\ \E six \in RX!EnableIPv6(memberships["IPv6"], i, UpIndex),
          four \in RX!EnableIPv4(memberships["IPv4"], DefaultRoute) :
          memberships' = [f \in Family |->
              IF Receiver(f) \notin sockets THEN memberships[f]
              ELSE IF f = "IPv6" THEN six ELSE four]
    /\ targets' = [f \in Family |->
          IF Sender(f) \in sockets THEN TX!AddMulticastAddress(targets[f], i)
                                   ELSE targets[f]]
    /\ UNCHANGED <<link, lastIndex, sockets, rx, connectionVars, pc, nifs, prevNifs,
                   receivedNifs, receivedAny, requested, neighbors, elapsed,
                   announced, consumed>>

EnableDone ==
    /\ pc = "enable" /\ todo = {}
    /\ pc' = "sendIPv6"
    /\ UNCHANGED <<kernelVars, connectionVars, nifs, prevNifs, todo, targets,
                   receivedNifs, receivedAny, requested, neighbors, elapsed,
                   announced, consumed>>

-----------------------------------------------------------------------------
(* Sending.                                                                *)

canUseIPv6 == \E nif \in nifs : nif.ips \cap Subnet6 # {}

(* The code computes it from ipv6s as well.                                *)
canUseIPv4 == \E nif \in nifs : nif.ips \cap Subnet6 # {}

CanUse(f) == IF f = "IPv6" THEN canUseIPv6 ELSE canUseIPv4

(* What a send on the sender of this family may reach.                     *)
Reach(f) ==
    IF f = "IPv6" THEN TX!SendIPv6(targets[f], Usable6)
                  ELSE TX!SendIPv4(targets[f], DefaultRoute)

(* The senders leave IP_MULTICAST_LOOP on: the daemon's own receiver gets  *)
(* a copy of each datagram that left on an interface it has joined.        *)
Looped(f, reached) ==
    LET joined == {i \in reached : Arrives(f, i)}
    IN  IF joined = {} THEN {0}
        ELSE IF f = "IPv6" THEN TX!CopiesIPv6(targets[f], joined, RxCapacity)
                           ELSE TX!CopiesIPv4(targets[f], RxCapacity)

Send(f) ==
    IF CanUse(f) /\ Sender(f) \in sockets
    THEN \E reached \in Reach(f) :
           /\ announced' = [announced EXCEPT ![f] = reached]
           /\ \E copies \in Looped(f, reached) :
                 rx' = [rx EXCEPT ![f] =
                           Enqueue(@, [result |-> "ok", nifs |-> nifs], copies)]
    ELSE UNCHANGED <<announced, rx>>

SendIPv6 ==
    /\ pc = "sendIPv6" /\ Send("IPv6")
    /\ pc' = "sendIPv4"
    /\ UNCHANGED <<link, lastIndex, sockets, memberships, connectionVars, nifs,
                   prevNifs, todo, targets, receivedNifs, receivedAny, requested,
                   neighbors, elapsed, consumed>>

SendIPv4 ==
    /\ pc = "sendIPv4" /\ Send("IPv4")
    /\ pc' = "receiveIPv6"
    /\ UNCHANGED <<link, lastIndex, sockets, memberships, connectionVars, nifs,
                   prevNifs, todo, targets, receivedNifs, receivedAny, requested,
                   neighbors, elapsed, consumed>>
-----------------------------------------------------------------------------
(* The receive loop: one datagram per family and one client per pass.      *)

Macs(interfaces) == {nif.mac : nif \in interfaces}

(* receivedNifs[nif.mac] = nif for each interface of a datagram, in turn:  *)
(* of interfaces with the same MAC the last one stays.                     *)
LastOfEachMac(interfaces) ==
    {kept \in SUBSET interfaces :
        /\ Macs(kept) = Macs(interfaces)
        /\ \A a, b \in kept : a.mac = b.mac => a = b}

(* The loop asks for the sender and then uses the receiver.                *)
NullReceiver(f) ==
    CanUse(f) /\ Sender(f) \in sockets /\ Receiver(f) \notin sockets

(* deserialize may throw, and nothing catches.                             *)
Throws(f) ==
    /\ CanUse(f) /\ Sender(f) \in sockets
    /\ rx[f] # <<>> /\ Head(rx[f]).result = "exception"

Receive(f) ==
    IF CanUse(f) /\ Sender(f) \in sockets /\ rx[f] # <<>>
    THEN LET message == Head(rx[f]) IN
         /\ rx' = [rx EXCEPT ![f] = Tail(@)]
         /\ receivedAny' = TRUE
         /\ IF message.result = "ok"
            THEN \E kept \in LastOfEachMac(message.nifs) :
                   receivedNifs' = {nif \in receivedNifs : nif.mac \notin Macs(kept)}
                                       \cup kept
            ELSE UNCHANGED receivedNifs
    ELSE UNCHANGED <<rx, receivedAny, receivedNifs>>

ReceiveIPv6 ==
    /\ pc = "receiveIPv6" /\ ~NullReceiver("IPv6") /\ ~Throws("IPv6")
    /\ Receive("IPv6")
    /\ pc' = "receiveIPv4"
    /\ UNCHANGED <<link, lastIndex, sockets, memberships, connectionVars, nifs,
                   prevNifs, todo, targets, requested, neighbors, elapsed,
                   announced, consumed>>

ReceiveIPv4 ==
    /\ pc = "receiveIPv4" /\ ~NullReceiver("IPv4") /\ ~Throws("IPv4")
    /\ Receive("IPv4")
    /\ pc' = "accept"
    /\ UNCHANGED <<link, lastIndex, sockets, memberships, connectionVars, nifs,
                   prevNifs, todo, targets, requested, neighbors, elapsed,
                   announced, consumed>>

ReceiveFromNull ==
    /\ \/ pc = "receiveIPv6" /\ NullReceiver("IPv6")
       \/ pc = "receiveIPv4" /\ NullReceiver("IPv4")
    /\ Exit("terminated")

ReceiveThrows ==
    /\ \/ pc = "receiveIPv6" /\ Throws("IPv6")
       \/ pc = "receiveIPv4" /\ Throws("IPv4")
    /\ Exit("terminated")

(* acceptClient; the connection accepted in an earlier pass is closed when *)
(* clientSocket is assigned.                                               *)
Accept ==
    /\ pc = "accept" /\ Listening /\ backlog # <<>>
    /\ clientSocket' = Head(backlog)
    /\ backlog' = Tail(backlog)
    /\ pc' = "read"
    /\ UNCHANGED <<kernelVars, peerOpen, unread, answers, nifs, prevNifs, todo,
                   targets, receivedNifs, receivedAny, requested, neighbors,
                   elapsed, announced, consumed>>

NoClientWaiting ==
    /\ pc = "accept" /\ (~Listening \/ backlog = <<>>)
    /\ pc' = "test"
    /\ UNCHANGED <<kernelVars, connectionVars, nifs, prevNifs, todo, targets,
                   receivedNifs, receivedAny, requested, neighbors, elapsed,
                   announced, consumed>>

(* receiveString on the accepted socket, which is a blocking one: the      *)
(* daemon waits here until the client sends or hangs up.                   *)
ReadRequest ==
    /\ pc = "read" /\ clientSocket \in unread
    /\ requested' = TRUE
    /\ unread' = unread \ {clientSocket}
    /\ consumed' = consumed \cup {clientSocket}
    /\ pc' = "test"
    /\ UNCHANGED <<kernelVars, backlog, clientSocket, peerOpen, answers, nifs,
                   prevNifs, todo, targets, receivedNifs, receivedAny, neighbors,
                   elapsed, announced>>

(* read returns 0: an empty string, which is not the request.              *)
ReadEndOfFile ==
    /\ pc = "read" /\ clientSocket \notin unread \cup peerOpen
    /\ pc' = "test"
    /\ UNCHANGED <<kernelVars, connectionVars, nifs, prevNifs, todo, targets,
                   receivedNifs, receivedAny, requested, neighbors, elapsed,
                   announced, consumed>>

(* Mutants of LoopAgain: the loop goes on after a request, or for ever.    *)
LoopAfterRequest == receivedAny /\ elapsed < SendingPeriod
LoopForEver == receivedAny /\ ~requested

(* receivedBytes is never reset, so one datagram keeps the loop spinning.  *)
LoopAgain == receivedAny /\ elapsed < SendingPeriod /\ ~requested

ReceiveAgain ==
    /\ pc = "test" /\ LoopAgain
    /\ pc' = "receiveIPv6"
    /\ UNCHANGED <<kernelVars, connectionVars, nifs, prevNifs, todo, targets,
                   receivedNifs, receivedAny, requested, neighbors, elapsed,
                   announced, consumed>>

ReceiveDone ==
    /\ pc = "test" /\ ~LoopAgain
    /\ pc' = "handle"
    /\ UNCHANGED <<kernelVars, connectionVars, nifs, prevNifs, todo, targets,
                   receivedNifs, receivedAny, requested, neighbors, elapsed,
                   announced, consumed>>

-----------------------------------------------------------------------------
(* The table of neighbors and the answer.                                  *)

(* Mutant of Matched: one address that matches keeps them all.             *)
AllIfMatched(nif) ==
    IF \E local \in nifs : nif.ips \cap local.ips # {} THEN nif.ips ELSE {}

(* The received addresses in a subnet of some local interface.             *)
Matched(nif) == {ip \in nif.ips : \E local \in nifs : ip \in local.ips}

Handle ==
    LET updates == {<<nif.mac, [nif EXCEPT !.ips = Matched(nif)]>> :
                       nif \in {r \in receivedNifs : Matched(r) # {}}}
    IN  /\ pc = "handle"
        /\ neighbors' = TS!RemoveOlder(TS!Update(neighbors, updates), ActivityPeriod)
        /\ receivedNifs' = {}
        /\ pc' = "answer"
        /\ UNCHANGED <<kernelVars, connectionVars, nifs, prevNifs, todo, targets,
                       receivedAny, requested, elapsed, announced, consumed>>

(* Mutant of LocalsDestroyed: the request and the connection are members.  *)
LocalsKept == receivedAny' = FALSE /\ UNCHANGED <<requested, clientSocket>>

(* The end of the iteration: its local variables are destroyed, the        *)
(* client's connection closed.                                             *)
LocalsDestroyed == receivedAny' = FALSE /\ requested' = FALSE /\ clientSocket' = NoClient

Finish ==
    /\ pc' = "sleep"
    /\ prevNifs' = nifs /\ nifs' = {}
    /\ LocalsDestroyed
    /\ announced' = [f \in Family |-> {}] /\ consumed' = {}
    /\ UNCHANGED <<kernelVars, backlog, peerOpen, unread, todo, targets,
                   receivedNifs, neighbors, elapsed>>

(* Mutants of Answering: any accepted connection is answered, or no answer *)
(* is sent when there is no neighbor.                                      *)
AnsweringAnyone == Listening /\ clientSocket # NoClient
AnsweringSomething ==
    requested /\ Listening /\ clientSocket # NoClient /\ neighbors # {}

Answering == requested /\ Listening /\ clientSocket # NoClient

Answer ==
    /\ pc = "answer" /\ Answering /\ clientSocket \in peerOpen
    /\ answers' = [answers EXCEPT ![clientSocket] = Append(@, TS!Data(neighbors))]
    /\ Finish

(* write to a connection whose client is gone raises SIGPIPE, which the    *)
(* daemon does not ignore.                                                 *)
AnswerGoneClient ==
    /\ pc = "answer" /\ Answering /\ clientSocket \notin peerOpen
    /\ Exit("terminated")

NothingToAnswer ==
    /\ pc = "answer" /\ ~Answering
    /\ UNCHANGED answers
    /\ Finish

DaemonStep ==
    \/ WakeUp
    \/ GetInterfacesFails \/ NoInterfaces \/ FoundInterfaces
    \/ \E nif \in todo : Disable(nif) \/ Enable(nif)
    \/ DisableDone \/ EnableDone
    \/ SendIPv6 \/ SendIPv4
    \/ ReceiveIPv6 \/ ReceiveIPv4 \/ ReceiveFromNull \/ ReceiveThrows
    \/ Accept \/ NoClientWaiting \/ ReadRequest \/ ReadEndOfFile
    \/ ReceiveAgain \/ ReceiveDone
    \/ Handle
    \/ Answer \/ AnswerGoneClient \/ NothingToAnswer
=============================================================================
