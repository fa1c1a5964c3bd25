---------------------- MODULE NeighborDiscoveryProofs ----------------------
(***************************************************************************)
(* Theorems about NeighborDiscoverySystem, for every value of its          *)
(* constants that satisfies the named assumptions.                         *)
(***************************************************************************)
EXTENDS NeighborDiscoverySystem, SequenceTheorems, TLAPS

-----------------------------------------------------------------------------
(* The operators the daemon is built from.                                 *)

(* update yields a table of entries again.                                 *)
LEMMA UpdateType ==
    ASSUME NEW S \in SUBSET TS!Entry(Mac, NetInterface, AgeCap),
           NEW pairs \in SUBSET (Mac \X NetInterface)
    PROVE  TS!Update(S, pairs) \in SUBSET TS!Entry(Mac, NetInterface, AgeCap)
<1>1. AgeCap \in Nat /\ 0 \in 0 .. AgeCap
  BY DaemonAssumption DEF AgeCap
<1>2. \A p \in pairs : p[1] \in Mac /\ p[2] \in NetInterface
  OBVIOUS
<1> QED
  BY <1>1, <1>2 DEF TS!Update, TS!Entry

(* The passing of time yields a table of entries again.                    *)
LEMMA AgedType ==
    ASSUME NEW S \in SUBSET TS!Entry(Mac, NetInterface, AgeCap)
    PROVE  TS!Aged(S, AgeCap) \in SUBSET TS!Entry(Mac, NetInterface, AgeCap)
<1>1. AgeCap \in Nat
  BY DaemonAssumption DEF AgeCap
<1>2. ASSUME NEW e \in S
      PROVE  [e EXCEPT !.age = IF @ < AgeCap THEN @ + 1 ELSE @]
                \in TS!Entry(Mac, NetInterface, AgeCap)
  BY <1>1 DEF TS!Entry
<1> QED
  BY <1>2 DEF TS!Aged

(* data() yields interfaces.                                               *)
LEMMA DataType ==
    ASSUME NEW S \in SUBSET TS!Entry(Mac, NetInterface, AgeCap)
    PROVE  TS!Data(S) \in SUBSET NetInterface
  BY DEF TS!Data, TS!Entry

(* A receiver's queue holds messages.                                      *)
LEMMA EnqueueType ==
    ASSUME NEW queue \in Seq(Message), NEW message \in Message, NEW copies \in Nat
    PROVE  Enqueue(queue, message, copies) \in Seq(Message)
<1> DEFINE room == RxCapacity - Len(queue)
           n == IF copies < room THEN copies ELSE room
           more == [i \in 1 .. n |-> message]
<1>1. more \in Seq(Message)
  <2>1. n \in Int
    BY LocalHostAssumption
  <2>2. CASE n \in Nat
    BY <2>2
  <2>3. CASE n \notin Nat
    <3>1. 1 .. n = 1 .. 0
      BY <2>1, <2>3
    <3>2. more = [i \in 1 .. 0 |-> message]
      BY <3>1
    <3>3. [i \in 1 .. 0 |-> message] \in Seq(Message)
      OBVIOUS
    <3> HIDE DEF more
    <3> QED
      BY <3>2, <3>3
  <2> QED
    BY <2>2, <2>3
<1> QED
  BY <1>1, ConcatProperties DEF Enqueue

(* getInterfaces yields interfaces.                                        *)
LEMMA GetInterfacesType ==
    ASSUME TypeOKLocalHost
    PROVE  GetInterfaces \in SUBSET NetInterface
  BY LocalHostAssumption DEF GetInterfaces, TypeOKLocalHost, NetInterface, Up, Link

(* if_nametoindex and the routing table yield interface indices.           *)
LEMMA IndexType ==
    ASSUME TypeOKLocalHost
    PROVE  /\ \A n \in IfName : IfNameToIndex(n) \in IfIndex
           /\ UpIndex \subseteq IfIndex
           /\ DefaultRoute \subseteq IfIndex
           /\ Usable6 \subseteq IfIndex
  BY DEF TypeOKLocalHost, IfNameToIndex, UpIndex, DefaultRoute, Usable6, Up, Link

(* A sender's targets stay a bag of interface indices.                     *)
LEMMA TargetsType ==
    ASSUME NEW t \in [IfIndex -> 0 .. TX!Many], NEW i \in IfIndex
    PROVE  /\ TX!AddMulticastAddress(t, i) \in [IfIndex -> 0 .. TX!Many]
           /\ TX!RemoveMulticastAddress(t, i) \in [IfIndex -> 0 .. TX!Many]
  BY DEF TX!AddMulticastAddress, TX!RemoveMulticastAddress, TX!Many

(* The daemon hears itself a number of times.                              *)
LEMMA LoopedType ==
    ASSUME NEW f, NEW reached, NEW copies \in Looped(f, reached)
    PROVE  copies \in Nat
  BY LocalHostAssumption DEF Looped, TX!CopiesIPv6, TX!CopiesIPv4, TX!Copies

(* What a datagram leaves on is a set of interface indices.                *)
LEMMA ReachType ==
    ASSUME TypeOKLocalHost, TypeOKDaemon, NEW f \in Family, NEW reached \in Reach(f)
    PROVE  reached \in SUBSET IfIndex
<1>1. targets[f] \in [IfIndex -> 0 .. TX!Many]
  BY DEF TypeOKDaemon
<1>2. TX!Targeted(targets[f]) \subseteq IfIndex
  BY <1>1 DEF TX!Targeted
<1> QED
  BY <1>2, IndexType DEF Reach, TX!SendIPv6, TX!SendIPv4

-----------------------------------------------------------------------------
(* Type correctness: every initial state is typed.                         *)
LEMMA InitType == Init => TypeOK
<1> SUFFICES ASSUME Init PROVE TypeOK
  OBVIOUS
<1>1. 0 \in 0 .. ElapsedCap
  BY DaemonAssumption DEF ElapsedCap
<1>2. TypeOKLocalHost
  BY SystemAssumption DEF Init, InitDaemon, InitClient, TypeOKLocalHost, Socket
<1>3. TypeOKDaemon
  <2>1. targets \in [Family -> [IfIndex -> 0 .. TX!Many]]
    <3>1. TX!NoTargets(IfIndex) \in [IfIndex -> 0 .. TX!Many]
      BY DEF TX!NoTargets, TX!Many
    <3> QED
      BY <3>1 DEF Init, InitDaemon
  <2>2. pc \in PC /\ neighbors \in SUBSET TS!Entry(Mac, NetInterface, AgeCap)
    BY DEF Init, InitDaemon, PC, TS!EmptySet
  <2> QED
    BY <1>1, <2>1, <2>2 DEF Init, InitDaemon, TypeOKDaemon
<1>4. TypeOKClient
  BY CliAssumption DEF Init, InitClient, TypeOKClient, ClientState
<1>5. departed \in SUBSET Host /\ silence \in [Host -> 0 .. SilenceCap]
  BY SystemAssumption DEF Init, SilenceBound
<1> QED
  BY <1>2, <1>3, <1>4, <1>5 DEF TypeOK

-----------------------------------------------------------------------------
(* Type correctness: the steps.                                            *)

(* The end of the process leaves the types alone, however it ends.         *)
LEMMA ExitType ==
    ASSUME TypeOK, NEW how \in {"off", "terminated"}, Exit(how),
           UNCHANGED <<clientVars, environmentVars>>
    PROVE  TypeOK'
<1>1. 0 \in 0 .. ElapsedCap
  BY DaemonAssumption DEF ElapsedCap
<1>2. TypeOKLocalHost'
  BY DEF Exit, TypeOK, TypeOKLocalHost
<1>3. TypeOKDaemon'
  <2>1. targets' \in [Family -> [IfIndex -> 0 .. TX!Many]]
    <3>1. TX!NoTargets(IfIndex) \in [IfIndex -> 0 .. TX!Many]
      BY DEF TX!NoTargets, TX!Many
    <3> QED
      BY <3>1 DEF Exit
  <2>2. pc' \in PC /\ neighbors' \in SUBSET TS!Entry(Mac, NetInterface, AgeCap)
    BY DEF Exit, PC, TS!EmptySet
  <2> QED
    BY <1>1, <2>1, <2>2 DEF Exit, TypeOKDaemon
<1>4. TypeOKClient' /\ (departed \in SUBSET Host /\ silence \in [Host -> 0 .. SilenceCap])'
  BY DEF TypeOK, TypeOKClient, clientVars, environmentVars
<1> QED
  BY <1>2, <1>3, <1>4 DEF TypeOK

(* The steps of the daemon that only move pc and its local variables.      *)
LEMMA ControlType ==
    ASSUME TypeOK, UNCHANGED <<clientVars, environmentVars>>,
           \/ Start \/ WakeUp \/ NoInterfaces \/ FoundInterfaces
           \/ DisableDone \/ EnableDone
           \/ Accept \/ NoClientWaiting \/ ReadRequest \/ ReadEndOfFile
           \/ ReceiveAgain \/ ReceiveDone
    PROVE  TypeOK'
<1> USE DEF TypeOK, TypeOKLocalHost, TypeOKDaemon, TypeOKClient, kernelVars,
            connectionVars, clientVars, environmentVars, PC
<1>1. CASE Start
  BY <1>1 DEF Start
<1>2. CASE WakeUp
  BY <1>2, DaemonAssumption DEF WakeUp, ElapsedCap
<1>3. CASE NoInterfaces
  BY <1>3 DEF NoInterfaces
<1>4. CASE FoundInterfaces
  BY <1>4, GetInterfacesType DEF FoundInterfaces, NifsToDisable
<1>5. CASE DisableDone
  BY <1>5 DEF DisableDone, NifsToEnable
<1>6. CASE EnableDone
  BY <1>6 DEF EnableDone
<1>7. CASE Accept
  BY <1>7 DEF Accept
<1>8. CASE NoClientWaiting
  BY <1>8 DEF NoClientWaiting
<1>9. CASE ReadRequest
  BY <1>9 DEF ReadRequest
<1>10. CASE ReadEndOfFile
  BY <1>10 DEF ReadEndOfFile
<1>11. CASE ReceiveAgain
  BY <1>11 DEF ReceiveAgain
<1>12. CASE ReceiveDone
  BY <1>12 DEF ReceiveDone
<1> QED
  BY <1>1, <1>2, <1>3, <1>4, <1>5, <1>6, <1>7, <1>8, <1>9, <1>10, <1>11, <1>12

(* What the calls for one interface leave in the targets and memberships.  *)
LEMMA InterfaceLoopType ==
    ASSUME TypeOK, UNCHANGED <<clientVars, environmentVars>>,
           NEW nif \in todo, Disable(nif) \/ Enable(nif)
    PROVE  TypeOK'
<1> USE DEF TypeOK, TypeOKLocalHost, TypeOKDaemon, TypeOKClient,
            connectionVars, clientVars, environmentVars
<1> DEFINE i == IfNameToIndex(nif.name)
<1>1. i \in IfIndex
  BY IndexType DEF NetInterface
<1>2. memberships' \in [Family -> SUBSET IfIndex]
  <2>1. CASE Disable(nif)
    <3>1. PICK six \in RX!DisableIPv6(memberships["IPv6"], i),
               four \in RX!DisableIPv4(memberships["IPv4"], DefaultRoute) :
             memberships' = [f \in Family |->
                 IF Receiver(f) \notin sockets THEN memberships[f]
                 ELSE IF f = "IPv6" THEN six ELSE four]
      BY <2>1 DEF Disable
    <3>2. six \in SUBSET IfIndex /\ four \in SUBSET IfIndex
      BY DEF RX!DisableIPv6, RX!DisableIPv4, Family
    <3> QED
      BY <3>1, <3>2
  <2>2. CASE Enable(nif)
    <3>1. PICK six \in RX!EnableIPv6(memberships["IPv6"], i, UpIndex),
               four \in RX!EnableIPv4(memberships["IPv4"], DefaultRoute) :
             memberships' = [f \in Family |->
                 IF Receiver(f) \notin sockets THEN memberships[f]
                 ELSE IF f = "IPv6" THEN six ELSE four]
      BY <2>2 DEF Enable
    <3>2. six \in SUBSET IfIndex /\ four \in SUBSET IfIndex
      BY <1>1, IndexType DEF RX!EnableIPv6, RX!EnableIPv4, Family
    <3> QED
      BY <3>1, <3>2
  <2> QED
    BY <2>1, <2>2
<1>3. targets' \in [Family -> [IfIndex -> 0 .. TX!Many]]
  <2>1. \A f \in Family :
           /\ TX!AddMulticastAddress(targets[f], i) \in [IfIndex -> 0 .. TX!Many]
           /\ TX!RemoveMulticastAddress(targets[f], i) \in [IfIndex -> 0 .. TX!Many]
    BY <1>1, TargetsType
  <2>2. \/ targets' = [f \in Family |->
              IF Sender(f) \in sockets THEN TX!RemoveMulticastAddress(targets[f], i)
                                       ELSE targets[f]]
        \/ targets' = [f \in Family |->
              IF Sender(f) \in sockets THEN TX!AddMulticastAddress(targets[f], i)
                                       ELSE targets[f]]
    BY DEF Disable, Enable
  <2> HIDE DEF i
  <2> QED
    BY <2>1, <2>2
<1> QED
  BY <1>2, <1>3 DEF Disable, Enable

(* A send leaves the announcement and, through the loopback, a message.    *)
LEMMA SendType ==
    ASSUME TypeOK, UNCHANGED <<clientVars, environmentVars>>, SendIPv6 \/ SendIPv4
    PROVE  TypeOK'
<1> USE DEF TypeOK, TypeOKLocalHost, TypeOKDaemon, TypeOKClient,
            connectionVars, clientVars, environmentVars
<1>1. ASSUME NEW f \in Family, Send(f)
      PROVE  /\ rx' \in [Family -> Seq(Message)]
             /\ announced' \in [Family -> SUBSET IfIndex]
  <2>1. CASE CanUse(f) /\ Sender(f) \in sockets
    <3>0. PICK reached \in Reach(f) :
             /\ announced' = [announced EXCEPT ![f] = reached]
             /\ \E copies \in Looped(f, reached) :
                   rx' = [rx EXCEPT ![f] =
                             Enqueue(@, [result |-> "ok", nifs |-> nifs], copies)]
      BY <1>1, <2>1 DEF Send
    <3>1. PICK copies \in Looped(f, reached) :
             rx' = [rx EXCEPT ![f] = Enqueue(@, [result |-> "ok", nifs |-> nifs], copies)]
      BY <3>0
    <3>2. reached \in SUBSET IfIndex /\ copies \in Nat
      BY ReachType, LoopedType
    <3>3. [result |-> "ok", nifs |-> nifs] \in Message
      BY DEF Message
    <3>4. Enqueue(rx[f], [result |-> "ok", nifs |-> nifs], copies) \in Seq(Message)
      BY <3>2, <3>3, EnqueueType
    <3> QED
      BY <3>0, <3>1, <3>2, <3>4
  <2>2. CASE ~(CanUse(f) /\ Sender(f) \in sockets)
    BY <1>1, <2>2 DEF Send
  <2> QED
    BY <2>1, <2>2
<1>2. CASE SendIPv6
  BY <1>1, <1>2 DEF SendIPv6, PC, Family
<1>3. CASE SendIPv4
  BY <1>1, <1>3 DEF SendIPv4, PC, Family
<1> QED
  BY <1>2, <1>3

(* A receive takes a message and keeps its interfaces.                     *)
LEMMA ReceiveType ==
    ASSUME TypeOK, UNCHANGED <<clientVars, environmentVars>>, ReceiveIPv6 \/ ReceiveIPv4
    PROVE  TypeOK'
<1> USE DEF TypeOK, TypeOKLocalHost, TypeOKDaemon, TypeOKClient,
            connectionVars, clientVars, environmentVars
<1>1. ASSUME NEW f \in Family, Receive(f)
      PROVE  /\ rx' \in [Family -> Seq(Message)]
             /\ receivedAny' \in BOOLEAN
             /\ receivedNifs' \in SUBSET NetInterface
  <2>1. CASE CanUse(f) /\ Sender(f) \in sockets /\ rx[f] # <<>>
    <3>1. Head(rx[f]) \in Message /\ Tail(rx[f]) \in Seq(Message)
      BY <2>1
    <3>2. \A kept \in LastOfEachMac(Head(rx[f]).nifs) : kept \in SUBSET NetInterface
      BY <3>1 DEF LastOfEachMac, Message
    <3>3. receivedNifs' \in SUBSET NetInterface
      BY <1>1, <2>1, <3>2 DEF Receive
    <3> QED
      BY <1>1, <2>1, <3>1, <3>3 DEF Receive
  <2>2. CASE ~(CanUse(f) /\ Sender(f) \in sockets /\ rx[f] # <<>>)
    BY <1>1, <2>2 DEF Receive
  <2> QED
    BY <2>1, <2>2
<1>2. CASE ReceiveIPv6
  BY <1>1, <1>2 DEF ReceiveIPv6, PC, Family
<1>3. CASE ReceiveIPv4
  BY <1>1, <1>3 DEF ReceiveIPv4, PC, Family
<1> QED
  BY <1>2, <1>3

(* The table holds entries, and the answers are lists of interfaces.       *)
LEMMA TableType ==
    ASSUME TypeOK, UNCHANGED <<clientVars, environmentVars>>,
           Handle \/ Answer \/ NothingToAnswer
    PROVE  TypeOK'
<1> USE DEF TypeOK, TypeOKLocalHost, TypeOKDaemon, TypeOKClient, kernelVars,
            connectionVars, clientVars, environmentVars, PC
<1>1. CASE Handle
  <2> DEFINE updates == {<<nif.mac, [nif EXCEPT !.ips = Matched(nif)]>> :
                            nif \in {r \in receivedNifs : Matched(r) # {}}}
  <2>1. \A nif \in receivedNifs :
           nif.mac \in Mac /\ [nif EXCEPT !.ips = Matched(nif)] \in NetInterface
    BY DEF NetInterface, Matched
  <2>2. TS!Update(neighbors, updates) \in SUBSET TS!Entry(Mac, NetInterface, AgeCap)
    <3>1. updates \in SUBSET (Mac \X NetInterface)
      BY <2>1
    <3> QED
      BY <3>1, UpdateType
  <2>3. neighbors' \in SUBSET TS!Entry(Mac, NetInterface, AgeCap)
    BY <1>1, <2>2 DEF Handle, TS!RemoveOlder
  <2> QED
    BY <1>1, <2>3 DEF Handle
<1>2. CASE Answer
  <2>1. TS!Data(neighbors) \in SUBSET NetInterface
    BY DataType
  <2>2. answers' \in [Client -> Seq(SUBSET NetInterface)]
    BY <1>2, <2>1 DEF Answer, Answering
  <2> QED
    BY <1>2, <2>2 DEF Answer, Finish, LocalsDestroyed
<1>3. CASE NothingToAnswer
  BY <1>3 DEF NothingToAnswer, Finish, LocalsDestroyed
<1> QED
  BY <1>1, <1>2, <1>3

(* The steps of the CLI programs.                                          *)
LEMMA ClientType ==
    ASSUME TypeOK, UNCHANGED <<daemonVars, environmentVars>>,
           NEW c \in Client, ClientStep(c)
    PROVE  TypeOK'
<1> USE DEF TypeOK, TypeOKLocalHost, TypeOKDaemon, TypeOKClient, ClientState,
            kernelVars, daemonVars, environmentVars
<1>1. 0 \in 0 .. CliWait
  BY CliAssumption
<1>2. CASE Connect(c)
  BY <1>2 DEF Connect
<1>3. CASE SendRequest(c)
  BY <1>3 DEF SendRequest
<1>4. CASE RunAgain(c)
  BY <1>4 DEF RunAgain
<1>5. CASE ConnectFails(c) \/ SendRequestFails(c) \/ ReceiveFails(c)
              \/ TimeOut(c) \/ Interrupt(c)
  BY <1>1, <1>5 DEF ConnectFails, SendRequestFails, ReceiveFails, TimeOut, Interrupt, Ends
<1>6. CASE ReceiveAnswer(c) \/ GetLocalMacsFails(c)
  BY <1>1, <1>6 DEF ReceiveAnswer, GetLocalMacsFails, Ends
<1> QED
  BY <1>2, <1>3, <1>4, <1>5, <1>6 DEF ClientStep

(* The steps of the interfaces.                                            *)
LEMMA LinkType ==
    ASSUME TypeOK, LinkStep
    PROVE  TypeOK'
<1>1. PICK n \in IfName : SetDown(n) \/ SetUp(n) \/ Readdress(n) \/ Unplug(n) \/ Plug(n)
  BY DEF LinkStep
<1>2. link' \in [IfName -> Link] /\ lastIndex' \in IfIndex
  <2> USE DEF TypeOK, TypeOKLocalHost, Link
  <2>1. CASE SetDown(n)
    BY <2>1 DEF SetDown
  <2>2. CASE SetUp(n)
    BY <2>2 DEF SetUp
  <2>3. CASE Readdress(n)
    <3>1. PICK ips \in Addresses : link' = [link EXCEPT ![n].ips = ips]
      BY <2>3 DEF Readdress
    <3>2. ips \in SUBSET Ip
      BY SystemAssumption
    <3> QED
      BY <2>3, <3>1, <3>2 DEF Readdress
  <2>4. CASE Unplug(n)
    BY <2>4, LocalHostAssumption DEF Unplug, IfIndex
  <2>5. CASE Plug(n)
    BY <2>5, SystemAssumption, LocalHostAssumption DEF Plug, IfIndex
  <2> QED
    BY <1>1, <2>1, <2>2, <2>3, <2>4, <2>5
<1> QED
  BY <1>2 DEF LinkStep, TypeOK, TypeOKLocalHost, TypeOKDaemon, TypeOKClient,
              connectionVars, daemonVars, clientVars, environmentVars

(* The steps of the neighbors.                                             *)
LEMMA HostType ==
    ASSUME TypeOK, NEW h \in Host, Announce(h) \/ Depart(h)
    PROVE  TypeOK'
<1> USE DEF TypeOK, TypeOKLocalHost, TypeOKDaemon, TypeOKClient,
            kernelVars, connectionVars, daemonVars, clientVars
<1>1. CASE Announce(h)
  <2>0. PICK reached \in SUBSET Family :
           \E copies \in [reached -> 1 .. HostTargets[h]] :
              rx' = [f \in Family |->
                       IF f \in reached THEN Enqueue(rx[f], Announcement[h], copies[f])
                                        ELSE rx[f]]
    BY <1>1 DEF Announce
  <2>1. PICK copies \in [reached -> 1 .. HostTargets[h]] :
           rx' = [f \in Family |->
                    IF f \in reached THEN Enqueue(rx[f], Announcement[h], copies[f])
                                     ELSE rx[f]]
    BY <2>0
  <2>2. rx' \in [Family -> Seq(Message)]
    <3>1. HostTargets[h] \in Nat /\ Announcement[h] \in Message
      BY SystemAssumption
    <3>2. ASSUME NEW f \in Family
          PROVE  (IF f \in reached THEN Enqueue(rx[f], Announcement[h], copies[f])
                                   ELSE rx[f]) \in Seq(Message)
      BY <3>1, EnqueueType
    <3> QED
      BY <2>1, <3>2
  <2>3. silence' \in [Host -> 0 .. SilenceCap]
    BY <1>1, SystemAssumption DEF Announce
  <2> QED
    BY <1>1, <2>2, <2>3 DEF Announce
<1>2. CASE Depart(h)
  BY <1>2 DEF Depart
<1> QED
  BY <1>1, <1>2

(* The passing of time.                                                    *)
LEMMA TickType ==
    ASSUME TypeOK, Tick
    PROVE  TypeOK'
<1> USE DEF TypeOK, TypeOKLocalHost, TypeOKDaemon, TypeOKClient
<1>1. neighbors' \in SUBSET TS!Entry(Mac, NetInterface, AgeCap)
  BY AgedType DEF Tick
<1>2. elapsed' \in 0 .. ElapsedCap
  BY DaemonAssumption DEF Tick, Advance, ElapsedCap
<1>3. waited' \in [Client -> 0 .. CliWait]
  BY CliAssumption DEF Tick, Advance
<1>4. silence' \in [Host -> 0 .. SilenceCap]
  BY SystemAssumption DEF Tick, Advance, SilenceBound
<1> QED
  BY <1>1, <1>2, <1>3, <1>4 DEF Tick, kernelVars, connectionVars

(* A step that changes nothing.                                            *)
LEMMA StutterType ==
    ASSUME TypeOK, UNCHANGED vars
    PROVE  TypeOK'
  BY DEF vars, kernelVars, connectionVars, daemonVars, clientVars, environmentVars,
         TypeOK, TypeOKLocalHost, TypeOKDaemon, TypeOKClient

(* Every step of the system keeps every variable in its type.              *)
LEMMA NextType == TypeOK /\ [Next]_vars => TypeOK'
<1> SUFFICES ASSUME TypeOK, [Next]_vars PROVE TypeOK'
  OBVIOUS
<1>1. CASE (Start \/ Kill \/ DaemonStep) /\ UNCHANGED <<clientVars, environmentVars>>
  <2>1. CASE Kill \/ GetInterfacesFails \/ ReceiveFromNull \/ ReceiveThrows
             \/ AnswerGoneClient
    BY <1>1, <2>1, ExitType
       DEF Kill, GetInterfacesFails, ReceiveFromNull, ReceiveThrows, AnswerGoneClient
  <2>2. CASE \/ Start \/ WakeUp \/ NoInterfaces \/ FoundInterfaces
             \/ DisableDone \/ EnableDone
             \/ Accept \/ NoClientWaiting \/ ReadRequest \/ ReadEndOfFile
             \/ ReceiveAgain \/ ReceiveDone
    BY <1>1, <2>2, ControlType
  <2>3. CASE \E nif \in todo : Disable(nif) \/ Enable(nif)
    BY <1>1, <2>3, InterfaceLoopType
  <2>4. CASE SendIPv6 \/ SendIPv4
    BY <1>1, <2>4, SendType
  <2>5. CASE ReceiveIPv6 \/ ReceiveIPv4
    BY <1>1, <2>5, ReceiveType
  <2>6. CASE Handle \/ Answer \/ NothingToAnswer
    BY <1>1, <2>6, TableType
  <2> QED
    BY <1>1, <2>1, <2>2, <2>3, <2>4, <2>5, <2>6 DEF DaemonStep
<1>2. CASE (\E c \in Client : ClientStep(c)) /\ UNCHANGED <<daemonVars, environmentVars>>
  BY <1>2, ClientType
<1>3. CASE LinkStep
  BY <1>3, LinkType
<1>4. CASE \E h \in Host : Announce(h) \/ Depart(h)
  BY <1>4, HostType
<1>5. CASE Tick
  BY <1>5, TickType
<1>6. CASE UNCHANGED vars
  BY <1>6, StutterType
<1> QED
  BY <1>1, <1>2, <1>3, <1>4, <1>5, <1>6 DEF Next

(* Every variable of the daemon, of the CLI programs and of what they      *)
(* share stays in its type, whatever the interfaces, the neighbors and the *)
(* users do.                                                               *)
THEOREM TypeCorrect == SafetySpec => []TypeOK
<1>1. Init => TypeOK
  BY InitType
<1>2. TypeOK /\ [Next]_vars => TypeOK'
  BY NextType
<1> QED
  BY <1>1, <1>2, PTL DEF SafetySpec

-----------------------------------------------------------------------------
(* Requests.                                                               *)

(* What makes ReadRequestsAreAnswered inductive: a request that was read   *)
(* is the one of the connection still held, and while there is one the     *)
(* daemon is between the read and the answer, with nothing to stop it.     *)
RequestInHand ==
    /\ \A c \in consumed : c = clientSocket
    /\ consumed # {} => requested /\ Listening /\ pc \in {"test", "handle", "answer"}
    /\ pc = "read" => Listening

(* No request is in hand when the machine boots.                           *)
LEMMA RequestInHandInit == Init => RequestInHand
  BY DEF Init, InitDaemon, RequestInHand

(* Every step of the system keeps RequestInHand.                           *)
LEMMA RequestInHandNext == RequestInHand /\ [Next]_vars => RequestInHand'
<1> SUFFICES ASSUME RequestInHand, [Next]_vars PROVE RequestInHand'
  OBVIOUS
<1> USE DEF RequestInHand, Listening
<1>1. CASE (Start \/ Kill \/ DaemonStep) /\ UNCHANGED <<clientVars, environmentVars>>
  <2>1. CASE Kill \/ GetInterfacesFails \/ ReceiveFromNull \/ ReceiveThrows
             \/ AnswerGoneClient
    BY <2>1 DEF Kill, GetInterfacesFails, ReceiveFromNull, ReceiveThrows, AnswerGoneClient, Exit
  <2>2. CASE Start
    BY <2>2 DEF Start, Running, connectionVars
  <2>3. CASE WakeUp \/ NoInterfaces \/ FoundInterfaces \/ DisableDone \/ EnableDone
    BY <2>3 DEF WakeUp, NoInterfaces, FoundInterfaces, DisableDone, EnableDone,
                kernelVars, connectionVars
  <2>4. CASE \E nif \in todo : Disable(nif) \/ Enable(nif)
    <3>1. UNCHANGED <<sockets, clientSocket, consumed, requested, pc>>
      BY <2>4 DEF Disable, Enable, connectionVars
    <3> QED
      BY <3>1
  <2>5. CASE SendIPv6 \/ SendIPv4
    BY <2>5 DEF SendIPv6, SendIPv4, connectionVars
  <2>6. CASE ReceiveIPv6 \/ ReceiveIPv4
    BY <2>6 DEF ReceiveIPv6, ReceiveIPv4, connectionVars
  <2>7. CASE Accept
    BY <2>7 DEF Accept, kernelVars
  <2>8. CASE NoClientWaiting \/ ReadEndOfFile \/ ReceiveDone \/ Handle
    BY <2>8 DEF NoClientWaiting, ReadEndOfFile, ReceiveDone, Handle,
                kernelVars, connectionVars
  <2>9. CASE ReadRequest
    BY <2>9 DEF ReadRequest, kernelVars
  <2>10. CASE ReceiveAgain
    <3>1. consumed = {}
      BY <2>10 DEF ReceiveAgain, LoopAgain
    <3> QED
      BY <2>10, <3>1 DEF ReceiveAgain, kernelVars, connectionVars
  <2>11. CASE Answer \/ NothingToAnswer
    BY <2>11 DEF Answer, NothingToAnswer, Finish
  <2> QED
    BY <1>1, <2>1, <2>2, <2>3, <2>4, <2>5, <2>6, <2>7, <2>8, <2>9, <2>10, <2>11
       DEF DaemonStep
<1>2. CASE (\E c \in Client : ClientStep(c)) /\ UNCHANGED <<daemonVars, environmentVars>>
  <2>1. UNCHANGED <<sockets, clientSocket>>
    BY <1>2 DEF ClientStep, Connect, ConnectFails, SendRequest, SendRequestFails,
                ReceiveAnswer, GetLocalMacsFails, ReceiveFails, TimeOut, Interrupt,
                RunAgain, kernelVars
  <2> QED
    BY <1>2, <2>1 DEF daemonVars
<1>3. CASE LinkStep
  BY <1>3 DEF LinkStep, connectionVars, daemonVars
<1>4. CASE \E h \in Host : Announce(h) \/ Depart(h)
  <2>1. UNCHANGED <<sockets, connectionVars, daemonVars>>
    BY <1>4 DEF Announce, Depart, kernelVars
  <2> QED
    BY <2>1 DEF connectionVars, daemonVars
<1>5. CASE Tick
  BY <1>5 DEF Tick, kernelVars, connectionVars
<1>6. CASE UNCHANGED vars
  BY <1>6 DEF vars, kernelVars, connectionVars, daemonVars
<1> QED
  BY <1>1, <1>2, <1>3, <1>4, <1>5, <1>6 DEF Next

(* The step that ends an iteration with a request in hand sends an answer. *)
LEMMA RequestAnswered ==
    ASSUME TypeOK, RequestInHand, [Next]_vars, NEW c \in consumed \ consumed',
           pc' = "sleep", c \in peerOpen
    PROVE  Len(answers'[c]) = Len(answers[c]) + 1
<1>1. pc \in {"test", "handle", "answer"} /\ c = clientSocket /\ Answering
  BY LocalHostAssumption DEF RequestInHand, TypeOK, TypeOKDaemon, Answering
<1>2. ~UNCHANGED consumed
  OBVIOUS
<1>3. DaemonStep
  <2>1. ~LinkStep /\ ~Tick /\ ~(\E h \in Host : Announce(h) \/ Depart(h))
    BY <1>2 DEF LinkStep, Tick, Announce, Depart, daemonVars
  <2>2. ~Start /\ ~Kill
    BY <1>1 DEF Start, Running, Kill, Exit
  <2> QED
    BY <1>2, <2>1, <2>2 DEF Next, vars, daemonVars
<1>4. Answer
  BY <1>1, <1>2, <1>3
     DEF DaemonStep, WakeUp, GetInterfacesFails, NoInterfaces, FoundInterfaces, Disable,
         Enable, DisableDone, EnableDone, SendIPv6, SendIPv4, ReceiveIPv6, ReceiveIPv4,
         ReceiveFromNull, ReceiveThrows, Accept, NoClientWaiting, ReadRequest, ReadEndOfFile,
         ReceiveAgain, ReceiveDone, Handle, AnswerGoneClient, NothingToAnswer
<1>5. answers \in [Client -> Seq(SUBSET NetInterface)] /\ c \in Client
  BY DEF TypeOK, TypeOKLocalHost, TypeOKDaemon
<1>6. answers'[c] = Append(answers[c], TS!Data(neighbors))
  BY <1>1, <1>4, <1>5 DEF Answer
<1> QED
  BY <1>5, <1>6

(* A request the daemon has read is answered before the iteration ends,    *)
(* for every number of programs, every period and every fault.             *)
THEOREM RequestsAnswered == SafetySpec => ReadRequestsAreAnswered
<1>1. Init => TypeOK /\ RequestInHand
  BY InitType, RequestInHandInit
<1>2. TypeOK /\ RequestInHand /\ [Next]_vars => TypeOK' /\ RequestInHand'
  BY NextType, RequestInHandNext
<1>3. TypeOK /\ RequestInHand /\ [Next]_vars =>
        [\A c \in consumed \ consumed' :
           pc' = "sleep" /\ c \in peerOpen => Len(answers'[c]) = Len(answers[c]) + 1]_vars
  BY RequestAnswered
<1> QED
  BY <1>1, <1>2, <1>3, PTL DEF SafetySpec, ReadRequestsAreAnswered
=============================================================================
