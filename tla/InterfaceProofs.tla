-------------------------- MODULE InterfaceProofs --------------------------
(***************************************************************************)
(* Theorems about the interfaces of the daemon: what it has joined and     *)
(* targets, and which neighbors' addresses it keeps for them.              *)
(***************************************************************************)
EXTENDS NeighborDiscoveryProofs

(* Where the daemon is between two iterations, and in one.                 *)
Between == {"getInterfaces", "sleep"}
Diffing == {"disable", "enable"}
Diffed == PC \ (Between \cup Diffing \cup {"off", "terminated"})

-----------------------------------------------------------------------------
(* Interfaces that keep their indices and do not all go down, and sockets  *)
(* that are created.                                                       *)
IndicesKept ==
    /\ SocketFailures = {}
    /\ Events \cap {"unplug", "outage"} = {}
    /\ \A table \in InitialLink : \A m, n \in IfName :
          table[m].index # 0 /\ table[m].index = table[n].index => m = n

(* The memberships and the targets are those of these interfaces.          *)
Mirror(interfaces) ==
    /\ memberships["IPv6"] = IndexOf(interfaces)
    /\ \A f \in Family :
          targets[f] = [i \in IfIndex |-> IF i \in IndexOf(interfaces) THEN 1 ELSE 0]

(* An index names one interface, and a snapshot of the interface table has *)
(* one entry per name, of an interface that has an index.                  *)
Indexed ==
    \A m, n \in IfName :
        link[m].index # 0 /\ link[m].index = link[n].index => m = n

Snapshot(interfaces) ==
    /\ \A nif \in interfaces : nif.name \in IfName /\ link[nif.name].index # 0
    /\ \A a, b \in interfaces : a.name = b.name => a = b
    /\ interfaces # {} => Up # {}

(* The differences applied so far lead from prevNifs to nifs.              *)
MirrorInv ==
    /\ Indexed /\ Snapshot(nifs) /\ Snapshot(prevNifs)
    /\ Running => sockets = Socket
    /\ ~Running => nifs = {} /\ prevNifs = {} /\ Mirror({})
    /\ pc \in Between => nifs = {} /\ Mirror(prevNifs)
    /\ pc = "disable" => todo \subseteq prevNifs \ nifs /\ Mirror((prevNifs \cap nifs) \cup todo)
    /\ pc = "enable" => todo \subseteq nifs \ prevNifs /\ Mirror(nifs \ todo)
    /\ pc \in Diffed => Mirror(nifs)

LEMMA MirrorInit == IndicesKept /\ Init => MirrorInv
<1> SUFFICES ASSUME IndicesKept, Init PROVE MirrorInv
  OBVIOUS
<1>1. Indexed
  BY DEF IndicesKept, Init, Indexed
<1>2. Mirror({})
  BY DEF Init, InitDaemon, Mirror, IndexOf, TX!NoTargets, Family
<1>3. pc = "off" /\ nifs = {} /\ prevNifs = {}
  BY DEF Init, InitDaemon
<1> QED
  BY <1>1, <1>2, <1>3 DEF MirrorInv, Snapshot, Running, Between, Diffing, Diffed

(* A step that leaves the memberships, the targets and the indices alone   *)
(* keeps what they mirror.                                                 *)
LEMMA MirrorKept ==
    ASSUME TypeOK, TypeOK', UNCHANGED <<memberships, targets>>,
           \A n \in IfName : link'[n].index = link[n].index,
           NEW interfaces \in SUBSET NetInterface, Mirror(interfaces)
    PROVE  Mirror(interfaces)'
<1>1. IndexOf(interfaces)' = IndexOf(interfaces)
  BY DEF IndexOf, IfNameToIndex, NetInterface
<1> QED
  BY <1>1 DEF Mirror

(* Taking one interface out of a snapshot, and adding one.                 *)
LEMMA IndexOfOne ==
    ASSUME Indexed, NEW S, Snapshot(S), NEW R \in SUBSET S, NEW nif \in S
    PROVE  /\ IfNameToIndex(nif.name) # 0
           /\ \A Q \in SUBSET R : Q \cup {nif} = R /\ nif \notin Q =>
                 IndexOf(Q) = IndexOf(R) \ {IfNameToIndex(nif.name)}
           /\ IndexOf(R \cup {nif}) = IndexOf(R) \cup {IfNameToIndex(nif.name)}
           /\ nif \notin R => IfNameToIndex(nif.name) \notin IndexOf(R)
<1>1. ASSUME NEW a \in S, IfNameToIndex(a.name) = IfNameToIndex(nif.name)
      PROVE  a = nif
  BY <1>1 DEF Indexed, Snapshot, IfNameToIndex
<1>2. IfNameToIndex(nif.name) # 0
  BY DEF Snapshot, IfNameToIndex
<1>3. ASSUME NEW Q \in SUBSET R, Q \cup {nif} = R, nif \notin Q
      PROVE  IndexOf(Q) = IndexOf(R) \ {IfNameToIndex(nif.name)}
  BY <1>1, <1>3 DEF IndexOf
<1>4. IndexOf(R \cup {nif}) = IndexOf(R) \cup {IfNameToIndex(nif.name)}
  BY DEF IndexOf
<1>5. nif \notin R => IfNameToIndex(nif.name) \notin IndexOf(R)
  BY <1>1 DEF IndexOf
<1> QED
  BY <1>2, <1>3, <1>4, <1>5

(* The bag with one target of each, and one taken out or added.            *)
LEMMA TargetOne ==
    ASSUME NEW S, NEW i \in IfIndex, NEW t, t = [j \in IfIndex |-> IF j \in S THEN 1 ELSE 0]
    PROVE  /\ \A Q : Q = S \ {i} => TX!RemoveMulticastAddress(t, i)
                = [j \in IfIndex |-> IF j \in Q THEN 1 ELSE 0]
           /\ i \notin S => TX!AddMulticastAddress(t, i)
                = [j \in IfIndex |-> IF j \in S \cup {i} THEN 1 ELSE 0]
<1>1. TX!RemoveMulticastAddress(t, i) = [j \in IfIndex |-> IF j = i THEN 0 ELSE t[j]]
  BY DEF TX!RemoveMulticastAddress
<1>2. ASSUME i \notin S
      PROVE  TX!AddMulticastAddress(t, i) = [j \in IfIndex |-> IF j = i THEN 1 ELSE t[j]]
  BY <1>2 DEF TX!AddMulticastAddress, TX!Many
<1> QED
  BY <1>1, <1>2

LEMMA MirrorDisable ==
    ASSUME TypeOK, MirrorInv, NEW nif \in todo, Disable(nif)
    PROVE  MirrorInv'
<1> DEFINE i == IfNameToIndex(nif.name)
           R == (prevNifs \cap nifs) \cup todo
           Q == R \ {nif}
<1>1. /\ pc = "disable" /\ sockets = Socket /\ Indexed /\ Snapshot(prevNifs)
      /\ todo \subseteq prevNifs \ nifs /\ Mirror(R)
  BY DEF Disable, MirrorInv, Running
<1>2. /\ todo' = todo \ {nif} /\ UNCHANGED <<link, pc, nifs, prevNifs, sockets>>
      /\ Receiver("IPv6") \in sockets /\ \A f \in Family : Sender(f) \in sockets
  BY <1>1 DEF Disable, Socket, Family
<1>3. i # 0 /\ IndexOf(Q) = IndexOf(R) \ {i}
  <2>1. /\ R \in SUBSET prevNifs /\ nif \in prevNifs
        /\ Q \in SUBSET R /\ Q \cup {nif} = R /\ nif \notin Q
    BY <1>1
  <2> HIDE DEF R, Q
  <2> QED
    BY <1>1, <2>1, IndexOfOne
<1>4. (prevNifs \cap nifs) \cup todo' = Q
  BY <1>1, <1>2
<1>5. memberships'["IPv6"] = memberships["IPv6"] \ {i}
  BY <1>2, <1>3 DEF Disable, RX!DisableIPv6, Family
<1>6. \A f \in Family : targets'[f] = TX!RemoveMulticastAddress(targets[f], i)
  BY <1>2 DEF Disable
<1>7. IndexOf((prevNifs \cap nifs) \cup todo)' = IndexOf(Q)
  BY <1>2, <1>4 DEF IndexOf, IfNameToIndex
<1>0. i \in IfIndex
  BY IndexType DEF TypeOK, TypeOKDaemon, NetInterface
<1> HIDE DEF i, R, Q
<1>8. \A f \in Family : targets'[f] = [j \in IfIndex |-> IF j \in IndexOf(Q) THEN 1 ELSE 0]
  BY <1>0, <1>1, <1>3, <1>6, TargetOne DEF Mirror
<1>9. Mirror((prevNifs \cap nifs) \cup todo)'
  BY <1>1, <1>3, <1>5, <1>7, <1>8 DEF Mirror
<1>10. Indexed' /\ Snapshot(nifs)' /\ Snapshot(prevNifs)'
  BY <1>2 DEF MirrorInv, Indexed, Snapshot, Up
<1> QED
  BY <1>1, <1>2, <1>9, <1>10 DEF MirrorInv, Running, Between, Diffing, Diffed

LEMMA MirrorEnable ==
    ASSUME TypeOK, MirrorInv, NEW nif \in todo, Enable(nif)
    PROVE  MirrorInv'
<1> DEFINE i == IfNameToIndex(nif.name)
           R == nifs \ todo
<1>1. /\ pc = "enable" /\ sockets = Socket /\ Indexed /\ Snapshot(nifs)
      /\ todo \subseteq nifs \ prevNifs /\ Mirror(R)
  BY DEF Enable, MirrorInv, Running
<1>2. /\ todo' = todo \ {nif} /\ UNCHANGED <<link, pc, nifs, prevNifs, sockets>>
      /\ Receiver("IPv6") \in sockets /\ \A f \in Family : Sender(f) \in sockets
  BY <1>1 DEF Enable, Socket, Family
<1>3. i # 0 /\ IndexOf(R \cup {nif}) = IndexOf(R) \cup {i} /\ i \notin IndexOf(R)
  <2>1. R \in SUBSET nifs /\ nif \in nifs /\ nif \notin R
    BY <1>1
  <2> HIDE DEF R
  <2> QED
    BY <1>1, <2>1, IndexOfOne
<1>4. nifs \ todo' = R \cup {nif}
  BY <1>1, <1>2
<1>5. memberships'["IPv6"] = memberships["IPv6"] \cup {i}
  BY <1>2, <1>3 DEF Enable, RX!EnableIPv6, Family
<1>6. \A f \in Family : targets'[f] = TX!AddMulticastAddress(targets[f], i)
  BY <1>2 DEF Enable
<1>7. IndexOf(nifs \ todo)' = IndexOf(R \cup {nif})
  BY <1>2, <1>4 DEF IndexOf, IfNameToIndex
<1>0. i \in IfIndex
  BY IndexType DEF TypeOK, TypeOKDaemon, NetInterface
<1> HIDE DEF i, R
<1>8. \A f \in Family :
         targets'[f] = [j \in IfIndex |-> IF j \in IndexOf(R) \cup {i} THEN 1 ELSE 0]
  BY <1>0, <1>1, <1>3, <1>6, TargetOne DEF Mirror
<1>9. Mirror(nifs \ todo)'
  BY <1>1, <1>3, <1>5, <1>7, <1>8 DEF Mirror
<1>10. Indexed' /\ Snapshot(nifs)' /\ Snapshot(prevNifs)'
  BY <1>2 DEF MirrorInv, Indexed, Snapshot, Up
<1> QED
  BY <1>1, <1>2, <1>9, <1>10 DEF MirrorInv, Running, Between, Diffing, Diffed

(* The end of the process empties both sides.                              *)
LEMMA MirrorExit ==
    ASSUME MirrorInv, NEW how \in {"off", "terminated"}, Exit(how)
    PROVE  MirrorInv'
<1>1. Mirror({})'
  BY DEF Exit, Mirror, IndexOf, TX!NoTargets, Family
<1> QED
  BY <1>1 DEF Exit, MirrorInv, Indexed, Snapshot, Running, Between, Diffing, Diffed

(* The interface table is read.                                            *)
LEMMA MirrorRead ==
    ASSUME TypeOK, TypeOK', MirrorInv, FoundInterfaces
    PROVE  MirrorInv'
<1>1. /\ nifs' = GetInterfaces /\ GetInterfaces # {} /\ todo' = prevNifs \ nifs'
      /\ pc' = IF prevNifs = nifs' THEN "sendIPv6" ELSE "disable"
      /\ pc = "getInterfaces" /\ Mirror(prevNifs) /\ sockets = Socket
      /\ UNCHANGED <<link, memberships, targets, prevNifs, sockets>>
  BY DEF FoundInterfaces, NifsToDisable, kernelVars, MirrorInv, Between, Running
<1>2. Indexed' /\ Snapshot(prevNifs)' /\ Snapshot(nifs)'
  <2>1. Snapshot(GetInterfaces)
    BY <1>1 DEF Snapshot, GetInterfaces, Up
  <2> QED
    BY <1>1, <2>1 DEF MirrorInv, Snapshot, Indexed, Up, GetInterfaces
<1>3. Mirror(prevNifs)'
  BY <1>1, MirrorKept DEF TypeOK, TypeOKDaemon
<1>4. CASE prevNifs = nifs'
  BY <1>1, <1>2, <1>3, <1>4 DEF MirrorInv, Running, Between, Diffing, Diffed, PC
<1>5. CASE prevNifs # nifs'
  <2>1. (prevNifs \cap nifs)' \cup todo' = prevNifs'
    BY <1>1
  <2>2. Mirror((prevNifs \cap nifs) \cup todo)'
    BY <1>3, <2>1 DEF Mirror, IndexOf
  <2> QED
    BY <1>1, <1>2, <1>5, <2>2 DEF MirrorInv, Running, Between, Diffing, Diffed
<1> QED
  BY <1>4, <1>5

(* The steps of the daemon that move pc and leave the interfaces alone.    *)
LEMMA MirrorControl ==
    ASSUME TypeOK, TypeOK', IndicesKept, MirrorInv,
           \/ Start \/ WakeUp \/ NoInterfaces \/ DisableDone \/ EnableDone
           \/ SendIPv6 \/ SendIPv4 \/ ReceiveIPv6 \/ ReceiveIPv4
           \/ Accept \/ NoClientWaiting \/ ReadRequest \/ ReadEndOfFile
           \/ ReceiveAgain \/ ReceiveDone \/ Handle \/ Answer \/ NothingToAnswer
    PROVE  MirrorInv'
<1>1. UNCHANGED <<link, memberships, targets>>
  BY DEF Start, WakeUp, NoInterfaces, DisableDone, EnableDone, SendIPv6, SendIPv4, ReceiveIPv6,
         ReceiveIPv4, Accept, NoClientWaiting, ReadRequest, ReadEndOfFile, ReceiveAgain,
         ReceiveDone, Handle, Answer, NothingToAnswer, Finish, kernelVars
<1>2. ASSUME NEW interfaces \in SUBSET NetInterface, Mirror(interfaces)
      PROVE  Mirror(interfaces)'
  BY <1>1, <1>2, MirrorKept
<1>3. Indexed'
  BY <1>1 DEF Indexed, MirrorInv
<1>4. ASSUME NEW interfaces, Snapshot(interfaces)
      PROVE  Snapshot(interfaces)'
  BY <1>1, <1>4 DEF Snapshot, Up
<1>5. nifs \in SUBSET NetInterface /\ prevNifs \in SUBSET NetInterface /\ todo \in SUBSET NetInterface
  BY DEF TypeOK, TypeOKDaemon
<1>6. Snapshot({})'
  BY DEF Snapshot
<1> USE DEF Running, Between, Diffing, Diffed, PC
<1>7. CASE Start
  <2>1. /\ nifs' = {} /\ prevNifs' = {} /\ pc' = "getInterfaces" /\ Mirror({})
    BY <1>7 DEF Start, MirrorInv
  <2>2. sockets' = Socket
    BY <1>7 DEF Start, IndicesKept
  <2> QED
    BY <1>2, <1>3, <1>6, <2>1, <2>2 DEF MirrorInv
<1>8. CASE WakeUp
  <2>1. /\ UNCHANGED <<nifs, prevNifs, sockets>> /\ pc' = "getInterfaces" /\ pc = "sleep"
    BY <1>8 DEF WakeUp, kernelVars
  <2> QED
    BY <1>2, <1>3, <1>4, <1>5, <2>1 DEF MirrorInv
<1>9. CASE NoInterfaces
  <2>1. /\ UNCHANGED <<nifs, sockets>> /\ pc' = "sleep" /\ pc = "getInterfaces"
        /\ prevNifs' = {} /\ GetInterfaces = {}
    BY <1>9 DEF NoInterfaces, kernelVars
  <2>2. prevNifs = {}
    <3>1. Up = {}
      BY <2>1 DEF GetInterfaces
    <3> QED
      BY <3>1 DEF MirrorInv, Snapshot
  <2> QED
    BY <1>2, <1>3, <1>4, <1>5, <1>6, <2>1, <2>2 DEF MirrorInv
<1>10. CASE DisableDone
  <2>1. /\ UNCHANGED <<nifs, prevNifs, sockets>> /\ pc' = "enable" /\ pc = "disable"
        /\ todo = {} /\ todo' = nifs \ prevNifs
    BY <1>10 DEF DisableDone, NifsToEnable, kernelVars
  <2>2. prevNifs \cap nifs \in SUBSET NetInterface /\ Mirror(prevNifs \cap nifs)
    <3>1. Mirror((prevNifs \cap nifs) \cup todo)
      BY <2>1 DEF MirrorInv
    <3>2. (prevNifs \cap nifs) \cup todo = prevNifs \cap nifs
      BY <2>1
    <3> QED
      BY <1>5, <3>1, <3>2
  <2>3. Mirror(prevNifs \cap nifs)'
    BY <1>1, <2>1, <2>2, MirrorKept DEF Mirror, IndexOf, IfNameToIndex
  <2>4. nifs' \ todo' = (prevNifs \cap nifs)'
    BY <2>1
  <2>5. Mirror(nifs \ todo)'
    BY <2>3, <2>4 DEF Mirror, IndexOf
  <2> QED
    BY <1>3, <1>4, <2>1, <2>5 DEF MirrorInv
<1>11. CASE EnableDone
  <2>1. /\ UNCHANGED <<nifs, prevNifs, sockets>> /\ pc' = "sendIPv6" /\ pc = "enable"
        /\ todo = {}
    BY <1>11 DEF EnableDone, kernelVars
  <2>2. Mirror(nifs)
    <3>1. Mirror(nifs \ todo) /\ nifs \ todo = nifs
      BY <2>1 DEF MirrorInv
    <3> QED
      BY <3>1
  <2> QED
    BY <1>2, <1>3, <1>4, <1>5, <2>1, <2>2 DEF MirrorInv
<1>12. CASE \/ SendIPv6 \/ SendIPv4 \/ ReceiveIPv6 \/ ReceiveIPv4
            \/ Accept \/ NoClientWaiting \/ ReadRequest \/ ReadEndOfFile
            \/ ReceiveAgain \/ ReceiveDone \/ Handle
  <2>1. UNCHANGED <<nifs, prevNifs, sockets>> /\ pc \in Diffed /\ pc' \in Diffed
    BY <1>12 DEF SendIPv6, SendIPv4, ReceiveIPv6, ReceiveIPv4, Accept, NoClientWaiting,
                 ReadRequest, ReadEndOfFile, ReceiveAgain, ReceiveDone, Handle, kernelVars
  <2> QED
    BY <1>2, <1>3, <1>4, <1>5, <2>1 DEF MirrorInv
<1>13. CASE Answer \/ NothingToAnswer
  <2>1. /\ prevNifs' = nifs /\ nifs' = {} /\ UNCHANGED sockets
        /\ pc' = "sleep" /\ pc = "answer"
    BY <1>13 DEF Answer, NothingToAnswer, Finish, kernelVars
  <2>2. Mirror(prevNifs)'
    <3>1. Mirror(nifs)
      BY <2>1 DEF MirrorInv
    <3>2. IndexOf(prevNifs)' = IndexOf(nifs)
      BY <1>1, <2>1 DEF IndexOf, IfNameToIndex
    <3> QED
      BY <1>1, <3>1, <3>2 DEF Mirror
  <2>3. Snapshot(prevNifs)'
    BY <1>1, <2>1 DEF MirrorInv, Snapshot, Up
  <2> QED
    BY <1>3, <1>6, <2>1, <2>2, <2>3 DEF MirrorInv
<1> QED
  BY <1>7, <1>8, <1>9, <1>10, <1>11, <1>12, <1>13

(* The links may change under the daemon, and other addresses are read     *)
(* later; their indices stay.                                              *)
LEMMA MirrorLink ==
    ASSUME TypeOK, TypeOK', IndicesKept, MirrorInv, LinkStep
    PROVE  MirrorInv'
<1>1. PICK n \in IfName : SetDown(n) \/ SetUp(n) \/ Readdress(n)
  BY DEF LinkStep, IndicesKept, Unplug, Plug
<1>2. UNCHANGED <<sockets, memberships, targets, pc, nifs, prevNifs, todo>>
  BY DEF LinkStep, daemonVars
<1>3. \A m \in IfName : link'[m].index = link[m].index
  <2>1. link \in [IfName -> Link]
    BY DEF TypeOK, TypeOKLocalHost
  <2>2. CASE SetDown(n) \/ SetUp(n)
    <3>1. PICK up \in BOOLEAN : link' = [link EXCEPT ![n].up = up]
      BY <2>2 DEF SetDown, SetUp
    <3> QED
      BY <2>1, <3>1 DEF Link
  <2>3. CASE Readdress(n)
    <3>1. PICK ips \in Addresses : link' = [link EXCEPT ![n].ips = ips]
      BY <2>3 DEF Readdress
    <3> QED
      BY <2>1, <3>1 DEF Link
  <2> QED
    BY <1>1, <2>2, <2>3
<1>4. Up # {} => Up' # {}
  <2>1. CASE SetDown(n)
    <3>1. Up # {n} /\ n \in Up
      BY <2>1 DEF SetDown, IndicesKept
    <3>2. PICK m \in Up : m # n
      BY <3>1
    <3>3. m \in Up'
      BY <2>1, <3>2 DEF SetDown, Up, TypeOK, TypeOKLocalHost
    <3> QED
      BY <3>3
  <2>2. CASE SetUp(n) \/ Readdress(n)
    BY <2>2 DEF SetUp, Readdress, Up, TypeOK, TypeOKLocalHost, Link
  <2> QED
    BY <1>1, <2>1, <2>2
<1>5. Indexed'
  BY <1>3 DEF MirrorInv, Indexed
<1>6. Snapshot(nifs)' /\ Snapshot(prevNifs)'
  BY <1>2, <1>3, <1>4 DEF MirrorInv, Snapshot
<1>7. ASSUME NEW interfaces \in SUBSET NetInterface
      PROVE  /\ Mirror(interfaces) => Mirror(interfaces)'
             /\ {IfNameToIndex(nif.name)' : nif \in interfaces}
                    = {IfNameToIndex(nif.name) : nif \in interfaces}
  BY <1>2, <1>3, <1>7, MirrorKept DEF IfNameToIndex, NetInterface
<1>8. /\ nifs \in SUBSET NetInterface /\ prevNifs \in SUBSET NetInterface
      /\ (prevNifs \cap nifs) \cup todo \in SUBSET NetInterface
      /\ nifs \ todo \in SUBSET NetInterface /\ {} \in SUBSET NetInterface
  BY DEF TypeOK, TypeOKDaemon
<1>9. /\ IndexOf(nifs)' = IndexOf(nifs)
      /\ IndexOf(prevNifs)' = IndexOf(prevNifs)
      /\ IndexOf((prevNifs \cap nifs) \cup todo)' = IndexOf((prevNifs \cap nifs) \cup todo)
      /\ IndexOf(nifs \ todo)' = IndexOf(nifs \ todo)
      /\ IndexOf({})' = IndexOf({})
  BY <1>2, <1>7, <1>8 DEF IndexOf
<1>10. /\ (pc = "disable" => Mirror((prevNifs \cap nifs) \cup todo))'
       /\ (pc = "enable" => Mirror(nifs \ todo))'
       /\ (pc \in Diffed => Mirror(nifs))'
       /\ (pc \in Between => Mirror(prevNifs))'
       /\ (~Running => Mirror({}))'
  <2>1. ASSUME NEW interfaces, IndexOf(interfaces)' = IndexOf(interfaces)
        PROVE  Mirror(interfaces)' = Mirror(interfaces)
    BY <1>2, <2>1 DEF Mirror
  <2> QED
    BY <1>2, <1>9, <2>1 DEF MirrorInv, Running, Between, Diffed
<1> QED
  BY <1>2, <1>5, <1>6, <1>10 DEF MirrorInv, Running, Between, Diffed

LEMMA MirrorNext == IndicesKept /\ TypeOK /\ MirrorInv /\ [Next]_vars => MirrorInv'
<1> SUFFICES ASSUME IndicesKept, TypeOK, MirrorInv, [Next]_vars PROVE MirrorInv'
  OBVIOUS
<1>1. TypeOK'
  BY NextType
<1>2. CASE Start \/ Kill \/ DaemonStep
  <2>1. CASE Kill \/ GetInterfacesFails \/ ReceiveFromNull \/ ReceiveThrows
             \/ AnswerGoneClient
    BY <2>1, MirrorExit DEF Kill, GetInterfacesFails, ReceiveFromNull, ReceiveThrows,
           AnswerGoneClient
  <2>2. CASE FoundInterfaces
    BY <1>1, <2>2, MirrorRead
  <2>3. CASE \E nif \in todo : Disable(nif) \/ Enable(nif)
    BY <2>3, MirrorDisable, MirrorEnable
  <2>4. CASE \/ Start \/ WakeUp \/ NoInterfaces \/ DisableDone \/ EnableDone
             \/ SendIPv6 \/ SendIPv4 \/ ReceiveIPv6 \/ ReceiveIPv4
             \/ Accept \/ NoClientWaiting \/ ReadRequest \/ ReadEndOfFile
             \/ ReceiveAgain \/ ReceiveDone \/ Handle \/ Answer \/ NothingToAnswer
    BY <1>1, <2>4, MirrorControl
  <2> QED
    BY <1>2, <2>1, <2>2, <2>3, <2>4 DEF DaemonStep
<1>3. CASE LinkStep
  BY <1>1, <1>3, MirrorLink
<1>4. CASE \/ \E c \in Client : ClientStep(c) /\ UNCHANGED daemonVars
           \/ \E h \in Host : Announce(h) \/ Depart(h)
           \/ Tick \/ UNCHANGED vars
  <2>1. UNCHANGED <<link, sockets, memberships, targets, pc, nifs, prevNifs, todo>>
    <3>1. CASE \E c \in Client : ClientStep(c) /\ UNCHANGED daemonVars
      BY <3>1 DEF ClientStep, Connect, ConnectFails, SendRequest, SendRequestFails,
                  ReceiveAnswer, GetLocalMacsFails, ReceiveFails, TimeOut, Interrupt,
                  RunAgain, kernelVars, daemonVars
    <3>2. CASE \E h \in Host : Announce(h) \/ Depart(h)
      BY <3>2 DEF Announce, Depart, kernelVars, daemonVars
    <3>3. CASE Tick \/ UNCHANGED vars
      BY <3>3 DEF Tick, vars, kernelVars, daemonVars
    <3> QED
      BY <1>4, <3>1, <3>2, <3>3
  <2> QED
    BY <2>1 DEF MirrorInv, Indexed, Snapshot, Mirror, IndexOf, IfNameToIndex, Up, Running
<1> QED
  BY <1>2, <1>3, <1>4 DEF Next

(* As long as interfaces keep their indices and one stays up, the targets  *)
(* and the IPv6 memberships are those of the interfaces the iteration has  *)
(* found, through every change, kill and restart (lines 71-147); the run   *)
(* unplugged shows what happens otherwise.                                 *)
THEOREM Mirrored ==
    ASSUME IndicesKept
    PROVE  SafetySpec => []InterfacesMirrored
<1>1. Init => TypeOK /\ MirrorInv
  BY InitType, MirrorInit
<1>2. (TypeOK /\ MirrorInv) /\ [Next]_vars => (TypeOK /\ MirrorInv)'
  BY NextType, MirrorNext
<1>3. TypeOK /\ MirrorInv => InterfacesMirrored
  BY DEF TypeOK, TypeOKDaemon, MirrorInv, InterfacesMirrored, Mirror, Running, Between,
         Diffing, Diffed
<1> QED
  BY <1>1, <1>2, <1>3, PTL DEF SafetySpec

-----------------------------------------------------------------------------
(* What an announcement leaves on.                                         *)

(* Every interface has an IPv6 address, as the kernel gives one its        *)
(* link-local address: at an interface without one the send would stop.    *)
IPv6Everywhere ==
    /\ \A table \in InitialLink : \A n \in IfName :
          table[n].index # 0 => table[n].ips \cap Subnet6 # {}
    /\ \A ips \in Addresses : ips \cap Subnet6 # {}

Addressed == \A n \in IfName : link[n].index # 0 => link[n].ips \cap Subnet6 # {}

LEMMA AddressedInit == IPv6Everywhere /\ Init => Addressed
  BY DEF IPv6Everywhere, Init, Addressed

(* Only LinkStep changes the interface table.                              *)
LEMMA LinkKept == [Next]_vars /\ ~LinkStep => link' = link
BY DEF Next, DaemonStep,
       Kill, Exit, Start, WakeUp, GetInterfacesFails, NoInterfaces, FoundInterfaces, Disable,
       Enable, DisableDone, EnableDone, SendIPv6, SendIPv4, ReceiveIPv6, ReceiveIPv4,
       ReceiveFromNull, ReceiveThrows, Accept, NoClientWaiting, ReadRequest, ReadEndOfFile,
       ReceiveAgain,
       ReceiveDone, Handle, Answer, AnswerGoneClient, NothingToAnswer, Finish, ClientStep,
       Connect, ConnectFails, SendRequest, SendRequestFails, ReceiveAnswer,
       GetLocalMacsFails, ReceiveFails,
       TimeOut, Interrupt, RunAgain, Announce, Depart, Tick, vars, kernelVars

LEMMA AddressedNext == IPv6Everywhere /\ TypeOK /\ Addressed /\ [Next]_vars => Addressed'
<1> SUFFICES ASSUME IPv6Everywhere, TypeOK, Addressed, [Next]_vars PROVE Addressed'
  OBVIOUS
<1>1. CASE link' = link
  BY <1>1 DEF Addressed
<1>2. CASE LinkStep
  <2>1. PICK n \in IfName : SetDown(n) \/ SetUp(n) \/ Readdress(n) \/ Unplug(n) \/ Plug(n)
    BY <1>2 DEF LinkStep
  <2>2. link \in [IfName -> Link]
    BY DEF TypeOK, TypeOKLocalHost
  <2>3. \A m \in IfName \ {n} : link'[m] = link[m]
    BY <2>1, <2>2 DEF SetDown, SetUp, Readdress, Unplug, Plug
  <2>4. link'[n].index # 0 => link'[n].ips \cap Subnet6 # {}
    <3>1. CASE SetDown(n) \/ SetUp(n)
      <4>1. PICK up \in BOOLEAN : link' = [link EXCEPT ![n].up = up]
        BY <3>1 DEF SetDown, SetUp
      <4> QED
        BY <2>2, <4>1 DEF Link, Addressed
    <3>2. CASE Readdress(n)
      <4>1. PICK ips \in Addresses : link' = [link EXCEPT ![n].ips = ips]
        BY <3>2 DEF Readdress
      <4> QED
        BY <2>2, <4>1 DEF Link, IPv6Everywhere
    <3>3. CASE Unplug(n) \/ Plug(n)
      BY <2>2, <3>3 DEF Unplug, Plug, IPv6Everywhere
    <3> QED
      BY <2>1, <3>1, <3>2, <3>3
  <2> QED
    BY <2>3, <2>4 DEF Addressed
<1> QED
  BY <1>1, <1>2, LinkKept

(* What the senders target when the interfaces are still those found, and  *)
(* that every one of them can be sent on.                                  *)
LEMMA TargetedNifs ==
    ASSUME TypeOK, Addressed, MirrorInv, pc \in {"sendIPv6", "sendIPv4"}, GetInterfaces = nifs
    PROVE  /\ \A f \in Family : TX!Targeted(targets[f]) = IndexOf(nifs)
           /\ IndexOf(nifs) = UpIndex /\ UpIndex \subseteq Usable6 /\ 0 \notin UpIndex
           /\ sockets = Socket
           /\ Up # {} => canUseIPv6 /\ canUseIPv4
<1>1. Mirror(nifs) /\ sockets = Socket
  BY DEF MirrorInv, Running, Diffed, Diffing, Between, PC
<1>2. IndexOf(nifs) = UpIndex
  <2>1. IndexOf(GetInterfaces) = UpIndex
    <3>1. \A nif \in GetInterfaces : nif.name \in Up
      BY DEF GetInterfaces
    <3>2. ASSUME NEW n \in Up
          PROVE  \E nif \in GetInterfaces : nif.name = n
      <4>1. [name |-> n, mac |-> MacOf[n], ips |-> link[n].ips] \in GetInterfaces
        BY DEF GetInterfaces
      <4> QED
        BY <4>1
    <3> QED
      BY <3>1, <3>2 DEF IndexOf, UpIndex, IfNameToIndex
  <2> QED
    BY <2>1
<1>3. UpIndex \subseteq Usable6 /\ 0 \notin UpIndex
  BY DEF Addressed, UpIndex, Usable6, Up
<1>4. ASSUME NEW f \in Family
      PROVE  TX!Targeted(targets[f]) = IndexOf(nifs)
  <2>1. targets[f] = [i \in IfIndex |-> IF i \in IndexOf(nifs) THEN 1 ELSE 0]
    BY <1>1 DEF Mirror
  <2>2. IndexOf(nifs) \subseteq IfIndex
    BY <1>2, IndexType DEF TypeOK
  <2> QED
    BY <2>1, <2>2 DEF TX!Targeted
<1>5. ASSUME Up # {}
      PROVE  canUseIPv6 /\ canUseIPv4
  <2>1. PICK n \in Up : link[n].ips \cap Subnet6 # {}
    BY <1>5 DEF Addressed, Up
  <2>2. [name |-> n, mac |-> MacOf[n], ips |-> link[n].ips] \in nifs
    BY DEF GetInterfaces
  <2> QED
    BY <2>1, <2>2 DEF canUseIPv6, canUseIPv4
<1> QED
  BY <1>1, <1>2, <1>3, <1>4, <1>5

(* The steps that send are SendIPv6 and SendIPv4.                          *)
LEMMA SendingSteps ==
    ASSUME [Next]_vars
    PROVE  /\ pc = "sendIPv6" /\ pc' = "sendIPv4" => SendIPv6
           /\ pc = "sendIPv4" /\ pc' = "receiveIPv6" => SendIPv4
BY DEF Next, DaemonStep,
       Kill, Exit, Start, WakeUp, GetInterfacesFails, NoInterfaces, FoundInterfaces, Disable,
       Enable, DisableDone, EnableDone, SendIPv6, SendIPv4, ReceiveIPv6, ReceiveIPv4,
       ReceiveFromNull, ReceiveThrows, Accept, NoClientWaiting, ReadRequest, ReadEndOfFile,
       ReceiveAgain,
       ReceiveDone, Handle, Answer, AnswerGoneClient, NothingToAnswer, Finish, LinkStep,
       daemonVars, Announce, Depart, Tick, vars, Running

(* The announcement leaves on every interface: none of the targets that    *)
(* the changes of the interfaces have left makes the send stop before it.  *)
LEMMA SentOverEveryInterface ==
    ASSUME TypeOK, Addressed, MirrorInv, [Next]_vars,
           pc = "sendIPv6", pc' = "sendIPv4", GetInterfaces = nifs
    PROVE  IndexOf(nifs) \cap Usable6 \subseteq announced'["IPv6"]
<1>1. SendIPv6 /\ announced \in [Family -> SUBSET IfIndex] /\ "IPv6" \in Family
  BY SendingSteps DEF TypeOK, TypeOKDaemon, Family
<1>2. /\ TX!Targeted(targets["IPv6"]) \ {0} = IndexOf(nifs) /\ IndexOf(nifs) \subseteq Usable6
      /\ Sender("IPv6") \in sockets
  BY <1>1, TargetedNifs DEF Socket
<1>3. CASE Up = {}
  BY <1>3, TargetedNifs DEF UpIndex
<1>4. CASE Up # {}
  <2>1. PICK reached \in Reach("IPv6") : announced' = [announced EXCEPT !["IPv6"] = reached]
    BY <1>1, <1>2, <1>4, TargetedNifs DEF SendIPv6, Send, CanUse
  <2>2. reached = IndexOf(nifs)
    BY <1>2, <2>1 DEF Reach, TX!SendIPv6
  <2> QED
    BY <1>1, <2>1, <2>2
<1> QED
  BY <1>3, <1>4

(* With a route out, the IPv4 sender has a target and uses it.             *)
LEMMA SentOnIPv4 ==
    ASSUME TypeOK, Addressed, MirrorInv, [Next]_vars,
           pc = "sendIPv4", pc' = "receiveIPv6", GetInterfaces = nifs, DefaultRoute # {}
    PROVE  announced'["IPv4"] # {}
<1>1. SendIPv4 /\ announced \in [Family -> SUBSET IfIndex] /\ "IPv4" \in Family
  BY SendingSteps DEF TypeOK, TypeOKDaemon, Family
<1>2. Up # {} /\ UpIndex # {}
  BY DEF DefaultRoute, UpIndex
<1>3. TX!Targeted(targets["IPv4"]) # {} /\ Sender("IPv4") \in sockets /\ canUseIPv4
  BY <1>1, <1>2, TargetedNifs DEF Socket
<1>4. PICK reached \in Reach("IPv4") : announced' = [announced EXCEPT !["IPv4"] = reached]
  BY <1>1, <1>3 DEF SendIPv4, Send, CanUse
<1>5. reached = DefaultRoute
  BY <1>3, <1>4 DEF Reach, TX!SendIPv4
<1> QED
  BY <1>1, <1>4, <1>5

LEMMA SendingInit == IndicesKept /\ IPv6Everywhere /\ Init => TypeOK /\ Addressed /\ MirrorInv
  BY InitType, AddressedInit, MirrorInit

LEMMA SendingNext ==
    IndicesKept /\ IPv6Everywhere /\ TypeOK /\ Addressed /\ MirrorInv /\ [Next]_vars
        => TypeOK' /\ Addressed' /\ MirrorInv'
  BY NextType, AddressedNext, MirrorNext

(* As long as the interfaces are those of this iteration, the announcement *)
(* leaves on every one of them (line 157), after any number of changes,    *)
(* kills and restarts.                                                     *)
THEOREM AnnouncedEverywhere ==
    ASSUME IndicesKept, IPv6Everywhere
    PROVE  SafetySpec => AnnouncesOverEveryInterface
<1>1. TypeOK /\ Addressed /\ MirrorInv /\ [Next]_vars =>
        [pc = "sendIPv6" /\ pc' = "sendIPv4" /\ GetInterfaces = nifs =>
            IndexOf(nifs) \cap Usable6 \subseteq announced'["IPv6"]]_vars
  BY SentOverEveryInterface
<1> QED
  BY <1>1, SendingInit, SendingNext, PTL DEF SafetySpec, AnnouncesOverEveryInterface

(* The announcement leaves over IPv4 as well when there is a route (line   *)
(* 161); the run ipv4_only shows that it takes an IPv6 address.            *)
THEOREM AnnouncedOnIPv4 ==
    ASSUME IndicesKept, IPv6Everywhere
    PROVE  SafetySpec => AnnouncesOnIPv4
<1>1. TypeOK /\ Addressed /\ MirrorInv /\ [Next]_vars =>
        [pc = "sendIPv4" /\ pc' = "receiveIPv6" /\ GetInterfaces = nifs
            /\ DefaultRoute # {} /\ Sender("IPv4") \in sockets =>
               announced'["IPv4"] # {}]_vars
  BY SentOnIPv4
<1> QED
  BY <1>1, SendingInit, SendingNext, PTL DEF SafetySpec, AnnouncesOnIPv4

-----------------------------------------------------------------------------
(* Interfaces that do not change.                                          *)
LinksFixed == Events \cap {"down", "readdress", "unplug"} = {}

InSubnet(ips) == ips # {} /\ ips \subseteq UNION {nif.ips : nif \in GetInterfaces}

(* An iteration works on the interfaces there are, and what it has put in  *)
(* the table is in a subnet of theirs.                                     *)
MatchInv ==
    /\ pc \in Diffing \cup Diffed => nifs = GetInterfaces
    /\ \A e \in neighbors : InSubnet(e.data.ips)

LEMMA MatchHandle ==
    ASSUME TypeOK, MatchInv, Handle
    PROVE  MatchInv'
<1>1. nifs = GetInterfaces /\ UNCHANGED <<link, nifs>> /\ pc' = "answer"
  BY DEF Handle, MatchInv, Diffing, Diffed, Between, PC, kernelVars
<1> DEFINE updates == {<<nif.mac, [nif EXCEPT !.ips = Matched(nif)]>> :
                          nif \in {r \in receivedNifs : Matched(r) # {}}}
<1>2. neighbors' = TS!RemoveOlder(TS!Update(neighbors, updates), ActivityPeriod)
  BY DEF Handle
<1>3. ASSUME NEW p \in updates
      PROVE  p[2].ips # {} /\ p[2].ips \subseteq UNION {nif.ips : nif \in nifs}
  <2>1. PICK r \in receivedNifs : p = <<r.mac, [r EXCEPT !.ips = Matched(r)]>> /\ Matched(r) # {}
    BY DEF updates
  <2>2. r \in NetInterface
    BY DEF TypeOK, TypeOKDaemon
  <2>3. p[2].ips = Matched(r)
    BY <2>1, <2>2 DEF NetInterface
  <2> QED
    BY <2>1, <2>3 DEF Matched
<1> HIDE DEF updates
<1>4. \A e \in neighbors' : e \in neighbors \/ \E p \in updates : e.data = p[2]
  BY <1>2 DEF TS!RemoveOlder, TS!Update
<1>5. \A e \in neighbors' : InSubnet(e.data.ips)
  BY <1>1, <1>3, <1>4 DEF MatchInv, InSubnet
<1> QED
  BY <1>1, <1>5 DEF MatchInv, InSubnet, GetInterfaces, Up

LEMMA MatchNext == LinksFixed /\ TypeOK /\ MatchInv /\ [Next]_vars => MatchInv'
<1> SUFFICES ASSUME LinksFixed, TypeOK, MatchInv, [Next]_vars PROVE MatchInv'
  OBVIOUS
<1>1. link' = link
  BY DEF Next, LinkStep, SetDown, SetUp, Readdress, Unplug, Plug, LinksFixed, DaemonStep,
         Kill, Exit, Start, WakeUp, GetInterfacesFails, NoInterfaces, FoundInterfaces, Disable,
         Enable, DisableDone, EnableDone, SendIPv6, SendIPv4, ReceiveIPv6, ReceiveIPv4,
         ReceiveFromNull, ReceiveThrows, Accept, NoClientWaiting, ReadRequest,
         ReadEndOfFile, ReceiveAgain,
         ReceiveDone, Handle, Answer, AnswerGoneClient, NothingToAnswer, Finish, ClientStep,
         Connect, ConnectFails, SendRequest, SendRequestFails, ReceiveAnswer,
         GetLocalMacsFails, ReceiveFails,
         TimeOut, Interrupt, RunAgain, Announce, Depart, Tick, vars, kernelVars
<1>2. GetInterfaces' = GetInterfaces /\ \A ips : InSubnet(ips)' <=> InSubnet(ips)
  BY <1>1 DEF GetInterfaces, Up, InSubnet
<1>3. CASE Handle
  BY <1>3, MatchHandle
<1>4. CASE Kill \/ GetInterfacesFails \/ ReceiveFromNull \/ ReceiveThrows
           \/ AnswerGoneClient
  BY <1>4 DEF Kill, GetInterfacesFails, ReceiveFromNull, ReceiveThrows, AnswerGoneClient,
         Exit, TS!EmptySet, MatchInv, Diffing, Diffed
<1>5. CASE Tick
  <2>1. UNCHANGED <<pc, nifs>> /\ neighbors' = TS!Aged(neighbors, AgeCap)
    BY <1>5 DEF Tick
  <2>2. ASSUME NEW f \in neighbors'
        PROVE  \E e \in neighbors : f.data = e.data
    BY <2>1 DEF TS!Aged, TS!Entry, TypeOK, TypeOKDaemon
  <2> QED
    BY <1>2, <2>1, <2>2 DEF MatchInv
<1>6. CASE FoundInterfaces
  BY <1>2, <1>6 DEF FoundInterfaces, MatchInv
<1>7. CASE \/ Start \/ WakeUp \/ NoInterfaces \/ DisableDone \/ EnableDone
           \/ SendIPv6 \/ SendIPv4 \/ ReceiveIPv6 \/ ReceiveIPv4
           \/ Accept \/ NoClientWaiting \/ ReadRequest \/ ReadEndOfFile
           \/ ReceiveAgain \/ ReceiveDone \/ Answer \/ NothingToAnswer
           \/ \E nif \in todo : Disable(nif) \/ Enable(nif)
  <2>1. neighbors' = neighbors
    BY <1>7 DEF Start, WakeUp, NoInterfaces, DisableDone, EnableDone, SendIPv6, SendIPv4,
                ReceiveIPv6, ReceiveIPv4, Accept, NoClientWaiting, ReadRequest, ReadEndOfFile,
                ReceiveAgain, ReceiveDone, Answer, NothingToAnswer, Finish, Disable, Enable
  <2>2. \/ pc' \in Between
        \/ pc \in Diffing \cup Diffed /\ nifs' = nifs
    BY <1>7 DEF Start, WakeUp, NoInterfaces, DisableDone, EnableDone, SendIPv6, SendIPv4,
                ReceiveIPv6, ReceiveIPv4, Accept, NoClientWaiting, ReadRequest, ReadEndOfFile,
                ReceiveAgain, ReceiveDone, Answer, NothingToAnswer, Finish, Disable, Enable,
                Between, Diffing, Diffed, PC
  <2> QED
    BY <1>2, <2>1, <2>2 DEF MatchInv, Between, Diffing, Diffed
<1>8. CASE \/ \E c \in Client : ClientStep(c) /\ UNCHANGED daemonVars
           \/ LinkStep \/ UNCHANGED vars
           \/ \E h \in Host : Announce(h) \/ Depart(h)
  <2>1. UNCHANGED <<pc, nifs, neighbors>>
    BY <1>8 DEF LinkStep, Announce, Depart, vars, daemonVars
  <2> QED
    BY <1>2, <2>1 DEF MatchInv
<1> QED
  BY <1>3, <1>4, <1>5, <1>6, <1>7, <1>8 DEF Next, DaemonStep

(* A machine whose interfaces do not change is answered with addresses in  *)
(* a subnet of one of them only.  Otherwise it may not be: an address is   *)
(* matched when it is received (line 294), not when it is answered (304).  *)
THEOREM AnswersMatch ==
    ASSUME LinksFixed
    PROVE  SafetySpec => []AnswersMatchLocalSubnets
<1>1. Init => TypeOK /\ MatchInv
  <2>1. Init => MatchInv
    BY DEF Init, InitDaemon, MatchInv, Diffing, Diffed, TS!EmptySet
  <2> QED
    BY <2>1, InitType
<1>2. (TypeOK /\ MatchInv) /\ [Next]_vars => (TypeOK /\ MatchInv)'
  BY NextType, MatchNext
<1>3. TypeOK /\ MatchInv => AnswersMatchLocalSubnets
  BY DEF MatchInv, InSubnet, AnswersMatchLocalSubnets, Diffing, Diffed, Between, PC
<1> QED
  BY <1>1, <1>2, <1>3, PTL DEF SafetySpec
=============================================================================
