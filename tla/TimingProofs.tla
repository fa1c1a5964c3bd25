----------------------------- MODULE TimingProofs -----------------------------
(***************************************************************************)
(* Theorems about time: that the daemon serves the programs before they    *)
(* give up and so is not ended by one that has, that it forgets the hosts  *)
(* that are silent and that it keeps those it hears.                       *)
(***************************************************************************)
EXTENDS RequestProofs, InterfaceProofs, FiniteSetTheorems

-----------------------------------------------------------------------------
(* Where the daemon is with its connections, whatever fails.               *)

(* An open end belongs to a program that is running, and the other way     *)
(* round; the time of a program runs while it waits.                       *)
PeersOpen ==
    /\ PeersRun
    /\ \A c \in Client :
          /\ clientState[c] \in {"connected", "waiting"} => c \in peerOpen
          /\ clientState[c] # "waiting" => waited[c] = 0

(* A daemon that is not running has no sockets and no connections.         *)
StoppedIsEmpty ==
    ~Running => sockets = {} /\ backlog = <<>> /\ clientSocket = NoClient

(* The connection in hand: none outside the receive loop and the answer,   *)
(* and past the read its request was read unless its program is gone.      *)
BeforeLoop == Between \cup Diffing \cup {"sendIPv6", "sendIPv4"}

HeldWasRead ==
    /\ pc \in BeforeLoop => clientSocket = NoClient
    /\ requested => clientSocket \in consumed
    /\ pc # "read" /\ clientSocket \in peerOpen => clientSocket \in consumed

(* The request of a connected program that waits was read or will be.      *)
SentIsUnreadOrRead ==
    \A c \in Client :
        clientState[c] = "waiting" /\ Connected(c) => c \in unread \cup consumed

ConnectionInv == PeersOpen /\ StoppedIsEmpty /\ HeldWasRead /\ SentIsUnreadOrRead

(* The other invariants of the connections.                                *)
DaemonInv == TypeOK /\ RequestInHand /\ OneAnswerInv

LEMMA ConnectionInit == Init => ConnectionInv
<1> SUFFICES ASSUME Init PROVE ConnectionInv
  OBVIOUS
<1>1. Range(<<>>) = {}
  BY DEF Range
<1> QED
  BY <1>1, LocalHostAssumption
     DEF Init, InitDaemon, InitClient, ConnectionInv, PeersOpen, PeersRun, StoppedIsEmpty,
         HeldWasRead, SentIsUnreadOrRead, Connected, Running, BeforeLoop, Between, Diffing

LEMMA DaemonInit == Init => DaemonInv
BY InitType, RequestInHandInit, OneAnswerInit DEF DaemonInv

LEMMA DaemonNext == DaemonInv /\ [Next]_vars => DaemonInv'
BY NextType, RequestInHandNext, OneAnswerNext DEF DaemonInv

(* The steps of a program.                                                 *)
LEMMA PeersOpenClient ==
    ASSUME TypeOK, PeersOpen, NEW c \in Client, ClientStep(c)
    PROVE  PeersOpen'
<1>1. /\ clientState \in [Client -> ClientState] /\ peerOpen \subseteq Client
      /\ waited \in [Client -> 0 .. CliWait]
  BY DEF TypeOK, TypeOKClient, TypeOKLocalHost
<1>2. PeersRun'
  BY PeersRunClient DEF PeersOpen
<1>3. ASSUME NEW how \in {"answered", "failed"}, Ends(c, how)
      PROVE  PeersOpen'
  BY <1>1, <1>2, <1>3 DEF Ends, PeersOpen
<1>4. CASE Connect(c) \/ SendRequest(c) \/ RunAgain(c)
  BY <1>1, <1>2, <1>4 DEF Connect, SendRequest, RunAgain, PeersOpen
<1> QED
  BY <1>3, <1>4 DEF ClientStep, ConnectFails, SendRequestFails, ReceiveAnswer,
         GetLocalMacsFails, ReceiveFails, TimeOut, Interrupt

LEMMA ConnectionClient ==
    ASSUME DaemonInv, DaemonInv', ConnectionInv, UNCHANGED daemonVars,
           NEW c \in Client, ClientStep(c)
    PROVE  ConnectionInv'
<1> USE DEF ConnectionInv
<1>1. UNCHANGED <<clientSocket, sockets, pc, requested, consumed>>
  BY DEF ClientStep, Connect, ConnectFails, SendRequest, SendRequestFails, ReceiveAnswer,
         GetLocalMacsFails, ReceiveFails, TimeOut, Interrupt, RunAgain, kernelVars, daemonVars
<1>2. PeersOpen'
  BY PeersOpenClient DEF DaemonInv
<1>3. StoppedIsEmpty'
  BY <1>1 DEF ClientStep, Connect, ConnectFails, SendRequest, SendRequestFails,
         ReceiveAnswer, GetLocalMacsFails,
              ReceiveFails, TimeOut, Interrupt, RunAgain, StoppedIsEmpty, Running, Listening
<1>4. HeldWasRead'
  <2>1. clientSocket \in peerOpen' => clientSocket \in peerOpen
    BY DEF ClientStep, Connect, ConnectFails, SendRequest, SendRequestFails, ReceiveAnswer,
           GetLocalMacsFails,
           ReceiveFails, TimeOut, Interrupt, RunAgain, Ends, DaemonInv, OneAnswerInv,
           IdleAreUnconnected, Connected
  <2> QED
    BY <1>1, <2>1 DEF HeldWasRead
<1>5. SentIsUnreadOrRead'
  <2> SUFFICES ASSUME NEW d \in Client, clientState'[d] = "waiting", Connected(d)'
               PROVE  d \in (unread \cup consumed)'
    BY DEF SentIsUnreadOrRead
  <2>1. clientState \in [Client -> ClientState]
    BY DEF DaemonInv, TypeOK, TypeOKClient
  <2>2. CASE SendRequest(c)
    BY <1>1, <2>1, <2>2 DEF SendRequest, SentIsUnreadOrRead, Connected
  <2>3. CASE ~SendRequest(c)
    <3>1. clientState[d] = "waiting" /\ (c = d => unread' = unread)
      BY <2>1, <2>3 DEF ClientStep, Connect, ConnectFails, SendRequestFails, ReceiveAnswer,
             GetLocalMacsFails, ReceiveFails, TimeOut, Interrupt, RunAgain, Ends
    <3>2. unread \ {c} \subseteq unread'
      BY <2>3 DEF ClientStep, Connect, ConnectFails, SendRequestFails, ReceiveAnswer,
             GetLocalMacsFails, ReceiveFails, TimeOut, Interrupt, RunAgain
    <3>3. Connected(d)
      <4>1. CASE Connect(c)
        <5>1. Range(backlog') = Range(backlog) \cup {c} /\ d # c
          BY <2>1, <4>1, QueuedOnce
             DEF Connect, DaemonInv, OneAnswerInv, IdleAreUnconnected, Connected, TypeOK,
                 TypeOKLocalHost, ConnectionsDistinct
        <5> QED
          BY <1>1, <5>1 DEF Connected
      <4>2. CASE ~Connect(c)
        BY <1>1, <2>3, <4>2
           DEF ClientStep, ConnectFails, SendRequestFails, ReceiveAnswer, GetLocalMacsFails,
               ReceiveFails, TimeOut, Interrupt, RunAgain, Connected
      <4> QED
        BY <4>1, <4>2
    <3> QED
      BY <1>1, <3>1, <3>2, <3>3 DEF SentIsUnreadOrRead
  <2> QED
    BY <2>2, <2>3
<1> QED
  BY <1>2, <1>3, <1>4, <1>5

(* The steps of the daemon.                                                *)
LEMMA ConnectionDaemon ==
    ASSUME DaemonInv, DaemonInv', ConnectionInv, UNCHANGED clientVars,
           Start \/ Kill \/ DaemonStep
    PROVE  ConnectionInv'
<1> USE DEF ConnectionInv
<1>1. UNCHANGED <<peerOpen, clientState, waited>>
  BY DEF DaemonStep, Start, Kill, Exit, WakeUp, GetInterfacesFails, NoInterfaces,
         FoundInterfaces, Disable, Enable, DisableDone, EnableDone, SendIPv6,
         SendIPv4, ReceiveIPv6, ReceiveIPv4, ReceiveFromNull, ReceiveThrows, Accept,
         NoClientWaiting, ReadRequest, ReadEndOfFile, ReceiveAgain, ReceiveDone,
         Handle, Answer, AnswerGoneClient, NothingToAnswer, Finish,
         connectionVars, clientVars
<1>2. PeersOpen'
  BY <1>1 DEF PeersOpen, PeersRun
<1>3. NoClient \notin peerOpen
  BY LocalHostAssumption DEF DaemonInv, TypeOK, TypeOKLocalHost
<1>4. ASSUME NEW how \in {"off", "terminated"}, Exit(how)
      PROVE  ConnectionInv'
  <2>1. backlog' = <<>> /\ clientSocket' = NoClient /\ sockets' = {} /\ ~requested'
        /\ pc' \notin BeforeLoop
    BY <1>4 DEF Exit, BeforeLoop, Between, Diffing
  <2>2. \A c \in Client : ~Connected(c)'
    BY <2>1, LocalHostAssumption DEF Connected, Range
  <2> QED
    BY <1>1, <1>2, <1>3, <2>1, <2>2 DEF StoppedIsEmpty, HeldWasRead, SentIsUnreadOrRead
<1>5. CASE Kill \/ GetInterfacesFails \/ ReceiveFromNull \/ ReceiveThrows
           \/ AnswerGoneClient
  BY <1>4, <1>5 DEF Kill, GetInterfacesFails, ReceiveFromNull, ReceiveThrows, AnswerGoneClient
<1>6. CASE Start
  <2>1. UNCHANGED <<connectionVars, requested, consumed>> /\ pc' = "getInterfaces"
        /\ clientSocket = NoClient
    BY <1>6 DEF Start, StoppedIsEmpty
  <2> QED
    BY <1>1, <1>2, <1>3, <2>1
       DEF connectionVars, StoppedIsEmpty, HeldWasRead, SentIsUnreadOrRead, Running, Connected
<1>7. CASE Accept
  <2>1. /\ UNCHANGED <<unread, requested, consumed, sockets>> /\ pc = "accept" /\ pc' = "read"
        /\ clientSocket' = Head(backlog) /\ backlog' = Tail(backlog) /\ backlog # <<>>
    BY <1>7 DEF Accept, kernelVars
  <2>2. \A c : Connected(c)' => Connected(c)
    <3>1. Head(backlog) \in Range(backlog) /\ Range(Tail(backlog)) \subseteq Range(backlog)
      BY <2>1, AcceptedOnce DEF DaemonInv, OneAnswerInv, ConnectionsDistinct, TypeOK,
             TypeOKLocalHost
    <3> QED
      BY <2>1, <3>1 DEF Connected
  <2>3. ~requested
    BY <2>1 DEF DaemonInv, OneAnswerInv, RequestWasRead
  <2> QED
    BY <1>1, <1>2, <2>1, <2>2, <2>3
       DEF StoppedIsEmpty, HeldWasRead, SentIsUnreadOrRead, Running, BeforeLoop, Between,
       Diffing
<1>8. CASE ReadRequest \/ ReadEndOfFile
  BY <1>1, <1>2, <1>8
     DEF ReadRequest, ReadEndOfFile, StoppedIsEmpty, HeldWasRead, SentIsUnreadOrRead, Running,
         Connected, kernelVars, connectionVars, BeforeLoop, Between, Diffing
<1>9. CASE Answer \/ NothingToAnswer
  <2>1. /\ clientSocket' = NoClient /\ pc' = "sleep" /\ requested' = FALSE
        /\ UNCHANGED <<unread, sockets, backlog>>
    BY <1>9 DEF Answer, NothingToAnswer, Finish, LocalsDestroyed, kernelVars
  <2>2. \A c \in Client : Connected(c)' => Connected(c) /\ c # clientSocket
    BY <2>1, LocalHostAssumption DEF Connected, DaemonInv, OneAnswerInv, ConnectionsDistinct
  <2>3. \A c \in consumed : c = clientSocket
    BY DEF DaemonInv, RequestInHand
  <2> QED
    BY <1>1, <1>2, <1>3, <2>1, <2>2, <2>3
       DEF StoppedIsEmpty, HeldWasRead, SentIsUnreadOrRead, Running
<1>10. CASE \/ WakeUp \/ NoInterfaces \/ FoundInterfaces \/ DisableDone \/ EnableDone
            \/ SendIPv6 \/ SendIPv4 \/ ReceiveIPv6 \/ ReceiveIPv4
            \/ NoClientWaiting \/ ReceiveAgain \/ ReceiveDone \/ Handle
            \/ \E nif \in todo : Disable(nif) \/ Enable(nif)
  <2>1. UNCHANGED <<connectionVars, requested, consumed, sockets>>
    BY <1>10 DEF WakeUp, NoInterfaces, FoundInterfaces, DisableDone, EnableDone, SendIPv6,
                 SendIPv4, ReceiveIPv6, ReceiveIPv4, NoClientWaiting, ReceiveAgain,
                 ReceiveDone, Handle, Disable, Enable, kernelVars
  <2>2. pc # "read" /\ Running /\ Running' /\ (pc' \in BeforeLoop => pc \in BeforeLoop)
    BY <1>10 DEF WakeUp, NoInterfaces, FoundInterfaces, DisableDone, EnableDone, SendIPv6,
                 SendIPv4, ReceiveIPv6, ReceiveIPv4, NoClientWaiting, ReceiveAgain,
                 ReceiveDone, Handle, Disable, Enable, Running, BeforeLoop,
                 Between, Diffing
  <2> QED
    BY <1>1, <1>2, <2>1, <2>2
       DEF connectionVars, StoppedIsEmpty, HeldWasRead, SentIsUnreadOrRead, Connected
<1> QED
  BY <1>5, <1>6, <1>7, <1>8, <1>9, <1>10 DEF DaemonStep

LEMMA ConnectionNext == DaemonInv /\ ConnectionInv /\ [Next]_vars => ConnectionInv'
<1> SUFFICES ASSUME DaemonInv, ConnectionInv, [Next]_vars PROVE ConnectionInv'
  OBVIOUS
<1>1. DaemonInv'
  BY DaemonNext
<1>2. CASE (Start \/ Kill \/ DaemonStep) /\ UNCHANGED <<clientVars, environmentVars>>
  BY <1>1, <1>2, ConnectionDaemon
<1>3. CASE (\E c \in Client : ClientStep(c)) /\ UNCHANGED <<daemonVars, environmentVars>>
  BY <1>1, <1>3, ConnectionClient
<1>4. CASE LinkStep \/ UNCHANGED vars \/ \E h \in Host : Announce(h) \/ Depart(h)
  <2>1. UNCHANGED <<connectionVars, clientVars, sockets, pc, requested, consumed>>
    BY <1>4 DEF LinkStep, Announce, Depart, vars, kernelVars, daemonVars
  <2> QED
    BY <2>1 DEF connectionVars, clientVars, ConnectionInv, PeersOpen, PeersRun, StoppedIsEmpty,
                HeldWasRead, SentIsUnreadOrRead, Connected, Running
<1>5. CASE Tick
  <2>1. /\ UNCHANGED <<connectionVars, clientState, sockets, pc, requested, consumed>>
        /\ \A c \in Client : clientState[c] # "waiting" => waited'[c] = waited[c]
    BY <1>5 DEF Tick, kernelVars
  <2> QED
    BY <2>1 DEF connectionVars, ConnectionInv, PeersOpen, PeersRun, StoppedIsEmpty,
                HeldWasRead, SentIsUnreadOrRead, Connected, Running
<1> QED
  BY <1>2, <1>3, <1>4, <1>5 DEF Next

-----------------------------------------------------------------------------
(* Where the daemon waits.                                                 *)

(* No program is stopped between its connect and its send, time passes     *)
(* only in the sleep, in the receive loop when nothing has arrived, and    *)
(* when the daemon is not running: never in the read of a connection.      *)
LEMMA WaitsOutsideTheRead ==
    ASSUME DaemonInv, ConnectionInv, Stalling = {}, Tick
    PROVE  \/ pc = "sleep" /\ elapsed < IterationPeriod
           \/ pc = "test" /\ LoopAgain /\ NothingArrived
           \/ ~Running
<1>1. ASSUME pc = "read", clientSocket \in peerOpen \ unread
      PROVE  FALSE
  <2>1. clientSocket \in Client /\ Connected(clientSocket)
    BY <1>1 DEF DaemonInv, TypeOK, TypeOKLocalHost, Connected
  <2>2. clientState[clientSocket] # "connected"
    BY <2>1 DEF Tick, ProgramsWait
  <2>3. clientState[clientSocket] = "waiting"
    BY <1>1, <2>2 DEF ConnectionInv, PeersOpen, PeersRun
  <2>4. consumed = {}
    BY <1>1 DEF DaemonInv, RequestInHand
  <2> QED
    BY <1>1, <2>1, <2>3, <2>4 DEF ConnectionInv, SentIsUnreadOrRead
<1>2. IterationPeriod \in Nat /\ elapsed \in Nat
  BY DaemonAssumption DEF DaemonInv, TypeOK, TypeOKDaemon, ElapsedCap
<1> QED
  BY <1>1, <1>2 DEF Tick, DaemonWaits, SleepIsOver

(* An interface stays up, so that no iteration is skipped.                 *)
OneStaysUp ==
    /\ "outage" \notin Events
    /\ \A table \in InitialLink : \E n \in IfName : table[n].index # 0 /\ table[n].up

LEMMA UpNext == OneStaysUp /\ TypeOK /\ Up # {} /\ [Next]_vars => Up' # {}
<1> SUFFICES ASSUME OneStaysUp, TypeOK, Up # {}, [Next]_vars PROVE Up' # {}
  OBVIOUS
<1>1. CASE link' = link
  BY <1>1 DEF Up
<1>2. CASE LinkStep
  <2>1. PICK n \in IfName : SetDown(n) \/ SetUp(n) \/ Readdress(n) \/ Unplug(n) \/ Plug(n)
    BY <1>2 DEF LinkStep
  <2>2. link \in [IfName -> Link]
    BY DEF TypeOK, TypeOKLocalHost
  <2>3. \A m \in IfName \ {n} : link'[m] = link[m]
    BY <2>1, <2>2 DEF SetDown, SetUp, Readdress, Unplug, Plug
  <2>4. CASE SetDown(n) \/ Unplug(n)
    <3>1. PICK m \in Up : m # n
      BY <2>4 DEF SetDown, Unplug, OneStaysUp
    <3> QED
      BY <2>3, <3>1 DEF Up
  <2>5. CASE SetUp(n) \/ Readdress(n)
    BY <2>2, <2>5 DEF SetUp, Readdress, Up, Link
  <2>6. CASE Plug(n)
    <3>1. PICK m \in Up : TRUE
      OBVIOUS
    <3>2. m # n
      BY <2>6 DEF Plug, Up
    <3> QED
      BY <2>3, <3>1, <3>2 DEF Up
  <2> QED
    BY <2>1, <2>4, <2>5, <2>6
<1> QED
  BY <1>1, <1>2, LinkKept

-----------------------------------------------------------------------------
(* How long what is queued has to wait: each iteration takes at least one  *)
(* connection and one datagram of each family, and no iteration that finds *)
(* one ends later than its period.                                         *)

Span(iterations) == iterations * IterationPeriod

LEMMA SpanNext ==
    ASSUME NEW k \in Nat
    PROVE  Span(k) \in Nat /\ Span(k + 1) = Span(k) + IterationPeriod /\ Span(0) = 0
BY DaemonAssumption DEF Span

LEMMA SpanMonotonic ==
    ASSUME NEW j \in Nat, NEW k \in Nat, j <= k
    PROVE  Span(j) <= Span(k)
<1>1. PICK d \in Nat : k = j + d
  <2>1. k - j \in Nat /\ k = j + (k - j)
    OBVIOUS
  <2> QED
    BY <2>1
<1>2. Span(k) = Span(j) + Span(d)
  BY <1>1, DaemonAssumption DEF Span
<1> QED
  BY <1>2, SpanNext

(* The time until the daemon takes the k-th of a queue: ahead is where     *)
(* this iteration has yet to take one.                                     *)
Left(ahead, k) ==
    IF pc \in ahead THEN Span(k - 1)
    ELSE IF pc = "sleep"
    THEN Span(k - 1) + (IF elapsed < IterationPeriod THEN IterationPeriod - elapsed ELSE 0)
    ELSE Span(k)

LEMMA LeftBound ==
    ASSUME TypeOK, NEW ahead, NEW k \in Nat \ {0}
    PROVE  Left(ahead, k) \in Nat /\ Span(k - 1) <= Left(ahead, k) /\ Left(ahead, k) <= Span(k)
<1>1. k - 1 \in Nat /\ k = (k - 1) + 1
  OBVIOUS
<1>2. Span(k - 1) \in Nat /\ Span(k) = Span(k - 1) + IterationPeriod
  BY <1>1, SpanNext
<1>3. IterationPeriod \in Nat /\ elapsed \in Nat
  BY DaemonAssumption DEF TypeOK, TypeOKDaemon, ElapsedCap
<1> QED
  BY <1>2, <1>3 DEF Left

LEMMA LeftPrimed ==
    ASSUME TypeOK', NEW ahead, NEW k \in Nat \ {0}
    PROVE  Left(ahead, k)' \in Nat /\ Left(ahead, k)' <= Span(k)
<1>1. Span(k - 1) \in Nat /\ Span(k) = Span(k - 1) + IterationPeriod
  <2>1. k - 1 \in Nat /\ k = (k - 1) + 1
    OBVIOUS
  <2> QED
    BY <2>1, SpanNext
<1>2. IterationPeriod \in Nat /\ elapsed' \in Nat
  BY DaemonAssumption DEF TypeOK, TypeOKDaemon, ElapsedCap
<1>3. Span(k - 1)' = Span(k - 1) /\ Span(k)' = Span(k)
  BY DEF Span
<1> QED
  BY <1>1, <1>2, <1>3 DEF Left

(* It does not grow with the steps of the daemon.                          *)
LEMMA LeftKept ==
    ASSUME TypeOK, TypeOK', NEW ahead, pc \in ahead \cup {"sleep"} => pc' \in ahead,
           NEW k \in Nat \ {0}
    PROVE  Left(ahead, k)' <= Left(ahead, k)
<1>1. /\ Left(ahead, k) \in Nat /\ Span(k - 1) <= Left(ahead, k)
      /\ Left(ahead, k)' \in Nat /\ Left(ahead, k)' <= Span(k)
  BY LeftBound, LeftPrimed
<1>2. CASE pc' \in ahead
  BY <1>1, <1>2 DEF Left, Span
<1>3. CASE pc \notin ahead \cup {"sleep"}
  BY <1>1, <1>3 DEF Left
<1> QED
  BY <1>2, <1>3

(* In the sleep it passes with the time.                                   *)
LEMMA LeftPasses ==
    ASSUME TypeOK, NEW ahead, "sleep" \notin ahead, pc = "sleep", pc' = pc,
           elapsed < IterationPeriod, elapsed' = elapsed + 1, NEW k \in Nat \ {0}
    PROVE  Left(ahead, k)' + 1 = Left(ahead, k)
<1>1. Span(k - 1) \in Nat
  BY SpanNext
<1>2. IterationPeriod \in Nat /\ elapsed \in Nat
  BY DaemonAssumption DEF TypeOK, TypeOKDaemon, ElapsedCap
<1> QED
  BY <1>1, <1>2 DEF Left, Span

-----------------------------------------------------------------------------
(* What the daemon hears.                                                  *)

(* A datagram that is queued comes last, one that is read was first.       *)
LEMMA EnqueuedLast ==
    ASSUME NEW queue \in Seq(Message), NEW m \in Message, NEW copies \in Nat
    PROVE  LET now == Enqueue(queue, m, copies) IN
           /\ \A k \in 1 .. Len(queue) : k \in 1 .. Len(now) /\ now[k] = queue[k]
           /\ \A k \in 1 .. Len(now) :
                 \/ k \in 1 .. Len(queue) /\ now[k] = queue[k]
                 \/ k <= RxCapacity /\ now[k] = m
           /\ copies > 0 /\ Len(queue) < RxCapacity => \E k \in 1 .. Len(now) : now[k] = m
<1> DEFINE room == RxCapacity - Len(queue)
           n == IF copies < room THEN copies ELSE room
           more == [i \in 1 .. n |-> m]
           now == Enqueue(queue, m, copies)
<1>1. Len(queue) \in Nat /\ RxCapacity \in Nat /\ n \in Int /\ now = queue \o more
  BY LenProperties, LocalHostAssumption DEF Enqueue
<1>2. CASE n <= 0
  <2>1. 1 .. n = 1 .. 0
    BY <1>1, <1>2
  <2>2. [i \in 1 .. 0 |-> m] = <<>>
    OBVIOUS
  <2>3. more = <<>>
    BY <2>1, <2>2
  <2>4. now = queue
    BY <1>1, <2>3, ConcatEmptySeq
  <2>5. ~(copies > 0 /\ Len(queue) < RxCapacity)
    BY <1>1, <1>2
  <2> HIDE DEF now
  <2> QED
    BY <1>1, <2>4, <2>5 DEF now
<1>3. CASE n > 0
  <2>1. more \in Seq(Message) /\ Len(more) = n /\ \A i \in 1 .. n : more[i] = m
    BY <1>1, <1>3
  <2>2. n <= RxCapacity - Len(queue)
    BY <1>1
  <2> HIDE DEF more, n, now
  <2>3. /\ Len(now) = Len(queue) + n
        /\ \A k \in 1 .. Len(queue) + n :
              now[k] = IF k <= Len(queue) THEN queue[k] ELSE more[k - Len(queue)]
    BY <1>1, <2>1, ConcatProperties
  <2>4. \A k \in 1 .. Len(queue) : k \in 1 .. Len(now) /\ now[k] = queue[k]
    BY <1>1, <1>3, <2>3
  <2>5. ASSUME NEW k \in 1 .. Len(now), k > Len(queue)
        PROVE  k <= RxCapacity /\ now[k] = m
    <3>1. k - Len(queue) \in 1 .. n /\ k <= RxCapacity
      BY <1>1, <2>2, <2>3, <2>5
    <3> QED
      BY <1>1, <2>1, <2>3, <2>5, <3>1
  <2>6. Len(queue) + 1 \in 1 .. Len(now) /\ Len(queue) + 1 > Len(queue)
    BY <1>1, <1>3, <2>3
  <2>7. \A k \in 1 .. Len(now) :
           \/ k \in 1 .. Len(queue) /\ now[k] = queue[k]
           \/ k <= RxCapacity /\ now[k] = m
    <3> SUFFICES ASSUME NEW k \in 1 .. Len(now), ~(k <= RxCapacity /\ now[k] = m)
                 PROVE  k \in 1 .. Len(queue) /\ now[k] = queue[k]
      OBVIOUS
    <3>1. k \in 1 .. Len(queue)
      BY <1>1, <2>5
    <3> QED
      BY <2>4, <3>1
  <2>8. \E k \in 1 .. Len(now) : now[k] = m
    BY <2>5, <2>6
  <2> QED
    BY <2>4, <2>7, <2>8 DEF now
<1>4. n <= 0 \/ n > 0
  BY <1>1
<1> HIDE DEF n, now
<1> QED
  BY <1>2, <1>3, <1>4

LEMMA ReadFirst ==
    ASSUME NEW queue \in Seq(Message), queue # <<>>
    PROVE  /\ Head(queue) = queue[1] /\ Len(queue) \in Nat /\ 1 \in 1 .. Len(queue)
           /\ \A k \in 1 .. Len(Tail(queue)) :
                 k + 1 \in 1 .. Len(queue) /\ Tail(queue)[k] = queue[k + 1]
           /\ \A k \in 1 .. Len(queue) :
                 k # 1 => k - 1 \in 1 .. Len(Tail(queue)) /\ Tail(queue)[k - 1] = queue[k]
<1>1. /\ Len(queue) \in Nat /\ Len(queue) >= 1 /\ Head(queue) = queue[1]
      /\ Len(Tail(queue)) = Len(queue) - 1
      /\ \A k \in 1 .. Len(Tail(queue)) : Tail(queue)[k] = queue[k + 1]
  BY HeadTailProperties, LenProperties
<1>2. ASSUME NEW k \in 1 .. Len(Tail(queue))
      PROVE  k + 1 \in 1 .. Len(queue) /\ Tail(queue)[k] = queue[k + 1]
  BY <1>1, <1>2
<1>3. ASSUME NEW k \in 1 .. Len(queue), k # 1
      PROVE  k - 1 \in 1 .. Len(Tail(queue)) /\ Tail(queue)[k - 1] = queue[k]
  BY <1>1, <1>3
<1>4. Head(queue) = queue[1] /\ Len(queue) \in Nat /\ 1 \in 1 .. Len(queue)
  BY <1>1
<1> QED
  BY <1>2, <1>3, <1>4

(* The steps that queue datagrams.                                         *)
LEMMA SendsEnqueue ==
    ASSUME TypeOK, SendIPv6 \/ SendIPv4, NEW f \in Family
    PROVE  \/ rx'[f] = rx[f]
           \/ \E copies \in Nat :
                 rx'[f] = Enqueue(rx[f], [result |-> "ok", nifs |-> nifs], copies)
<1>1. PICK g \in Family : Send(g)
  BY DEF SendIPv6, SendIPv4, Family
<1>2. rx \in [Family -> Seq(Message)]
  BY DEF TypeOK, TypeOKLocalHost
<1>3. CASE CanUse(g) /\ Sender(g) \in sockets
  <2>1. PICK reached \in Reach(g) : \E copies \in Looped(g, reached) :
           rx' = [rx EXCEPT ![g] = Enqueue(@, [result |-> "ok", nifs |-> nifs], copies)]
    BY <1>1, <1>3 DEF Send
  <2>2. PICK copies \in Looped(g, reached) :
           rx' = [rx EXCEPT ![g] = Enqueue(@, [result |-> "ok", nifs |-> nifs], copies)]
    BY <2>1
  <2> QED
    BY <1>2, <2>2, LoopedType
<1>4. CASE ~(CanUse(g) /\ Sender(g) \in sockets)
  BY <1>1, <1>4 DEF Send
<1> QED
  BY <1>3, <1>4

LEMMA AnnounceEnqueues ==
    ASSUME TypeOK, NEW g \in Host, Announce(g), NEW f \in Family
    PROVE  \/ rx'[f] = rx[f]
           \/ \E copies \in Nat : rx'[f] = Enqueue(rx[f], Announcement[g], copies)
<1>1. PICK reached \in SUBSET Family :
         \E copies \in [reached -> 1 .. HostTargets[g]] :
            rx' = [r \in Family |->
                     IF r \in reached THEN Enqueue(rx[r], Announcement[g], copies[r])
                                      ELSE rx[r]]
  BY DEF Announce
<1>2. PICK copies \in [reached -> 1 .. HostTargets[g]] :
         rx' = [r \in Family |->
                  IF r \in reached THEN Enqueue(rx[r], Announcement[g], copies[r])
                                   ELSE rx[r]]
  BY <1>1
<1>3. HostTargets[g] \in Nat
  BY SystemAssumption
<1> QED
  BY <1>2, <1>3

ReceiveAt(f) == IF f = "IPv6" THEN "receiveIPv6" ELSE "receiveIPv4"

(* What a step may do to the datagrams of one family.                      *)
LEMMA RxNext ==
    ASSUME TypeOK, [Next]_vars, NEW f \in Family
    PROVE  \/ rx'[f] = rx[f]
           \/ ~Running' /\ rx'[f] = <<>>
           \/ /\ SendIPv6 \/ SendIPv4
              /\ \E copies \in Nat :
                    rx'[f] = Enqueue(rx[f], [result |-> "ok", nifs |-> nifs], copies)
           \/ \E h \in Host, copies \in Nat :
                 Announce(h) /\ rx'[f] = Enqueue(rx[f], Announcement[h], copies)
           \/ /\ ReceiveIPv6 \/ ReceiveIPv4
              /\ pc = ReceiveAt(f) /\ pc' # pc /\ Receive(f)
              /\ rx[f] # <<>> /\ rx'[f] = Tail(rx[f])
<1>1. rx \in [Family -> Seq(Message)]
  BY DEF TypeOK, TypeOKLocalHost
<1>2. CASE SendIPv6 \/ SendIPv4
  BY <1>2, SendsEnqueue
<1>3. CASE ReceiveIPv6 \/ ReceiveIPv4
  BY <1>1, <1>3 DEF ReceiveIPv6, ReceiveIPv4, Receive, ReceiveAt, Family
<1>4. ASSUME NEW h \in Host, Announce(h)
      PROVE  \/ rx'[f] = rx[f]
             \/ \E copies \in Nat : rx'[f] = Enqueue(rx[f], Announcement[h], copies)
  BY <1>4, AnnounceEnqueues
<1>5. ASSUME NEW how \in {"off", "terminated"}, Exit(how)
      PROVE  ~Running' /\ rx'[f] = <<>>
  BY <1>5 DEF Exit, Running
<1>6. CASE Kill \/ GetInterfacesFails \/ ReceiveFromNull \/ ReceiveThrows
           \/ AnswerGoneClient
  BY <1>5, <1>6 DEF Kill, GetInterfacesFails, ReceiveFromNull, ReceiveThrows, AnswerGoneClient
<1>7. CASE \/ Start \/ WakeUp \/ NoInterfaces \/ FoundInterfaces \/ DisableDone \/ EnableDone
           \/ Accept \/ NoClientWaiting \/ ReadRequest \/ ReadEndOfFile
           \/ ReceiveAgain \/ ReceiveDone \/ Handle \/ Answer \/ NothingToAnswer
           \/ \E nif \in todo : Disable(nif) \/ Enable(nif)
  BY <1>7 DEF Start, WakeUp, NoInterfaces, FoundInterfaces, Disable, Enable, DisableDone,
              EnableDone, Accept, NoClientWaiting, ReadRequest, ReadEndOfFile, ReceiveAgain,
              ReceiveDone, Handle, Answer, NothingToAnswer, Finish, kernelVars
<1>8. CASE (\E c \in Client : ClientStep(c)) \/ LinkStep \/ Tick \/ UNCHANGED vars
           \/ \E h \in Host : Depart(h)
  BY <1>8 DEF ClientStep, Connect, ConnectFails, SendRequest, SendRequestFails,
         ReceiveAnswer, GetLocalMacsFails,
              ReceiveFails, TimeOut, Interrupt, RunAgain, LinkStep, Tick, Depart, kernelVars, vars
<1> QED
  BY <1>2, <1>3, <1>4, <1>6, <1>7, <1>8 DEF Next, DaemonStep

(* A datagram comes from a host or carries the interfaces of this machine, *)
(* the map of received interfaces is a local of the receive loop, and a    *)
(* daemon that is not running hears nothing.                               *)
OwnMacs == {MacOf[n] : n \in IfName}
Known(message) ==
    \/ message.result = "ok" /\ Macs(message.nifs) \subseteq OwnMacs
    \/ \E h \in Host : message = Announcement[h]

Hearing == {"receiveIPv6", "receiveIPv4", "accept", "read", "test", "handle"}

HearingInv ==
    /\ Macs(nifs) \subseteq OwnMacs
    /\ \A f \in Family : \A k \in 1 .. Len(rx[f]) : Known(rx[f][k])
    /\ pc \notin Hearing => receivedNifs = {}
    /\ ~Running => elapsed = 0 /\ \A f \in Family : memberships[f] = {} /\ rx[f] = <<>>

LEMMA HearingInit == Init => HearingInv
BY DEF Init, InitDaemon, HearingInv, Macs, Running

LEMMA HearingNext == TypeOK /\ HearingInv /\ [Next]_vars => HearingInv'
<1> SUFFICES ASSUME TypeOK, HearingInv, [Next]_vars PROVE HearingInv'
  OBVIOUS
<1>1. /\ rx \in [Family -> Seq(Message)] /\ Announcement \in [Host -> Message]
      /\ nifs \in SUBSET NetInterface
  BY SystemAssumption DEF TypeOK, TypeOKLocalHost, TypeOKDaemon
<1>2. Macs(nifs') \subseteq OwnMacs
  <2>1. nifs' \in {nifs, {}, GetInterfaces}
    BY DEF Next, DaemonStep, Kill, Exit, Start, WakeUp, GetInterfacesFails, NoInterfaces,
           FoundInterfaces, Disable, Enable, DisableDone, EnableDone, SendIPv6, SendIPv4,
           ReceiveIPv6, ReceiveIPv4, ReceiveFromNull, ReceiveThrows, Accept,
           NoClientWaiting, ReadRequest,
           ReadEndOfFile, ReceiveAgain, ReceiveDone, Handle, Answer, AnswerGoneClient,
           NothingToAnswer, Finish, LinkStep, Announce, Depart, Tick, vars, daemonVars
  <2>2. Macs(GetInterfaces) \subseteq OwnMacs /\ Macs({}) \subseteq OwnMacs
    BY DEF Macs, GetInterfaces, OwnMacs, Up
  <2> QED
    BY <2>1, <2>2 DEF HearingInv
<1>3. ASSUME NEW f \in Family, NEW k \in 1 .. Len(rx'[f])
      PROVE  Known(rx'[f][k])
  <2>1. ASSUME NEW m \in Message, Known(m), NEW copies \in Nat, rx'[f] = Enqueue(rx[f], m, copies)
        PROVE  Known(rx'[f][k])
    BY <1>1, <1>3, <2>1, EnqueuedLast DEF HearingInv
  <2>2. CASE \E copies \in Nat :
                rx'[f] = Enqueue(rx[f], [result |-> "ok", nifs |-> nifs], copies)
    BY <1>1, <2>1, <2>2 DEF Message, Known, HearingInv
  <2>3. CASE \E h \in Host, copies \in Nat : rx'[f] = Enqueue(rx[f], Announcement[h], copies)
    BY <1>1, <2>1, <2>3 DEF Known
  <2>4. CASE rx[f] # <<>> /\ rx'[f] = Tail(rx[f])
    BY <1>1, <1>3, <2>4, ReadFirst DEF HearingInv
  <2>5. CASE rx'[f] = rx[f]
    BY <1>3, <2>5 DEF HearingInv
  <2>6. CASE rx'[f] = <<>>
    BY <1>3, <2>6
  <2> QED
    BY <2>2, <2>3, <2>4, <2>5, <2>6, RxNext
<1>4. pc' \notin Hearing => receivedNifs' = {}
  <2>1. CASE \/ ReceiveIPv6 \/ ReceiveIPv4 \/ Accept \/ NoClientWaiting \/ ReadRequest
             \/ ReadEndOfFile \/ ReceiveAgain \/ ReceiveDone
    BY <2>1 DEF Hearing, ReceiveIPv6, ReceiveIPv4, Accept, NoClientWaiting, ReadRequest,
                ReadEndOfFile, ReceiveAgain, ReceiveDone
  <2>2. CASE Handle \/ Kill \/ GetInterfacesFails \/ ReceiveFromNull \/ ReceiveThrows
             \/ AnswerGoneClient
    BY <2>2 DEF Handle, Kill, GetInterfacesFails, ReceiveFromNull, ReceiveThrows,
           AnswerGoneClient, Exit
  <2>3. CASE \/ Start \/ WakeUp \/ NoInterfaces \/ FoundInterfaces \/ DisableDone \/ EnableDone
             \/ SendIPv6 \/ SendIPv4 \/ Answer \/ NothingToAnswer
             \/ \E nif \in todo : Disable(nif) \/ Enable(nif)
    BY <2>3 DEF HearingInv, Hearing, Running, Start, WakeUp, NoInterfaces, FoundInterfaces,
                DisableDone, EnableDone, SendIPv6, SendIPv4, Answer, NothingToAnswer, Finish,
                Disable, Enable
  <2>4. CASE UNCHANGED <<pc, receivedNifs>>
    BY <2>4 DEF HearingInv
  <2> QED
    BY <2>1, <2>2, <2>3, <2>4
       DEF Next, DaemonStep, LinkStep, Announce, Depart, Tick, vars, daemonVars
<1>5. ASSUME ~Running'
      PROVE  elapsed' = 0 /\ \A f \in Family : memberships'[f] = {} /\ rx'[f] = <<>>
  <2>1. ASSUME NEW how, Exit(how)
        PROVE  elapsed' = 0 /\ \A f \in Family : memberships'[f] = {} /\ rx'[f] = <<>>
    BY <2>1 DEF Exit
  <2>2. CASE Kill \/ GetInterfacesFails \/ ReceiveFromNull \/ ReceiveThrows
             \/ AnswerGoneClient
    BY <2>1, <2>2 DEF Kill, GetInterfacesFails, ReceiveFromNull, ReceiveThrows, AnswerGoneClient
  <2>3. CASE ~(Kill \/ GetInterfacesFails \/ ReceiveFromNull \/ ReceiveThrows
               \/ AnswerGoneClient)
    <3>1. UNCHANGED <<pc, memberships, elapsed>> /\ ~Running
      BY <1>5, <2>3
         DEF HearingInv, Next, DaemonStep, Start, WakeUp, NoInterfaces, FoundInterfaces,
             Disable, Enable, DisableDone, EnableDone, SendIPv6, SendIPv4, ReceiveIPv6,
             ReceiveIPv4, Accept, NoClientWaiting, ReadRequest, ReadEndOfFile, ReceiveAgain,
             ReceiveDone, Handle, Answer, NothingToAnswer, Finish, LinkStep, Announce, Depart,
             Tick, vars, daemonVars, kernelVars, Running, ClientStep, Connect, ConnectFails,
             SendRequest, SendRequestFails, ReceiveAnswer, GetLocalMacsFails, ReceiveFails,
             TimeOut, Interrupt, RunAgain
    <3>2. \A f \in Family : rx'[f] = rx[f]
      <4> SUFFICES ASSUME NEW f \in Family PROVE rx'[f] = rx[f]
        OBVIOUS
      <4>1. ~SendIPv6 /\ ~SendIPv4 /\ ~ReceiveIPv6 /\ ~ReceiveIPv4
        BY <3>1 DEF Running, SendIPv6, SendIPv4, ReceiveIPv6, ReceiveIPv4
      <4>2. \A h \in Host : ~Announce(h)
        <5> SUFFICES ASSUME NEW h \in Host, Announce(h) PROVE FALSE
          OBVIOUS
        <5>1. PICK g \in Family : Arrives(g, IfNameToIndex(HostLink[h]))
          BY DEF Announce
        <5> QED
          BY <3>1, <5>1 DEF HearingInv, Arrives
      <4> QED
        BY <3>1, <4>1, <4>2, RxNext DEF HearingInv
    <3> QED
      BY <3>1, <3>2 DEF HearingInv
  <2> QED
    BY <2>2, <2>3
<1> QED
  BY <1>2, <1>3, <1>4, <1>5 DEF HearingInv

-----------------------------------------------------------------------------
(* No program gives up.                                                    *)

(* Programs that are not stopped or killed while they wait, and that wait  *)
(* for as many iterations as there are programs; a daemon that has its     *)
(* sockets and an interface, and is sent nothing it throws on: what other  *)
(* daemons send, whole or cut, it does not (TransferProofs).               *)
Patience ==
    /\ SocketFailures = {} /\ Faults = {} /\ OneStaysUp
    /\ \A h \in Host : Announcement[h].result # "exception"
    /\ Stalling = {} /\ "waiting" \notin Interrupts
    /\ IsFiniteSet(Client) /\ Span(Cardinality(Client)) < CliWait

LEMMA SpanOfAll ==
    ASSUME Patience
    PROVE  Cardinality(Client) \in Nat /\ Span(Cardinality(Client)) \in Nat
BY FS_CardinalityType, SpanNext DEF Patience

(* No more connections are queued than there are programs.                 *)
LEMMA BacklogFits ==
    ASSUME IsFiniteSet(Client), NEW queue \in Seq(Client), Distinct(queue)
    PROVE  Cardinality(Client) \in Nat /\ Len(queue) <= Cardinality(Client)
<1>1. Len(queue) \in Nat /\ DOMAIN queue = 1 .. Len(queue) /\ queue \in [1 .. Len(queue) -> Client]
  BY LenProperties
<1>2. queue \in Injection(1 .. Len(queue), Client)
  BY <1>1 DEF Distinct, Injection, IsInjective
<1>3. Cardinality(1 .. Len(queue)) <= Cardinality(Client)
  BY <1>2, FS_Injection
<1>4. Cardinality(1 .. Len(queue)) = Len(queue)
  BY <1>1, FS_Interval
<1> QED
  BY <1>3, <1>4, FS_CardinalityType

(* Where this iteration has yet to accept a connection.                    *)
ToAccept == (BeforeLoop \ {"sleep"}) \cup {"receiveIPv6", "receiveIPv4", "accept"}

Patient(c) == waited[c] <= Span(Cardinality(Client))

(* The daemon comes to each queued program in time.                        *)
InTime ==
    /\ \A i \in 1 .. Len(backlog) : clientState[backlog[i]] = "waiting" =>
          waited[backlog[i]] + Left(ToAccept, i) <= Span(Cardinality(Client))
    /\ \A c \in Client : c = clientSocket => Patient(c)

(* A program that waits without an answer is connected, and a connected    *)
(* one whose request was sent waits.                                       *)
WaitingAreConnected ==
    \A c \in Client :
        /\ clientState[c] = "waiting" /\ answers[c] = <<>> => Connected(c)
        /\ Connected(c) /\ c \in unread \cup consumed => clientState[c] = "waiting"

ServedInv ==
    /\ Up # {} /\ pc # "terminated" /\ (Running => sockets = Socket)
    /\ WaitingAreConnected /\ InTime

LEMMA ServedInit == Patience /\ Init => ServedInv
<1> SUFFICES ASSUME Patience, Init PROVE ServedInv
  OBVIOUS
<1>1. Up # {} /\ IfName # {}
  BY DEF Init, Patience, OneStaysUp, Up
<1>2. Len(backlog) = 0 /\ Range(backlog) = {} /\ clientSocket = NoClient
  BY DEF Init, InitDaemon, Range
<1> QED
  BY <1>1, <1>2, LocalHostAssumption
     DEF Init, InitDaemon, InitClient, ServedInv, Running, WaitingAreConnected, InTime

(* What ServedInv is kept with.                                            *)
ServingInv == DaemonInv /\ ConnectionInv /\ HearingInv /\ ServedInv

(* No connected program times out.                                         *)
LEMMA ConnectedArePatient ==
    ASSUME Patience, ServingInv, NEW c \in Client, Connected(c), clientState[c] = "waiting"
    PROVE  waited[c] < CliWait
<1>1. /\ Cardinality(Client) \in Nat /\ Span(Cardinality(Client)) \in Nat
      /\ Span(Cardinality(Client)) < CliWait /\ CliWait \in Nat /\ waited[c] \in Nat
  BY CliAssumption, FS_CardinalityType, SpanNext
     DEF Patience, ServingInv, DaemonInv, TypeOK, TypeOKClient
<1>2. CASE c = clientSocket
  BY <1>1, <1>2 DEF ServingInv, ServedInv, InTime, Patient
<1>3. CASE c \in Range(backlog)
  <2>1. backlog \in Seq(Client)
    BY DEF ServingInv, DaemonInv, TypeOK, TypeOKLocalHost
  <2>2. PICK i \in 1 .. Len(backlog) : backlog[i] = c
    BY <1>3, <2>1, LenProperties DEF Range
  <2>3. i \in Nat \ {0} /\ Left(ToAccept, i) \in Nat
    BY <2>1, <2>2, LenProperties, LeftBound DEF ServingInv, DaemonInv
  <2> QED
    BY <1>1, <2>2, <2>3 DEF ServingInv, ServedInv, InTime
<1> QED
  BY <1>2, <1>3 DEF Connected

(* A program that waits and is held has had its request read: it is about  *)
(* to be answered.                                                         *)
LEMMA HeldIsRequested ==
    ASSUME ServingInv, clientSocket \in Client, clientState[clientSocket] = "waiting", pc # "read"
    PROVE  clientSocket \in consumed /\ requested /\ Listening /\ pc \in {"test", "handle", "answer"}
BY DEF ServingInv, DaemonInv, RequestInHand, ConnectionInv, PeersOpen, HeldWasRead

(* The steps of the daemon that end it are not taken.                      *)
LEMMA NoExit ==
    ASSUME Patience, ServingInv,
           Kill \/ GetInterfacesFails \/ ReceiveFromNull \/ ReceiveThrows
           \/ AnswerGoneClient \/ NoInterfaces
    PROVE  FALSE
<1>1. ~Kill /\ ~GetInterfacesFails
  BY DEF Patience, Kill, GetInterfacesFails
<1>2. ~ReceiveFromNull
  BY DEF ServingInv, ServedInv, ReceiveFromNull, NullReceiver, Running, Socket, Family
<1>3. ~AnswerGoneClient
  <2> SUFFICES ASSUME AnswerGoneClient PROVE FALSE
    OBVIOUS
  <2>1. clientSocket \in Client /\ clientSocket \in consumed /\ clientSocket \notin peerOpen
    BY DEF AnswerGoneClient, Answering, ServingInv, DaemonInv, TypeOK, TypeOKLocalHost,
           ConnectionInv, HeldWasRead
  <2>2. clientState[clientSocket] = "waiting"
    BY <2>1 DEF ServingInv, ServedInv, WaitingAreConnected, Connected
  <2> QED
    BY <2>1, <2>2 DEF ServingInv, ConnectionInv, PeersOpen
<1>4. ~NoInterfaces
  BY DEF NoInterfaces, GetInterfaces, ServingInv, ServedInv
<1>5. ~ReceiveThrows
  <2> SUFFICES ASSUME NEW f \in Family, Throws(f) PROVE FALSE
    BY DEF ReceiveThrows, Family
  <2>1. rx[f] \in Seq(Message) /\ rx[f] # <<>> /\ Head(rx[f]).result = "exception"
    BY DEF Throws, ServingInv, DaemonInv, TypeOK, TypeOKLocalHost
  <2>2. Known(Head(rx[f]))
    BY <2>1, ReadFirst DEF ServingInv, HearingInv
  <2> QED
    BY <2>1, <2>2 DEF Known, Patience
<1> QED
  BY <1>1, <1>2, <1>3, <1>4, <1>5

(* A step of the daemon that accepts no connection keeps each in time.     *)
LEMMA InTimeKept ==
    ASSUME Patience, TypeOK, TypeOK', InTime, UNCHANGED <<backlog, clientVars>>,
           clientSocket' \in {clientSocket, NoClient},
           backlog # <<>> /\ pc \in ToAccept \cup {"sleep"} => pc' \in ToAccept
    PROVE  InTime'
<1>1. backlog \in Seq(Client) /\ Len(backlog) \in Nat /\ Span(Cardinality(Client))' = Span(Cardinality(Client))
  BY LenProperties DEF TypeOK, TypeOKLocalHost, Span
<1>2. ASSUME NEW i \in 1 .. Len(backlog), clientState[backlog[i]] = "waiting"
      PROVE  waited[backlog[i]] + Left(ToAccept, i)' <= Span(Cardinality(Client))
  <2>1. i \in Nat \ {0} /\ backlog # <<>> /\ backlog[i] \in Client
    BY <1>1, <1>2, ElementOfSeq
  <2>2. Left(ToAccept, i)' <= Left(ToAccept, i)
    BY <2>1, LeftKept
  <2>3. Left(ToAccept, i) \in Nat
    BY <2>1, LeftBound
  <2>4. Left(ToAccept, i)' \in Nat
    BY <2>1, LeftPrimed
  <2>5. waited[backlog[i]] \in Nat
    BY <2>1 DEF TypeOK, TypeOKClient
  <2>6. waited[backlog[i]] + Left(ToAccept, i) <= Span(Cardinality(Client))
    BY <1>2 DEF InTime
  <2> QED
    BY <2>2, <2>3, <2>4, <2>5, <2>6, SpanOfAll
<1> QED
  BY <1>1, <1>2, LocalHostAssumption DEF InTime, Patient, clientVars

(* The connection that is accepted was in time, and those behind it move   *)
(* up one place as the iteration takes no other.                           *)
LEMMA InTimeAccept ==
    ASSUME Patience, TypeOK, TypeOK', InTime, PeersOpen, UNCHANGED clientVars, Accept
    PROVE  InTime'
<1>1. /\ backlog \in Seq(Client) /\ backlog # <<>> /\ pc = "accept" /\ pc' = "read"
      /\ clientSocket' = Head(backlog) /\ backlog' = Tail(backlog)
  BY DEF Accept, TypeOK, TypeOKLocalHost
<1>2. /\ Len(backlog) \in Nat /\ Len(backlog) >= 1 /\ Head(backlog) = backlog[1]
      /\ Len(backlog') = Len(backlog) - 1
      /\ \A i \in 1 .. Len(backlog') : backlog'[i] = backlog[i + 1]
  BY <1>1, HeadTailProperties, LenProperties
<1>3. Span(Cardinality(Client))' = Span(Cardinality(Client)) /\ UNCHANGED <<clientState, waited>>
  BY DEF Span, clientVars
<1>4. waited \in [Client -> Nat]
  BY CliAssumption DEF TypeOK, TypeOKClient
<1>5. ASSUME NEW i \in 1 .. Len(backlog'), clientState[backlog'[i]] = "waiting"
      PROVE  waited[backlog'[i]] + Left(ToAccept, i)' <= Span(Cardinality(Client))
  <2>1. i \in Nat \ {0} /\ i + 1 \in 1 .. Len(backlog) /\ (i + 1) - 1 = i /\ backlog'[i] = backlog[i + 1]
    BY <1>2
  <2>2. Left(ToAccept, i + 1) = Span(i)
    BY <1>1, <2>1 DEF Left, ToAccept
  <2>3. Left(ToAccept, i)' = Span(i)
    BY <1>1 DEF Left, ToAccept, Span, BeforeLoop, Between, Diffing
  <2>4. waited[backlog[i + 1]] + Left(ToAccept, i + 1) <= Span(Cardinality(Client))
    BY <1>5, <2>1 DEF InTime
  <2> QED
    BY <2>1, <2>2, <2>3, <2>4
<1>6. waited[Head(backlog)] <= Span(Cardinality(Client))
  <2>1. 1 \in Nat \ {0} /\ Left(ToAccept, 1) \in Nat
    BY LeftBound
  <2>2. Head(backlog) \in Client
    BY <1>1, HeadTailProperties
  <2> QED
    BY <1>2, <1>4, <2>1, <2>2, SpanOfAll DEF InTime, PeersOpen
<1> QED
  BY <1>1, <1>3, <1>5, <1>6 DEF InTime, Patient

LEMMA ServedDaemon ==
    ASSUME Patience, ServingInv, TypeOK', UNCHANGED clientVars, Start \/ Kill \/ DaemonStep
    PROVE  ServedInv'
<1> USE DEF ServingInv
<1>1. /\ ~Kill /\ ~GetInterfacesFails /\ ~ReceiveFromNull /\ ~ReceiveThrows
      /\ ~AnswerGoneClient /\ ~NoInterfaces
  BY NoExit
<1>2. TypeOK /\ UNCHANGED <<clientState, waited>>
  BY DEF DaemonInv, clientVars
<1>3. Up' # {}
  <2>1. UNCHANGED link
    BY <1>1 DEF DaemonStep, Start, WakeUp, FoundInterfaces, Disable, Enable, DisableDone,
                EnableDone, SendIPv6, SendIPv4, ReceiveIPv6, ReceiveIPv4, Accept,
                NoClientWaiting, ReadRequest, ReadEndOfFile, ReceiveAgain, ReceiveDone,
                Handle, Answer, NothingToAnswer, Finish, kernelVars
  <2> QED
    BY <2>1 DEF ServedInv, Up
<1>4. CASE Start
  <2>1. sockets' = Socket /\ UNCHANGED <<connectionVars, consumed>> /\ pc' = "getInterfaces"
        /\ backlog = <<>> /\ clientSocket = NoClient
    BY <1>4 DEF Start, Patience, ConnectionInv, StoppedIsEmpty
  <2>2. WaitingAreConnected'
    BY <1>2, <2>1 DEF ServedInv, WaitingAreConnected, Connected, connectionVars
  <2>3. InTime'
    BY <1>2, <2>1, InTimeKept DEF ServedInv, connectionVars
  <2> QED
    BY <1>3, <2>1, <2>2, <2>3 DEF ServedInv
<1>5. CASE Accept
  <2>1. /\ UNCHANGED <<sockets, unread, answers, consumed>> /\ pc = "accept" /\ pc' = "read"
        /\ clientSocket' = Head(backlog) /\ backlog' = Tail(backlog) /\ backlog # <<>>
    BY <1>5 DEF Accept, kernelVars
  <2>2. Range(backlog) = Range(backlog') \cup {clientSocket'}
    BY <2>1, AcceptedOnce DEF DaemonInv, OneAnswerInv, ConnectionsDistinct, TypeOK,
           TypeOKLocalHost
  <2>3. \A c \in Client : c = clientSocket => clientState[c] # "waiting"
    BY <2>1, HeldIsRequested
  <2>4. WaitingAreConnected'
    BY <1>2, <2>1, <2>2, <2>3 DEF ServedInv, WaitingAreConnected, Connected
  <2>5. InTime'
    BY <1>2, <1>5, InTimeAccept DEF ServedInv, ConnectionInv
  <2> QED
    BY <1>3, <2>1, <2>4, <2>5 DEF ServedInv, Running
<1>6. CASE ReadRequest
  <2>1. /\ UNCHANGED <<sockets, backlog, clientSocket, answers>> /\ pc = "read" /\ pc' = "test"
        /\ (unread \cup consumed)' = unread \cup consumed
    BY <1>6 DEF ReadRequest, kernelVars
  <2>2. WaitingAreConnected'
    BY <1>2, <2>1 DEF ServedInv, WaitingAreConnected, Connected
  <2>3. InTime'
    BY <1>2, <2>1, InTimeKept DEF ServedInv, ToAccept, BeforeLoop, Between, Diffing
  <2> QED
    BY <1>3, <2>1, <2>2, <2>3 DEF ServedInv, Running
<1>7. CASE Answer \/ NothingToAnswer
  <2>1. /\ UNCHANGED <<sockets, backlog, unread>> /\ pc = "answer" /\ pc' = "sleep"
        /\ clientSocket' = NoClient /\ consumed' = {}
        /\ \A c \in Client : c # clientSocket => answers'[c] = answers[c]
    BY <1>2, <1>7 DEF Answer, NothingToAnswer, Finish, LocalsDestroyed, kernelVars, TypeOK,
                      TypeOKLocalHost
  <2>2. \A c \in Client : c = clientSocket /\ clientState[c] = "waiting" => answers'[c] # <<>>
    <3> SUFFICES ASSUME clientSocket \in Client, clientState[clientSocket] = "waiting"
                 PROVE  answers'[clientSocket] # <<>>
      OBVIOUS
    <3>1. requested /\ Listening /\ clientSocket # NoClient
      BY <2>1, HeldIsRequested, LocalHostAssumption
    <3>2. Answer
      BY <1>7, <3>1 DEF NothingToAnswer, Answering
    <3>3. /\ answers \in [Client -> Seq(SUBSET NetInterface)]
          /\ answers'[clientSocket] = Append(answers[clientSocket], TS!Data(neighbors))
      BY <1>2, <3>2 DEF Answer, TypeOK, TypeOKLocalHost
    <3>4. TS!Data(neighbors) \in SUBSET NetInterface
      BY <1>2 DEF TypeOK, TypeOKDaemon, TS!Data, TS!Entry
    <3> QED
      BY <3>3, <3>4, AppendProperties
  <2>3. WaitingAreConnected'
    BY <1>2, <2>1, <2>2, LocalHostAssumption DEF ServedInv, WaitingAreConnected, Connected
  <2>4. InTime'
    BY <1>2, <2>1, InTimeKept DEF ServedInv, ToAccept, BeforeLoop, Between, Diffing
  <2> QED
    BY <1>3, <2>1, <2>3, <2>4 DEF ServedInv, Running
<1>8. CASE \/ WakeUp \/ FoundInterfaces \/ DisableDone \/ EnableDone
           \/ SendIPv6 \/ SendIPv4 \/ ReceiveIPv6 \/ ReceiveIPv4
           \/ NoClientWaiting \/ ReadEndOfFile \/ ReceiveAgain \/ ReceiveDone \/ Handle
           \/ \E nif \in todo : Disable(nif) \/ Enable(nif)
  <2>1. UNCHANGED <<connectionVars, consumed, sockets>>
    BY <1>8 DEF WakeUp, FoundInterfaces, DisableDone, EnableDone, SendIPv6, SendIPv4,
                ReceiveIPv6, ReceiveIPv4, NoClientWaiting, ReadEndOfFile, ReceiveAgain,
                ReceiveDone, Handle, Disable, Enable, kernelVars
  <2>2. Running /\ Running' /\ pc' # "terminated"
    BY <1>8 DEF WakeUp, FoundInterfaces, DisableDone, EnableDone, SendIPv6, SendIPv4,
                ReceiveIPv6, ReceiveIPv4, NoClientWaiting, ReadEndOfFile, ReceiveAgain,
                ReceiveDone, Handle, Disable, Enable, Running
  <2>3. backlog # <<>> /\ pc \in ToAccept \cup {"sleep"} => pc' \in ToAccept
    <3>1. Listening
      BY <2>2 DEF Listening, ServedInv, Socket
    <3> QED
      BY <1>8, <3>1 DEF WakeUp, FoundInterfaces, DisableDone, EnableDone, SendIPv6, SendIPv4,
                ReceiveIPv6, ReceiveIPv4, NoClientWaiting, ReadEndOfFile, ReceiveAgain,
                ReceiveDone, Handle, Disable, Enable, ToAccept, BeforeLoop, Between, Diffing
  <2>4. WaitingAreConnected'
    BY <1>2, <2>1 DEF ServedInv, WaitingAreConnected, Connected, connectionVars
  <2>5. InTime'
    BY <1>2, <2>1, <2>3, InTimeKept DEF ServedInv, connectionVars
  <2> QED
    BY <1>3, <2>1, <2>2, <2>4, <2>5 DEF ServedInv
<1> QED
  BY <1>1, <1>4, <1>5, <1>6, <1>7, <1>8 DEF DaemonStep

(* A program that is connected is not read from before it sends.           *)
LEMMA ConnectedUnsent ==
    ASSUME ServingInv, NEW c \in Client, clientState[c] \in {"idle", "connected"}
    PROVE  c \notin unread \cup consumed
BY DEF ServingInv, DaemonInv, OneAnswerInv, UnreadWereSent, RequestInHand, RequestWasRead,
       IdleAreUnconnected, Connected

LEMMA ServedClient ==
    ASSUME Patience, ServingInv, TypeOK', UNCHANGED daemonVars, NEW c \in Client, ClientStep(c)
    PROVE  ServedInv'
<1> USE DEF ServingInv
<1>1. UNCHANGED <<kernelVars, clientSocket, pc, consumed, elapsed>>
  BY DEF ClientStep, Connect, ConnectFails, SendRequest, SendRequestFails, ReceiveAnswer,
         GetLocalMacsFails, ReceiveFails, TimeOut, Interrupt, RunAgain, daemonVars
<1>2. Up' # {} /\ pc' # "terminated" /\ (Running' => sockets' = Socket)
  BY <1>1 DEF ServedInv, Up, Running, kernelVars
<1>3. /\ clientState \in [Client -> ClientState] /\ waited \in [Client -> Nat]
      /\ answers \in [Client -> Seq(SUBSET NetInterface)] /\ backlog \in Seq(Client)
      /\ Len(backlog) \in Nat
  <2>1. TypeOKClient /\ TypeOKLocalHost
    BY DEF DaemonInv, TypeOK
  <2>2. answers \in [Client -> Seq(SUBSET NetInterface)] /\ backlog \in Seq(Client)
    BY <2>1 DEF TypeOKLocalHost
  <2>3. clientState \in [Client -> ClientState] /\ waited \in [Client -> Nat]
    BY <2>1, CliAssumption DEF TypeOKClient
  <2> QED
    BY <2>2, <2>3, LenProperties
<1>4. \A k \in Nat \ {0} : Left(ToAccept, k)' = Left(ToAccept, k)
  BY <1>1 DEF Left, Span
<1>5. Span(Cardinality(Client))' = Span(Cardinality(Client))
  BY DEF Span
<1>6. CASE Connect(c)
  <2>1. /\ clientState[c] = "idle" /\ clientState' = [clientState EXCEPT ![c] = "connected"]
        /\ backlog' = Append(backlog, c) /\ UNCHANGED <<unread, answers, waited>>
    BY <1>6 DEF Connect
  <2>2. Range(backlog') = Range(backlog) \cup {c}
    BY <1>3, <2>1, QueuedOnce
       DEF DaemonInv, OneAnswerInv, IdleAreUnconnected, Connected, ConnectionsDistinct
  <2>3. c \notin unread \cup consumed
    BY <2>1, ConnectedUnsent
  <2>4. WaitingAreConnected'
    BY <1>1, <1>3, <2>1, <2>2, <2>3 DEF ServedInv, WaitingAreConnected, Connected
  <2>5. ASSUME NEW i \in 1 .. Len(backlog'), clientState'[backlog'[i]] = "waiting"
        PROVE  i \in 1 .. Len(backlog) /\ backlog'[i] = backlog[i] /\ clientState[backlog[i]] = "waiting"
    <3>1. /\ Len(backlog') = Len(backlog) + 1 /\ backlog'[Len(backlog) + 1] = c
          /\ \A j \in 1 .. Len(backlog) : backlog'[j] = backlog[j]
      BY <1>3, <2>1, AppendProperties
    <3>2. i # Len(backlog) + 1
      BY <1>3, <2>1, <2>5, <3>1
    <3>3. i \in 1 .. Len(backlog) /\ backlog'[i] = backlog[i]
      BY <1>3, <3>1, <3>2
    <3>4. backlog[i] \in Client /\ clientState'[c] = "connected"
      BY <1>3, <2>1, <3>3, ElementOfSeq
    <3> QED
      BY <1>3, <2>1, <2>5, <3>3, <3>4
  <2>6. ASSUME NEW i \in 1 .. Len(backlog'), clientState'[backlog'[i]] = "waiting"
        PROVE  waited'[backlog'[i]] + Left(ToAccept, i)' <= Span(Cardinality(Client))
    <3>1. i \in 1 .. Len(backlog) /\ backlog'[i] = backlog[i] /\ clientState[backlog[i]] = "waiting"
      BY <2>5, <2>6
    <3>2. i \in Nat \ {0}
      BY <1>3, <3>1
    <3> QED
      BY <1>4, <2>1, <3>1, <3>2 DEF ServedInv, InTime
  <2>7. InTime'
    BY <1>1, <1>5, <2>1, <2>6 DEF ServedInv, InTime, Patient
  <2> QED
    BY <1>2, <2>4, <2>7 DEF ServedInv
<1>7. CASE SendRequest(c)
  <2>1. /\ clientState[c] = "connected" /\ clientState' = [clientState EXCEPT ![c] = "waiting"]
        /\ Connected(c) /\ unread' = unread \cup {c} /\ UNCHANGED <<backlog, answers, waited>>
        /\ waited[c] = 0
    BY <1>7 DEF SendRequest, ConnectionInv, PeersOpen
  <2>2. WaitingAreConnected'
    BY <1>1, <1>3, <2>1 DEF ServedInv, WaitingAreConnected, Connected
  <2>3. ASSUME NEW i \in 1 .. Len(backlog), clientState'[backlog[i]] = "waiting"
        PROVE  waited[backlog[i]] + Left(ToAccept, i) <= Span(Cardinality(Client))
    <3>1. backlog[i] \in Client /\ i \in Nat \ {0}
      BY <1>3, ElementOfSeq
    <3>2. CASE clientState[backlog[i]] = "waiting"
      BY <3>2 DEF ServedInv, InTime
    <3>3. CASE clientState[backlog[i]] # "waiting"
      <4>1. waited[backlog[i]] = 0
        BY <3>1, <3>3 DEF ConnectionInv, PeersOpen
      <4>2. Len(backlog) <= Cardinality(Client)
        BY <1>3, BacklogFits DEF Patience, DaemonInv, OneAnswerInv, ConnectionsDistinct
      <4>3. Span(i) <= Span(Cardinality(Client))
        BY <1>3, <3>1, <4>2, SpanMonotonic, SpanOfAll
      <4>4. Left(ToAccept, i) \in Nat /\ Left(ToAccept, i) <= Span(i) /\ Span(i) \in Nat
        BY <3>1, LeftBound, SpanNext DEF DaemonInv
      <4> QED
        BY <4>1, <4>3, <4>4, SpanOfAll
    <3> QED
      BY <3>2, <3>3
  <2>4. InTime'
    BY <1>1, <1>3, <1>4, <1>5, <2>1, <2>3 DEF ServedInv, InTime, Patient
  <2> QED
    BY <1>2, <2>2, <2>4 DEF ServedInv
<1>8. ASSUME NEW how \in {"answered", "failed"}, Ends(c, how),
             UNCHANGED <<backlog, unread, answers>>,
             ~Connected(c) \/ c \notin unread \cup consumed
      PROVE  ServedInv'
  <2>1. /\ \A d \in Client \ {c} : clientState'[d] = clientState[d] /\ waited'[d] = waited[d]
        /\ clientState'[c] = how /\ waited'[c] = 0
    BY <1>3, <1>8 DEF Ends
  <2>2. WaitingAreConnected'
    BY <1>1, <1>8, <2>1 DEF ServedInv, WaitingAreConnected, Connected
  <2>3. \A i \in 1 .. Len(backlog) : backlog[i] \in Client
    BY <1>3, ElementOfSeq
  <2>4. \A i \in 1 .. Len(backlog) : clientState'[backlog[i]] = "waiting" => backlog[i] # c
    BY <2>1
  <2>5. InTime'
    BY <1>1, <1>4, <1>5, <1>8, <2>1, <2>3, <2>4, SpanOfAll DEF ServedInv, InTime, Patient
  <2> QED
    BY <1>2, <2>2, <2>5 DEF ServedInv
<1>9. CASE ConnectFails(c) \/ SendRequestFails(c) \/ ReceiveAnswer(c) \/ GetLocalMacsFails(c)
           \/ ReceiveFails(c) \/ TimeOut(c) \/ Interrupt(c)
  <2>1. ~TimeOut(c)
    <3> SUFFICES ASSUME TimeOut(c) PROVE FALSE
      OBVIOUS
    <3>1. Connected(c) /\ clientState[c] = "waiting" /\ waited[c] >= CliWait
      BY DEF TimeOut, WaitIsOver, ServedInv, WaitingAreConnected
    <3>2. waited[c] < CliWait
      BY <3>1, ConnectedArePatient
    <3> QED
      BY <1>3, <3>1, <3>2, CliAssumption
  <2>2. ~Connected(c) \/ c \notin unread \cup consumed
    BY <1>9, <2>1, ConnectedUnsent, CliAssumption
       DEF ConnectFails, SendRequestFails, ReceiveAnswer, GetLocalMacsFails, ReceiveFails,
       Interrupt, Patience, DaemonInv, OneAnswerInv, AnsweredHaveLeft, IdleAreUnconnected
  <2> QED
    BY <1>8, <1>9, <2>1, <2>2 DEF ConnectFails, SendRequestFails, ReceiveAnswer,
           GetLocalMacsFails, ReceiveFails, Interrupt
<1>10. CASE RunAgain(c)
  <2>1. /\ ~Connected(c) /\ clientState' = [clientState EXCEPT ![c] = "idle"]
        /\ unread' = unread \ {c} /\ answers' = [answers EXCEPT ![c] = <<>>]
        /\ UNCHANGED <<backlog, waited>>
    BY <1>10 DEF RunAgain
  <2>2. WaitingAreConnected'
    BY <1>1, <1>3, <2>1 DEF ServedInv, WaitingAreConnected, Connected
  <2>3. \A i \in 1 .. Len(backlog) : backlog[i] \in Client
    BY <1>3, ElementOfSeq
  <2>4. InTime'
    BY <1>1, <1>3, <1>4, <1>5, <2>1, <2>3 DEF ServedInv, InTime, Patient
  <2> QED
    BY <1>2, <2>2, <2>4 DEF ServedInv
<1> QED
  BY <1>6, <1>7, <1>9, <1>10 DEF ClientStep

(* When time passes no program that waits is held, and what is queued      *)
(* comes nearer: the daemon sleeps.                                        *)
LEMMA ServedTick ==
    ASSUME Patience, ServingInv, TypeOK', Tick
    PROVE  ServedInv'
<1> USE DEF ServingInv
<1>1. UNCHANGED <<kernelVars, connectionVars, pc, consumed, clientState>>
  BY DEF Tick
<1>2. /\ Up' # {} /\ pc' # "terminated" /\ (Running' => sockets' = Socket)
      /\ WaitingAreConnected'
  BY <1>1 DEF ServedInv, Up, Running, WaitingAreConnected, Connected, kernelVars, connectionVars
<1>3. /\ backlog \in Seq(Client) /\ Len(backlog) \in Nat /\ waited \in [Client -> Nat]
      /\ \A i \in 1 .. Len(backlog) : backlog[i] \in Client /\ i \in Nat \ {0}
      /\ UNCHANGED Span(Cardinality(Client))
  BY CliAssumption, LenProperties, ElementOfSeq
     DEF DaemonInv, TypeOK, TypeOKClient, TypeOKLocalHost, Span
<1>4. \A c \in Client : waited'[c] \in Nat /\ waited'[c] <= waited[c] + 1
                        /\ (clientState[c] # "waiting" => waited'[c] = waited[c])
  BY <1>3, CliAssumption DEF Tick, Advance
<1>5. CASE pc = "sleep" /\ elapsed < IterationPeriod
  <2>1. clientSocket \notin Client
    BY <1>5, LocalHostAssumption DEF ConnectionInv, HeldWasRead, BeforeLoop, Between
  <2>2. elapsed' = elapsed + 1 /\ pc' = "sleep"
    BY <1>1, <1>5, DaemonAssumption
       DEF Tick, Advance, Running, ElapsedCap, DaemonInv, TypeOK, TypeOKDaemon
  <2>3. ASSUME NEW i \in 1 .. Len(backlog), clientState[backlog[i]] = "waiting"
        PROVE  waited'[backlog[i]] + Left(ToAccept, i)' <= Span(Cardinality(Client))
    <3>1. Left(ToAccept, i)' + 1 = Left(ToAccept, i)
      BY <1>3, <1>5, <2>2, LeftPasses DEF ToAccept, DaemonInv
    <3>2. Left(ToAccept, i) \in Nat /\ Left(ToAccept, i)' \in Nat
      BY <1>3, LeftBound, LeftPrimed DEF DaemonInv
    <3>3. waited[backlog[i]] + Left(ToAccept, i) <= Span(Cardinality(Client))
      BY <2>3 DEF ServedInv, InTime
    <3>4. waited[backlog[i]] \in Nat /\ waited'[backlog[i]] \in Nat
          /\ waited'[backlog[i]] <= waited[backlog[i]] + 1
      BY <1>3, <1>4
    <3> QED
      BY <3>1, <3>2, <3>3, <3>4, SpanOfAll
  <2> QED
    BY <1>1, <1>2, <1>3, <2>1, <2>3 DEF ServedInv, InTime, connectionVars
<1>6. CASE backlog = <<>> /\ (clientSocket \in Client => clientState[clientSocket] # "waiting")
  <2>1. \A c \in Client : c = clientSocket => waited'[c] = waited[c]
    BY <1>4, <1>6
  <2>2. Len(backlog') = 0 /\ clientSocket' = clientSocket
    BY <1>1, <1>6 DEF connectionVars
  <2> QED
    BY <1>2, <1>3, <2>1, <2>2 DEF ServedInv, InTime, Patient
<1>7. CASE pc = "test" /\ LoopAgain /\ NothingArrived
  <2>1. Listening
    BY <1>7 DEF ServedInv, Running, Listening, Socket
  <2> QED
    BY <1>6, <1>7, <2>1, HeldIsRequested DEF LoopAgain, NothingArrived
<1>8. CASE ~Running
  BY <1>6, <1>8, LocalHostAssumption DEF ConnectionInv, StoppedIsEmpty
<1> QED
  BY <1>5, <1>7, <1>8, WaitsOutsideTheRead DEF Patience

LEMMA ServedNext == Patience /\ ServingInv /\ [Next]_vars => ServingInv'
<1> SUFFICES ASSUME Patience, ServingInv, [Next]_vars PROVE ServingInv'
  OBVIOUS
<1>1. DaemonInv' /\ ConnectionInv' /\ HearingInv' /\ TypeOK'
  BY DaemonNext, ConnectionNext, HearingNext DEF ServingInv, DaemonInv
<1>2. CASE (Start \/ Kill \/ DaemonStep) /\ UNCHANGED <<clientVars, environmentVars>>
  BY <1>1, <1>2, ServedDaemon DEF ServingInv
<1>3. CASE (\E c \in Client : ClientStep(c)) /\ UNCHANGED <<daemonVars, environmentVars>>
  BY <1>1, <1>3, ServedClient DEF ServingInv
<1>4. CASE Tick
  BY <1>1, <1>4, ServedTick DEF ServingInv
<1>5. CASE LinkStep \/ UNCHANGED vars \/ \E h \in Host : Announce(h) \/ Depart(h)
  <2>1. /\ UNCHANGED <<connectionVars, clientVars, sockets, pc, elapsed, consumed>>
    BY <1>5 DEF LinkStep, Announce, Depart, vars, kernelVars, daemonVars
  <2>2. Up' # {}
    BY UpNext DEF ServingInv, ServedInv, DaemonInv, Patience
  <2>3. WaitingAreConnected' /\ pc' # "terminated" /\ (Running' => sockets' = Socket)
    BY <2>1 DEF ServingInv, ServedInv, WaitingAreConnected, Connected, Running, connectionVars,
                clientVars
  <2>4. \A k \in Nat \ {0} : Left(ToAccept, k)' = Left(ToAccept, k)
    BY <2>1 DEF Left, Span
  <2>5. \A i \in 1 .. Len(backlog) : i \in Nat \ {0}
    BY LenProperties DEF ServingInv, DaemonInv, TypeOK, TypeOKLocalHost
  <2>6. InTime'
    BY <2>1, <2>4, <2>5 DEF ServingInv, ServedInv, InTime, Patient, Span, connectionVars,
           clientVars
  <2> QED
    BY <1>1, <2>2, <2>3, <2>6 DEF ServingInv, ServedInv
<1> QED
  BY <1>2, <1>3, <1>4, <1>5 DEF Next

(* A daemon whose programs have Patience answers each of them before it    *)
(* gives up (the timeout loop of CppCliNeighborRequestor.cpp against the   *)
(* sleep of Process::run).                                                 *)
THEOREM ClientsAreServed ==
    ASSUME Patience
    PROVE  SafetySpec => []NoClientTimesOut
<1>1. Init => ServingInv
  BY DaemonInit, ConnectionInit, HearingInit, ServedInit DEF ServingInv
<1>2. ServingInv /\ [Next]_vars => ServingInv'
  BY ServedNext
<1>3. ServingInv => NoClientTimesOut
  <2> SUFFICES ASSUME ServingInv, NEW c \in Client, clientState[c] = "waiting",
                      waited[c] >= CliWait, answers[c] = <<>>
               PROVE  FALSE
    BY DEF NoClientTimesOut
  <2>1. Connected(c)
    BY DEF ServingInv, ServedInv, WaitingAreConnected
  <2>2. waited[c] < CliWait /\ waited[c] \in Nat /\ CliWait \in Nat
    BY <2>1, ConnectedArePatient, CliAssumption DEF ServingInv, DaemonInv, TypeOK, TypeOKClient
  <2> QED
    BY <2>2
<1> QED
  BY <1>1, <1>2, <1>3, PTL DEF SafetySpec

(* Such programs do not end the daemon, for no write finds its program     *)
(* gone, and nothing else inside it does while what it receives was sent   *)
(* by daemons, whole or cut, and its sockets and getifaddrs work.          *)
THEOREM DaemonKeepsRunning ==
    ASSUME Patience
    PROVE  SafetySpec => []OnlyExternalExit
<1>1. Init => ServingInv
  BY DaemonInit, ConnectionInit, HearingInit, ServedInit DEF ServingInv
<1>2. ServingInv /\ [Next]_vars => ServingInv'
  BY ServedNext
<1>3. ServingInv => OnlyExternalExit
  BY DEF ServingInv, ServedInv, OnlyExternalExit
<1> QED
  BY <1>1, <1>2, <1>3, PTL DEF SafetySpec

-----------------------------------------------------------------------------
(* Hosts that are silent.                                                  *)

(* A hardware address is that of one machine.                              *)
MacsDistinct ==
    /\ \A h \in Host : Macs(Announcement[h].nifs) \cap OwnMacs = {}
    /\ \A g, h \in Host : g # h => Macs(Announcement[g].nifs) \cap Macs(Announcement[h].nifs) = {}

(* Programs that are not stopped, and a daemon that reads its queues in    *)
(* every iteration.                                                        *)
Attentive == Stalling = {} /\ OneStaysUp /\ IPv6Everywhere /\ MacsDistinct

(* The daemon has read the interfaces of this iteration; where this        *)
(* iteration has yet to read a datagram of each family.                    *)
Iterating == Diffing \cup Diffed
ToReceive(f) ==
    (BeforeLoop \ {"sleep"}) \cup IF f = "IPv6" THEN {"receiveIPv6"}
                                               ELSE {"receiveIPv6", "receiveIPv4"}

(* Both families can be used in every iteration.                           *)
AttentiveInv ==
    /\ Up # {}
    /\ pc \in Iterating => nifs # {} /\ \A nif \in nifs : nif.ips \cap Subnet6 # {}
    /\ pc # "sleep" => elapsed <= SendingPeriod

(* How long a host has been silent when the daemon still has something of  *)
(* it: in a queue, in the map of this iteration, in the table.             *)
MacsOf(h) == Macs(Announcement[h].nifs)

QueuedAreRecent ==
    \A f \in Family : Sender(f) \in sockets =>
        \A k \in 1 .. Len(rx[f]) : \A h \in Host : Macs(rx[f][k].nifs) \cap MacsOf(h) # {} =>
            silence[h] + Left(ToReceive(f), k) <= Span(RxCapacity)

ReceivedAreRecent ==
    \A nif \in receivedNifs : \A h \in Host : nif.mac \in MacsOf(h) =>
        silence[h] <= Span(RxCapacity) + elapsed

EntriesAreRecent ==
    \A e \in neighbors : \A h \in Host : e.index \in MacsOf(h) =>
        /\ e.age <= ActivityPeriod => silence[h] <= Span(RxCapacity) + SendingPeriod + e.age
        /\ pc = "answer" => e.age <= ActivityPeriod

RecentInv == QueuedAreRecent /\ ReceivedAreRecent /\ EntriesAreRecent

LEMMA AttentiveInit == Attentive /\ Init => AttentiveInv
<1> SUFFICES ASSUME Attentive, Init PROVE AttentiveInv
  OBVIOUS
<1>1. IfName # {} /\ pc = "off" /\ elapsed = 0 /\ Up # {}
  BY DEF Init, InitDaemon, Attentive, OneStaysUp, Up
<1> QED
  BY <1>1, DaemonAssumption DEF AttentiveInv, Iterating, Diffing, Diffed

LEMMA RecentInit == Init => RecentInv
BY DEF Init, InitDaemon, RecentInv, QueuedAreRecent, ReceivedAreRecent, EntriesAreRecent,
       TS!EmptySet

LEMMA AttentiveNext ==
    ASSUME Attentive, DaemonInv, DaemonInv', ConnectionInv, Addressed, AttentiveInv, [Next]_vars
    PROVE  AttentiveInv'
<1>1. TypeOK /\ TypeOK' /\ elapsed \in Nat /\ elapsed' \in Nat
  BY DaemonAssumption DEF DaemonInv, TypeOK, TypeOKDaemon, ElapsedCap
<1>2. Up' # {}
  BY <1>1, UpNext DEF Attentive, AttentiveInv
<1>3. ASSUME pc' \in Iterating
      PROVE  nifs' # {} /\ \A nif \in nifs' : nif.ips \cap Subnet6 # {}
  <2>1. CASE FoundInterfaces
    <3>1. nifs' = GetInterfaces /\ nifs' # {}
      BY <2>1 DEF FoundInterfaces
    <3> QED
      BY <3>1 DEF GetInterfaces, Up, Addressed
  <2>2. CASE ~FoundInterfaces
    <3>1. nifs' = nifs /\ pc \in Iterating
      <4>1. CASE Kill \/ GetInterfacesFails \/ ReceiveFromNull \/ ReceiveThrows
                 \/ AnswerGoneClient
        BY <1>3, <4>1 DEF Kill, GetInterfacesFails, ReceiveFromNull, ReceiveThrows,
               AnswerGoneClient, Exit, Iterating, Diffing, Diffed
      <4>2. CASE Start \/ WakeUp \/ NoInterfaces \/ Answer \/ NothingToAnswer
        BY <1>3, <4>2 DEF Start, WakeUp, NoInterfaces, Answer, NothingToAnswer, Finish,
               Iterating, Diffing, Diffed, Between
      <4>3. CASE \/ DisableDone \/ EnableDone \/ SendIPv6 \/ SendIPv4 \/ ReceiveIPv6 \/ ReceiveIPv4
                 \/ Accept \/ NoClientWaiting \/ ReadRequest \/ ReadEndOfFile
                 \/ ReceiveAgain \/ ReceiveDone \/ Handle
                 \/ \E nif \in todo : Disable(nif) \/ Enable(nif)
        BY <4>3 DEF Disable, Enable, DisableDone, EnableDone, SendIPv6, SendIPv4, ReceiveIPv6,
                    ReceiveIPv4, Accept, NoClientWaiting, ReadRequest, ReadEndOfFile,
                    ReceiveAgain, ReceiveDone, Handle, Iterating, Diffing, Diffed, Between, PC
      <4>4. CASE UNCHANGED <<pc, nifs>>
        BY <1>3, <4>4
      <4> QED
        BY <2>2, <4>1, <4>2, <4>3, <4>4
           DEF Next, DaemonStep, LinkStep, Announce, Depart, Tick, vars, daemonVars
    <3> QED
      BY <3>1 DEF AttentiveInv
  <2> QED
    BY <2>1, <2>2
<1>4. ASSUME pc' # "sleep"
      PROVE  elapsed' <= SendingPeriod
  <2>1. CASE Tick
    <3>1. CASE pc = "test" /\ LoopAgain
      BY <1>1, <2>1, <3>1, DaemonAssumption DEF Tick, Advance, LoopAgain, ElapsedCap
    <3>2. CASE ~Running
      BY <2>1, <3>2 DEF Tick, AttentiveInv, Running
    <3> QED
      BY <1>4, <2>1, <3>1, <3>2, WaitsOutsideTheRead DEF Tick, Attentive
  <2>2. CASE elapsed' = 0
    BY <2>2, DaemonAssumption
  <2>3. CASE elapsed' = elapsed /\ pc # "sleep"
    BY <2>3 DEF AttentiveInv
  <2>4. CASE elapsed' = elapsed /\ pc' = pc
    BY <1>4, <2>4 DEF AttentiveInv
  <2>5. CASE Start \/ Kill \/ DaemonStep
    <3>1. CASE Kill \/ GetInterfacesFails \/ ReceiveFromNull \/ ReceiveThrows
               \/ AnswerGoneClient \/ WakeUp
      BY <2>2, <3>1 DEF Kill, GetInterfacesFails, ReceiveFromNull, ReceiveThrows,
             AnswerGoneClient, Exit, WakeUp
    <3>2. CASE \/ Start \/ NoInterfaces \/ FoundInterfaces
               \/ DisableDone \/ EnableDone \/ SendIPv6 \/ SendIPv4 \/ ReceiveIPv6 \/ ReceiveIPv4
               \/ Accept \/ NoClientWaiting \/ ReadRequest \/ ReadEndOfFile
               \/ ReceiveAgain \/ ReceiveDone \/ Handle \/ Answer \/ NothingToAnswer
               \/ \E nif \in todo : Disable(nif) \/ Enable(nif)
      BY <2>3, <3>2
         DEF Start, NoInterfaces, FoundInterfaces, Disable, Enable, DisableDone, EnableDone,
             SendIPv6, SendIPv4, ReceiveIPv6, ReceiveIPv4, Accept, NoClientWaiting,
             ReadRequest, ReadEndOfFile, ReceiveAgain, ReceiveDone, Handle, Answer,
             NothingToAnswer, Finish, Running
    <3> QED
      BY <2>5, <3>1, <3>2 DEF DaemonStep
  <2> QED
    BY <2>1, <2>4, <2>5 DEF Next, LinkStep, Announce, Depart, vars, daemonVars
<1> QED
  BY <1>2, <1>3, <1>4 DEF AttentiveInv

(* What RecentInv is kept with.                                            *)
AttendingInv == DaemonInv /\ ConnectionInv /\ Addressed /\ HearingInv /\ AttentiveInv

(* An iteration that reads interfaces uses both families.                  *)
LEMMA FamiliesUsed ==
    ASSUME AttendingInv, pc \in Iterating, NEW f \in Family
    PROVE  CanUse(f)
BY DEF AttendingInv, AttentiveInv, CanUse, canUseIPv6, canUseIPv4

(* A step in which no time passes and no datagram is taken from a queue    *)
(* keeps what is in it recent.                                             *)
LEMMA QueuedKept ==
    ASSUME TypeOK, TypeOK', QueuedAreRecent, NEW f \in Family, Sender(f) \in sockets,
           NEW k \in 1 .. Len(rx[f]), NEW h \in Host, Macs(rx[f][k].nifs) \cap MacsOf(h) # {},
           silence'[h] <= silence[h],
           \/ pc \in ToReceive(f) \cup {"sleep"} => pc' \in ToReceive(f)
           \/ UNCHANGED <<pc, elapsed>>
    PROVE  silence'[h] + Left(ToReceive(f), k)' <= Span(RxCapacity)
<1>1. k \in Nat \ {0} /\ Span(RxCapacity) \in Nat
  <2>1. rx[f] \in Seq(Message)
    BY DEF TypeOK, TypeOKLocalHost
  <2>2. Len(rx[f]) \in Nat
    BY <2>1, LenProperties
  <2>3. RxCapacity \in Nat /\ Span(RxCapacity) \in Nat
    BY LocalHostAssumption, SpanNext
  <2> QED
    BY <2>2, <2>3
<1>2. silence[h] \in Nat /\ silence'[h] \in Nat
  BY SystemAssumption DEF TypeOK
<1>3. Left(ToReceive(f), k)' <= Left(ToReceive(f), k)
  <2>1. CASE pc \in ToReceive(f) \cup {"sleep"} => pc' \in ToReceive(f)
    BY <1>1, <2>1, LeftKept DEF ToReceive, BeforeLoop, Between, Diffing
  <2>2. CASE UNCHANGED <<pc, elapsed>>
    <3>1. Left(ToReceive(f), k)' = Left(ToReceive(f), k)
      BY <2>2 DEF Left, Span, ToReceive, BeforeLoop, Between, Diffing
    <3>2. Left(ToReceive(f), k) \in Nat
      BY <1>1, LeftBound
    <3> QED
      BY <3>1, <3>2
  <2> QED
    BY <2>1, <2>2
<1>4. Left(ToReceive(f), k) \in Nat /\ Left(ToReceive(f), k)' \in Nat
  BY <1>1, LeftBound, LeftPrimed
<1> QED
  BY <1>1, <1>2, <1>3, <1>4 DEF QueuedAreRecent

(* A datagram that is queued waits for those before it.                    *)
LEMMA QueuedArrived ==
    ASSUME TypeOK', NEW f \in Family, NEW k \in Nat \ {0}, k <= RxCapacity,
           NEW h \in Host, silence'[h] = 0
    PROVE  silence'[h] + Left(ToReceive(f), k)' <= Span(RxCapacity)
<1>1. Left(ToReceive(f), k)' \in Nat /\ Left(ToReceive(f), k)' <= Span(k)
  BY LeftPrimed
<1>2. Span(k) <= Span(RxCapacity) /\ Span(k) \in Nat /\ Span(RxCapacity) \in Nat
  BY LocalHostAssumption, SpanMonotonic, SpanNext
<1> QED
  BY <1>1, <1>2

LEMMA QueuedNext ==
    ASSUME Attentive, AttendingInv, TypeOK', QueuedAreRecent, [Next]_vars
    PROVE  QueuedAreRecent'
<1> USE DEF AttendingInv, DaemonInv
<1> SUFFICES ASSUME NEW f \in Family, Sender(f) \in sockets', NEW k \in 1 .. Len(rx'[f]),
                    NEW h \in Host, Macs(rx'[f][k].nifs) \cap MacsOf(h) # {}
             PROVE  silence'[h] + Left(ToReceive(f), k)' <= Span(RxCapacity)
  BY DEF QueuedAreRecent, MacsOf, Macs, ToReceive, BeforeLoop, Between, Diffing, Sender, Span
<1>1. /\ rx \in [Family -> Seq(Message)] /\ silence[h] \in Nat /\ silence'[h] \in Nat
      /\ nifs \in SUBSET NetInterface /\ Announcement \in [Host -> Message]
      /\ rx' \in [Family -> Seq(Message)]
  <2>1. rx \in [Family -> Seq(Message)] /\ rx' \in [Family -> Seq(Message)]
    BY DEF TypeOK, TypeOKLocalHost
  <2>2. silence \in [Host -> 0 .. SilenceCap] /\ silence' \in [Host -> 0 .. SilenceCap]
    BY DEF TypeOK
  <2>3. nifs \in SUBSET NetInterface
    BY DEF TypeOK, TypeOKDaemon
  <2> QED
    BY <2>1, <2>2, <2>3, SystemAssumption
<1>2. k \in Nat \ {0} /\ Span(RxCapacity) \in Nat /\ RxCapacity \in Nat
  <2>1. RxCapacity \in Nat /\ Span(RxCapacity) \in Nat
    BY LocalHostAssumption, SpanNext
  <2>2. rx'[f] \in Seq(Message)
    BY <1>1
  <2> HIDE DEF AttendingInv, DaemonInv
  <2> QED
    BY <2>1, <2>2
<1>3. rx'[f] # <<>>
  BY <1>1
<1>4. ASSUME rx'[f] = rx[f], sockets' = sockets, silence' = silence,
             \/ pc \in ToReceive(f) \cup {"sleep"} => pc' \in ToReceive(f)
             \/ UNCHANGED <<pc, elapsed>>
      PROVE  silence'[h] + Left(ToReceive(f), k)' <= Span(RxCapacity)
  BY <1>1, <1>4, QueuedKept
<1>5. CASE Kill \/ GetInterfacesFails \/ ReceiveFromNull \/ ReceiveThrows
           \/ AnswerGoneClient
  BY <1>5 DEF Kill, GetInterfacesFails, ReceiveFromNull, ReceiveThrows, AnswerGoneClient, Exit
<1>6. CASE rx' = rx /\ ~Running
  BY <1>3, <1>6 DEF HearingInv
<1>7. CASE Start
  BY <1>6, <1>7 DEF Start
<1>8. CASE /\ silence' = silence
           /\ \/ WakeUp \/ FoundInterfaces \/ DisableDone \/ EnableDone
              \/ Accept \/ NoClientWaiting \/ ReadRequest \/ ReadEndOfFile
              \/ ReceiveAgain \/ ReceiveDone \/ Handle \/ Answer \/ NothingToAnswer
              \/ \E nif \in todo : Disable(nif) \/ Enable(nif)
  <2>1. rx' = rx /\ sockets' = sockets
    BY <1>8 DEF WakeUp, FoundInterfaces, Disable, Enable, DisableDone, EnableDone, Accept,
                NoClientWaiting, ReadRequest, ReadEndOfFile, ReceiveAgain, ReceiveDone, Handle,
                Answer, NothingToAnswer, Finish, kernelVars
  <2>2. pc \in ToReceive(f) \cup {"sleep"} => pc' \in ToReceive(f)
    BY <1>8 DEF WakeUp, FoundInterfaces, Disable, Enable, DisableDone, EnableDone, Accept,
                NoClientWaiting, ReadRequest, ReadEndOfFile, ReceiveAgain, ReceiveDone, Handle,
                Answer, NothingToAnswer, Finish, ToReceive, BeforeLoop, Between, Diffing
  <2> QED
    BY <1>4, <1>8, <2>1, <2>2
<1>9. CASE silence' = silence /\ (SendIPv6 \/ SendIPv4)
  <2>1. sockets' = sockets /\ silence' = silence
    BY <1>9 DEF SendIPv6, SendIPv4
  <2>2. pc \in ToReceive(f) \cup {"sleep"} => pc' \in ToReceive(f)
    BY <1>9 DEF SendIPv6, SendIPv4, ToReceive, BeforeLoop, Between, Diffing
  <2>3. CASE rx'[f] = rx[f]
    BY <1>4, <2>1, <2>2, <2>3
  <2>4. ASSUME NEW copies \in Nat,
               rx'[f] = Enqueue(rx[f], [result |-> "ok", nifs |-> nifs], copies)
        PROVE  silence'[h] + Left(ToReceive(f), k)' <= Span(RxCapacity)
    <3> DEFINE own == [result |-> "ok", nifs |-> nifs]
    <3>1. /\ own \in Message /\ Macs(own.nifs) \cap MacsOf(h) = {}
          /\ rx'[f] = Enqueue(rx[f], own, copies)
      BY <1>1, <2>4 DEF Message, Attentive, MacsDistinct, MacsOf, HearingInv
    <3> HIDE DEF own
    <3>2. k \in 1 .. Len(rx[f]) /\ rx'[f][k] = rx[f][k]
      <4>1. rx'[f][k] # own
        BY <3>1
      <4>2. rx[f] \in Seq(Message)
        BY <1>1
      <4> QED
        BY <3>1, <4>1, <4>2, EnqueuedLast
    <3> QED
      BY <1>1, <2>1, <2>2, <3>2, QueuedKept
  <2> QED
    BY <1>9, <2>3, <2>4, SendsEnqueue
<1>10. ASSUME NEW g \in Host, Announce(g)
       PROVE  silence'[h] + Left(ToReceive(f), k)' <= Span(RxCapacity)
  <2>1. UNCHANGED <<pc, elapsed, sockets>> /\ silence' = [silence EXCEPT ![g] = 0]
    BY <1>10 DEF Announce, daemonVars
  <2>2. silence'[h] <= silence[h] /\ silence'[g] = 0
    BY <1>1, <2>1 DEF TypeOK
  <2>3. CASE rx'[f] = rx[f]
    BY <1>1, <2>1, <2>2, <2>3, QueuedKept
  <2>4. ASSUME NEW copies \in Nat, rx'[f] = Enqueue(rx[f], Announcement[g], copies)
        PROVE  silence'[h] + Left(ToReceive(f), k)' <= Span(RxCapacity)
    <3>1. CASE k \in 1 .. Len(rx[f]) /\ rx'[f][k] = rx[f][k]
      BY <1>1, <2>1, <2>2, <3>1, QueuedKept
    <3>2. CASE k <= RxCapacity /\ rx'[f][k] = Announcement[g]
      <4>1. g = h
        BY <3>2 DEF Attentive, MacsDistinct, MacsOf
      <4> QED
        BY <1>2, <2>2, <3>2, <4>1, QueuedArrived
    <3>3. /\ rx[f] \in Seq(Message) /\ Announcement[g] \in Message
          /\ k \in 1 .. Len(Enqueue(rx[f], Announcement[g], copies))
      BY <1>1, <2>4
    <3>4. \/ k \in 1 .. Len(rx[f]) /\ rx'[f][k] = rx[f][k]
          \/ k <= RxCapacity /\ rx'[f][k] = Announcement[g]
      BY <2>4, <3>3, EnqueuedLast
    <3> QED
      BY <3>1, <3>2, <3>4
  <2> QED
    BY <1>10, <2>3, <2>4, AnnounceEnqueues
<1>11. CASE silence' = silence /\ (ReceiveIPv6 \/ ReceiveIPv4)
  <2>1. sockets' = sockets /\ silence' = silence /\ pc \in Iterating
    BY <1>11 DEF ReceiveIPv6, ReceiveIPv4, Iterating, Diffing, Diffed, Between, PC
  <2>2. CASE pc # ReceiveAt(f)
    <3>1. rx'[f] = rx[f] /\ (pc \in ToReceive(f) \cup {"sleep"} => pc' \in ToReceive(f))
      BY <1>1, <1>11, <2>2
         DEF ReceiveIPv6, ReceiveIPv4, Receive, ReceiveAt, Family, ToReceive, BeforeLoop,
             Between, Diffing
    <3> QED
      BY <1>4, <2>1, <3>1
  <2>3. CASE pc = ReceiveAt(f)
    <3>1. Receive(f) /\ pc' \notin ToReceive(f) \cup {"sleep"} /\ pc \in ToReceive(f)
      BY <1>11, <2>3 DEF ReceiveIPv6, ReceiveIPv4, ReceiveAt, Family, ToReceive, BeforeLoop,
                         Between, Diffing
    <3>2. rx[f] # <<>> /\ rx'[f] = Tail(rx[f])
      BY <1>1, <1>3, <2>1, <3>1, FamiliesUsed DEF Receive
    <3>3. k + 1 \in 1 .. Len(rx[f]) /\ rx'[f][k] = rx[f][k + 1] /\ (k + 1) - 1 = k
      BY <1>1, <1>2, <3>2, ReadFirst
    <3>4. Left(ToReceive(f), k + 1) = Span(k)
      BY <3>1, <3>3 DEF Left
    <3>5. Left(ToReceive(f), k)' = Span(k)
      BY <3>1 DEF Left, Span, ToReceive, BeforeLoop, Between, Diffing
    <3> QED
      BY <2>1, <3>3, <3>4, <3>5 DEF QueuedAreRecent
  <2> QED
    BY <2>2, <2>3
<1>12. CASE Tick
  <2>1. UNCHANGED <<rx, sockets, pc>> /\ silence'[h] <= silence[h] + 1
    BY <1>1, <1>12, SystemAssumption DEF Tick, kernelVars, Advance, TypeOK, SilenceBound
  <2>2. CASE pc = "sleep" /\ elapsed < IterationPeriod
    <3>1. elapsed' = elapsed + 1
      BY <1>12, <2>2, DaemonAssumption
         DEF Tick, Advance, Running, ElapsedCap, TypeOK, TypeOKDaemon
    <3>2. "sleep" \notin ToReceive(f)
      BY DEF ToReceive
    <3>3. Left(ToReceive(f), k)' + 1 = Left(ToReceive(f), k)
      BY <1>2, <2>1, <2>2, <3>1, <3>2, LeftPasses DEF ToReceive, BeforeLoop, Between, Diffing
    <3>4. Left(ToReceive(f), k) \in Nat /\ Left(ToReceive(f), k)' \in Nat
      BY <1>2, LeftBound, LeftPrimed
    <3>5. silence[h] + Left(ToReceive(f), k) <= Span(RxCapacity)
      BY <2>1 DEF QueuedAreRecent
    <3> QED
      BY <1>1, <1>2, <2>1, <3>3, <3>4, <3>5
  <2>3. CASE pc = "test" /\ NothingArrived
    <3>1. CanUse(f)
      BY <2>3, FamiliesUsed DEF Iterating, Diffed, Diffing, Between, PC
    <3> QED
      BY <1>3, <2>1, <2>3, <3>1 DEF NothingArrived
  <2> QED
    BY <1>6, <1>12, <2>1, <2>2, <2>3, WaitsOutsideTheRead DEF Attentive
<1>13. CASE (\E c \in Client : ClientStep(c)) /\ UNCHANGED <<daemonVars, environmentVars>>
  BY <1>4, <1>13 DEF ClientStep, Connect, ConnectFails, SendRequest, SendRequestFails,
                     ReceiveAnswer, GetLocalMacsFails, ReceiveFails, TimeOut, Interrupt,
                     RunAgain, kernelVars, daemonVars, environmentVars
<1>14. CASE LinkStep \/ UNCHANGED vars \/ \E g \in Host : Depart(g)
  BY <1>4, <1>14 DEF LinkStep, Depart, vars, kernelVars, daemonVars, environmentVars
<1>15. ~NoInterfaces
  BY DEF NoInterfaces, GetInterfaces, AttentiveInv
<1>16. CASE (Start \/ Kill \/ DaemonStep) /\ UNCHANGED <<clientVars, environmentVars>>
  <2>1. silence' = silence
    BY <1>16 DEF environmentVars
  <2> QED
    BY <1>5, <1>7, <1>8, <1>9, <1>11, <1>15, <1>16, <2>1 DEF DaemonStep
<1> QED
  BY <1>10, <1>12, <1>13, <1>14, <1>16 DEF Next

(* Silence grows by the time that passes, and only then.                   *)
LEMMA SilenceNext ==
    ASSUME TypeOK, TypeOK', [Next]_vars, NEW h \in Host
    PROVE  /\ silence[h] \in Nat /\ silence'[h] \in Nat
           /\ silence'[h] <= silence[h] + 1
           /\ ~Tick => silence'[h] <= silence[h]
<1>1. silence \in [Host -> Nat] /\ silence'[h] \in Nat
  BY SystemAssumption DEF TypeOK
<1>2. CASE Tick
  BY <1>1, <1>2, SystemAssumption DEF Tick, Advance, SilenceBound, TypeOK
<1>3. CASE silence' = silence
  BY <1>1, <1>3
<1>4. ASSUME NEW g \in Host, Announce(g)
      PROVE  silence'[h] <= silence[h]
  BY <1>1, <1>4 DEF Announce
<1> QED
  BY <1>1, <1>2, <1>3, <1>4 DEF Next, LinkStep, Depart, vars, environmentVars

(* What a step may do to the map of received interfaces.                   *)
LEMMA ReceivedNext ==
    ASSUME Attentive, AttendingInv, TypeOK', QueuedAreRecent, ReceivedAreRecent, [Next]_vars
    PROVE  ReceivedAreRecent'
<1> USE DEF AttendingInv, DaemonInv
<1> SUFFICES ASSUME NEW nif \in receivedNifs', NEW h \in Host, nif.mac \in MacsOf(h)
             PROVE  silence'[h] <= Span(RxCapacity) + elapsed'
  BY DEF ReceivedAreRecent, MacsOf, Macs, Span
<1>1. /\ elapsed \in Nat /\ elapsed' \in Nat /\ Span(RxCapacity) \in Nat
      /\ silence[h] \in Nat /\ silence'[h] \in Nat /\ silence'[h] <= silence[h] + 1
      /\ ~Tick => silence'[h] <= silence[h]
  BY DaemonAssumption, LocalHostAssumption, SilenceNext, SpanNext DEF TypeOK, TypeOKDaemon,
         ElapsedCap
<1>2. CASE ~Tick /\ receivedNifs' = receivedNifs /\ elapsed' = elapsed
  BY <1>1, <1>2 DEF ReceivedAreRecent
<1>3. CASE Tick
  <2>1. UNCHANGED receivedNifs /\ pc \in Hearing
    BY <1>3 DEF Tick, HearingInv
  <2>2. pc = "test" /\ elapsed < SendingPeriod
    BY <1>3, <2>1, WaitsOutsideTheRead DEF Attentive, Hearing, Running, LoopAgain
  <2>3. elapsed' = elapsed + 1
    BY <1>1, <1>3, <2>2, DaemonAssumption DEF Tick, Advance, Running, ElapsedCap
  <2> QED
    BY <1>1, <2>1, <2>3 DEF ReceivedAreRecent
<1>4. CASE ~Tick /\ (ReceiveIPv6 \/ ReceiveIPv4)
  <2>1. PICK f \in Family : Receive(f) /\ elapsed' = elapsed
    BY <1>4 DEF ReceiveIPv6, ReceiveIPv4, Family
  <2>2. CASE nif \in receivedNifs
    BY <1>1, <1>4, <2>1, <2>2 DEF ReceivedAreRecent
  <2>3. CASE nif \notin receivedNifs
    <3>1. /\ Sender(f) \in sockets /\ rx[f] # <<>> /\ nif \in Head(rx[f]).nifs
      BY <2>1, <2>3 DEF Receive, LastOfEachMac
    <3>2. rx[f] \in Seq(Message)
      BY DEF TypeOK, TypeOKLocalHost
    <3>3. Head(rx[f]) = rx[f][1] /\ 1 \in 1 .. Len(rx[f]) /\ 1 \in Nat \ {0}
      BY <3>1, <3>2, ReadFirst
    <3>4. Macs(rx[f][1].nifs) \cap MacsOf(h) # {}
      BY <3>1, <3>3 DEF Macs
    <3>5. silence[h] + Left(ToReceive(f), 1) <= Span(RxCapacity)
      BY <3>1, <3>3, <3>4 DEF QueuedAreRecent
    <3>6. Left(ToReceive(f), 1) \in Nat
      BY <3>3, LeftBound
    <3> QED
      BY <1>1, <1>4, <3>5, <3>6
  <2> QED
    BY <2>2, <2>3
<1>5. CASE Handle \/ Kill \/ GetInterfacesFails \/ ReceiveFromNull \/ ReceiveThrows
           \/ AnswerGoneClient
  BY <1>5 DEF Handle, Kill, GetInterfacesFails, ReceiveFromNull, ReceiveThrows,
         AnswerGoneClient, Exit
<1>6. CASE WakeUp
  BY <1>6 DEF WakeUp, HearingInv, Hearing
<1>7. CASE \/ Start \/ NoInterfaces \/ FoundInterfaces \/ DisableDone \/ EnableDone
           \/ SendIPv6 \/ SendIPv4 \/ Accept \/ NoClientWaiting \/ ReadRequest \/ ReadEndOfFile
           \/ ReceiveAgain \/ ReceiveDone \/ Answer \/ NothingToAnswer
           \/ \E one \in todo : Disable(one) \/ Enable(one)
  <2>1. UNCHANGED <<receivedNifs, elapsed>>
    BY <1>7 DEF Start, NoInterfaces, FoundInterfaces, Disable, Enable, DisableDone, EnableDone,
                SendIPv6, SendIPv4, Accept, NoClientWaiting, ReadRequest, ReadEndOfFile,
                ReceiveAgain, ReceiveDone, Answer, NothingToAnswer, Finish
  <2> QED
    BY <1>2, <1>3, <2>1
<1>8. CASE UNCHANGED daemonVars
  BY <1>2, <1>3, <1>8 DEF daemonVars
<1> QED
  BY <1>3, <1>4, <1>5, <1>6, <1>7, <1>8
     DEF Next, DaemonStep, LinkStep, Announce, Depart, vars

LEMMA EntriesNext ==
    ASSUME Attentive, AttendingInv, TypeOK', ReceivedAreRecent, EntriesAreRecent, [Next]_vars
    PROVE  EntriesAreRecent'
<1> USE DEF AttendingInv, DaemonInv
<1> SUFFICES ASSUME NEW e \in neighbors', NEW h \in Host, e.index \in MacsOf(h)
             PROVE  /\ e.age <= ActivityPeriod =>
                          silence'[h] <= Span(RxCapacity) + SendingPeriod + e.age
                    /\ pc' = "answer" => e.age <= ActivityPeriod
  BY DEF EntriesAreRecent, MacsOf, Macs, Span
<1>1. /\ elapsed \in Nat /\ Span(RxCapacity) \in Nat /\ SendingPeriod \in Nat
      /\ ActivityPeriod \in Nat /\ e.age \in Nat
      /\ silence[h] \in Nat /\ silence'[h] \in Nat /\ silence'[h] <= silence[h] + 1
      /\ ~Tick => silence'[h] <= silence[h]
  <2>1. /\ Span(RxCapacity) \in Nat /\ SendingPeriod \in Nat /\ ActivityPeriod \in Nat
    BY DaemonAssumption, LocalHostAssumption, SpanNext
  <2>2. TypeOKDaemon /\ TypeOKDaemon'
    BY DEF TypeOK
  <2>3. elapsed \in Nat
    BY <2>2, DaemonAssumption DEF TypeOKDaemon, ElapsedCap
  <2>4. e.age \in Nat
    BY <2>2, DaemonAssumption DEF TypeOKDaemon, TS!Entry, AgeCap
  <2>5. /\ silence[h] \in Nat /\ silence'[h] \in Nat /\ silence'[h] <= silence[h] + 1
        /\ ~Tick => silence'[h] <= silence[h]
    BY SilenceNext
  <2> QED
    BY <2>1, <2>3, <2>4, <2>5
<1>2. CASE ~Tick /\ neighbors' = neighbors /\ (pc' = "answer" => pc = "answer")
  BY <1>1, <1>2 DEF EntriesAreRecent
<1>3. CASE Tick
  <2>1. pc' # "answer"
    BY <1>3, WaitsOutsideTheRead DEF Attentive, Tick, Running
  <2>2. PICK old \in neighbors : e = [old EXCEPT !.age = IF @ < AgeCap THEN @ + 1 ELSE @]
    BY <1>3 DEF Tick, TS!Aged
  <2>3. old \in TS!Entry(Mac, NetInterface, AgeCap)
    BY DEF TypeOK, TypeOKDaemon
  <2>4. old.age \in Nat /\ e.index = old.index /\ e.age = (IF old.age < AgeCap THEN old.age + 1 ELSE old.age)
        /\ old.age <= AgeCap
    BY <1>1, <2>2, <2>3 DEF TS!Entry, AgeCap
  <2>5. CASE e.age <= ActivityPeriod
    <3>1. e.age = old.age + 1 /\ old.age <= ActivityPeriod
      BY <1>1, <2>4, <2>5 DEF AgeCap
    <3>2. silence[h] <= Span(RxCapacity) + SendingPeriod + old.age
      BY <2>4, <3>1 DEF EntriesAreRecent
    <3> QED
      BY <1>1, <2>1, <2>4, <3>1, <3>2
  <2> QED
    BY <2>1, <2>5
<1>4. CASE ~Tick /\ Handle
  <2>1. ~(e.age > ActivityPeriod)
    BY <1>4 DEF Handle, TS!RemoveOlder
  <2>2. CASE e \in neighbors
    BY <1>1, <1>4, <2>1, <2>2 DEF EntriesAreRecent
  <2>3. CASE e \notin neighbors
    <3>1. PICK nif \in receivedNifs : e.index = nif.mac /\ e.age = 0
      BY <1>4, <2>3 DEF Handle, TS!RemoveOlder, TS!Update
    <3>2. silence[h] <= Span(RxCapacity) + elapsed /\ elapsed <= SendingPeriod
      BY <1>4, <3>1 DEF ReceivedAreRecent, Handle, AttentiveInv
    <3> QED
      BY <1>1, <1>4, <3>1, <3>2
  <2> QED
    BY <2>2, <2>3
<1>5. CASE Kill \/ GetInterfacesFails \/ ReceiveFromNull \/ ReceiveThrows
           \/ AnswerGoneClient
  BY <1>5 DEF Kill, GetInterfacesFails, ReceiveFromNull, ReceiveThrows, AnswerGoneClient,
         Exit, TS!EmptySet
<1>6. CASE \/ Start \/ WakeUp \/ NoInterfaces \/ FoundInterfaces \/ DisableDone \/ EnableDone
           \/ SendIPv6 \/ SendIPv4 \/ ReceiveIPv6 \/ ReceiveIPv4
           \/ Accept \/ NoClientWaiting \/ ReadRequest \/ ReadEndOfFile
           \/ ReceiveAgain \/ ReceiveDone \/ Answer \/ NothingToAnswer
           \/ \E one \in todo : Disable(one) \/ Enable(one)
  <2>1. neighbors' = neighbors /\ (pc' = "answer" => pc = "answer")
    BY <1>6 DEF Start, WakeUp, NoInterfaces, FoundInterfaces, Disable, Enable, DisableDone,
                EnableDone, SendIPv6, SendIPv4, ReceiveIPv6, ReceiveIPv4, Accept,
                NoClientWaiting, ReadRequest, ReadEndOfFile, ReceiveAgain, ReceiveDone, Answer,
                NothingToAnswer, Finish
  <2> QED
    BY <1>2, <1>3, <2>1
<1>7. CASE UNCHANGED daemonVars
  BY <1>2, <1>3, <1>7 DEF daemonVars
<1> QED
  BY <1>3, <1>4, <1>5, <1>6, <1>7 DEF Next, DaemonStep, LinkStep, Announce, Depart, vars

(* An interface that stays up with an IPv6 address, programs that are not  *)
(* stopped between their connect and their send: the table never holds a   *)
(* host that has been silent for longer than the three waits of            *)
(* ForgetAfter, whatever is killed and whichever sockets are missing       *)
(* (runIteration's receive loop and NetworkNeighborDiscoverer.cpp's        *)
(* removal of the neighbors older than NEIGHBOR_ACTIVITY_PERIOD_SECONDS).  *)
THEOREM SilentForgotten ==
    ASSUME Attentive
    PROVE  SafetySpec => []SilentHostsForgotten
<1>1. Init => AttendingInv /\ RecentInv
  BY DaemonInit, ConnectionInit, AddressedInit, HearingInit, AttentiveInit, RecentInit
     DEF AttendingInv, Attentive
<1>2. AttendingInv /\ RecentInv /\ [Next]_vars => AttendingInv' /\ RecentInv'
  <2> SUFFICES ASSUME AttendingInv, RecentInv, [Next]_vars PROVE AttendingInv' /\ RecentInv'
    OBVIOUS
  <2>1. DaemonInv' /\ ConnectionInv' /\ HearingInv' /\ TypeOK'
    BY DaemonNext, ConnectionNext, HearingNext DEF AttendingInv, DaemonInv
  <2>2. Addressed'
    BY AddressedNext DEF AttendingInv, DaemonInv, Attentive
  <2>3. AttentiveInv'
    BY <2>1, AttentiveNext DEF AttendingInv
  <2>4. RecentInv'
    BY <2>1, QueuedNext, ReceivedNext, EntriesNext DEF RecentInv
  <2> QED
    BY <2>1, <2>2, <2>3, <2>4 DEF AttendingInv
<1>3. AttendingInv /\ RecentInv => SilentHostsForgotten
  <2> SUFFICES ASSUME AttendingInv, RecentInv, pc = "answer", NEW h \in Host,
                      silence[h] > ForgetAfter, NEW e \in NeighborsOf(h)
               PROVE  FALSE
    BY DEF SilentHostsForgotten
  <2>1. e \in neighbors /\ e.index \in MacsOf(h)
    BY DEF NeighborsOf, MacsOf
  <2>2. e.age <= ActivityPeriod /\ silence[h] <= Span(RxCapacity) + SendingPeriod + e.age
    BY <2>1 DEF RecentInv, EntriesAreRecent
  <2>3. /\ e.age \in Nat /\ silence[h] \in Nat /\ ActivityPeriod \in Nat /\ SendingPeriod \in Nat
        /\ Span(RxCapacity) \in Nat
    BY <2>1, DaemonAssumption, LocalHostAssumption, SystemAssumption, SpanNext
       DEF AttendingInv, DaemonInv, TypeOK, TypeOKDaemon, TS!Entry, AgeCap
  <2>4. ForgetAfter = Span(RxCapacity) + SendingPeriod + ActivityPeriod
    BY DEF ForgetAfter, Span
  <2> QED
    BY <2>2, <2>3, <2>4
<1> QED
  BY <1>1, <1>2, <1>3, PTL DEF SafetySpec

-----------------------------------------------------------------------------
(* Hosts that are heard.                                                   *)

(* Interfaces that do not change, no kill, hosts whose interfaces are told *)
(* apart by their hardware addresses (the map of an iteration and the      *)
(* table are keyed by them), and a silence that is counted far enough.     *)
Audible ==
    /\ LinksFixed /\ "kill" \notin Faults /\ MacsDistinct
    /\ \A h \in Host :
          /\ \A a, b \in Announcement[h].nifs : a.mac = b.mac => a = b
          /\ Announcement[h].result # "ok" => Announcement[h].nifs = {}
    /\ SilenceCap > ActivityPeriod

InLocalSubnet(nif) == \E ip \in nif.ips : \E local \in GetInterfaces : ip \in local.ips

(* What was last announced is in a queue, in the map of this iteration, or *)
(* in the table, no older than the silence of its host.                    *)
Queued(h) == \E f \in Family : \E k \in 1 .. Len(rx[f]) : rx[f][k] = Announcement[h]
Tabled(h, nif) == \E e \in neighbors : e.index = nif.mac /\ e.age <= silence[h]

HeardInv ==
    \A h \in Host : silence[h] <= ActivityPeriod =>
        \A nif \in Announcement[h].nifs :
            /\ Running
            /\ InLocalSubnet(nif) => Queued(h) \/ nif \in receivedNifs \/ Tabled(h, nif)

LEMMA HeardInit == Audible /\ Init => HeardInv
<1> SUFFICES ASSUME Audible, Init, NEW h \in Host, silence[h] <= ActivityPeriod
             PROVE  Announcement[h].nifs = {}
  BY DEF HeardInv
<1>1. silence[h] = SilenceBound(h)
  BY DEF Init
<1>2. CASE Announcement[h].result = "ok"
  BY <1>1, <1>2, SystemAssumption, DaemonAssumption DEF SilenceBound, Audible
<1> QED
  BY <1>2 DEF Audible

(* A datagram leaves a queue when it is received.                          *)
LEMMA QueuedUntilReceived ==
    ASSUME Audible, TypeOK, TypeOK', [Next]_vars, Running', NEW h \in Host, Queued(h),
           NEW nif \in Announcement[h].nifs
    PROVE  Queued(h)' \/ nif \in receivedNifs'
<1>0. PICK f \in Family : \E k \in 1 .. Len(rx[f]) : rx[f][k] = Announcement[h]
  BY DEF Queued
<1>1. PICK k \in 1 .. Len(rx[f]) : rx[f][k] = Announcement[h]
  BY <1>0
<1>2. /\ rx[f] \in Seq(Message) /\ Announcement[h] \in Message
      /\ [result |-> "ok", nifs |-> nifs] \in Message
      /\ \A g \in Host : Announcement[g] \in Message
  BY SystemAssumption DEF TypeOK, TypeOKLocalHost, TypeOKDaemon, Message
<1>3. ASSUME NEW m \in Message, NEW copies \in Nat, rx'[f] = Enqueue(rx[f], m, copies)
      PROVE  Queued(h)'
  BY <1>1, <1>2, <1>3, EnqueuedLast DEF Queued
<1>4. ASSUME Receive(f), rx[f] # <<>>, rx'[f] = Tail(rx[f])
      PROVE  Queued(h)' \/ nif \in receivedNifs'
  <2>1. CASE k # 1
    <3>1. k - 1 \in 1 .. Len(rx'[f]) /\ rx'[f][k - 1] = Announcement[h]
      BY <1>1, <1>2, <1>4, <2>1, ReadFirst
    <3> QED
      BY <3>1 DEF Queued
  <2>2. CASE k = 1
    <3>1. Head(rx[f]) = Announcement[h] /\ Announcement[h].result = "ok"
      BY <1>1, <1>2, <1>4, <2>2, ReadFirst DEF Audible
    <3>2. Tail(rx[f]) # rx[f]
      <4>1. Len(Tail(rx[f])) = Len(rx[f]) - 1 /\ Len(rx[f]) \in Nat
        BY <1>2, <1>4, HeadTailProperties, LenProperties
      <4>2. Len(Tail(rx[f])) # Len(rx[f])
        BY <4>1
      <4> QED
        BY <4>2, Zenon
    <3>3. PICK kept \in LastOfEachMac(Announcement[h].nifs) :
             receivedNifs' = {r \in receivedNifs : r.mac \notin Macs(kept)} \cup kept
      BY <1>4, <3>1, <3>2 DEF Receive
    <3>4. nif \in kept
      <4>1. kept \subseteq Announcement[h].nifs /\ Macs(kept) = Macs(Announcement[h].nifs)
        BY <3>3 DEF LastOfEachMac
      <4>2. PICK one \in kept : one.mac = nif.mac
        BY <4>1 DEF Macs
      <4> QED
        BY <4>1, <4>2 DEF Audible
    <3> QED
      BY <3>3, <3>4
  <2> QED
    BY <2>1, <2>2
<1>5. CASE rx'[f] = rx[f]
  BY <1>1, <1>5 DEF Queued
<1> QED
  BY <1>2, <1>3, <1>4, <1>5, RxNext

(* An interface that was received stays in the map until the table is      *)
(* updated with it.                                                        *)
LEMMA ReceivedUntilTabled ==
    ASSUME Audible, TypeOK, TypeOK', HearingInv, MatchInv, [Next]_vars, Running', NEW h \in Host,
           NEW nif \in Announcement[h].nifs, InLocalSubnet(nif), nif \in receivedNifs
    PROVE  nif \in receivedNifs' \/ Tabled(h, nif)'
<1>1. CASE ReceiveIPv6 \/ ReceiveIPv4
  <2>1. PICK f \in Family : Receive(f)
    BY <1>1 DEF ReceiveIPv6, ReceiveIPv4, Family
  <2>2. CASE UNCHANGED receivedNifs
    BY <2>2
  <2>3. CASE ~UNCHANGED receivedNifs
    <3>1. /\ rx[f] # <<>> /\ Head(rx[f]).result = "ok"
          /\ \E kept \in LastOfEachMac(Head(rx[f]).nifs) :
                receivedNifs' = {r \in receivedNifs : r.mac \notin Macs(kept)} \cup kept
      BY <2>1, <2>3 DEF Receive
    <3>2. PICK kept \in LastOfEachMac(Head(rx[f]).nifs) :
             receivedNifs' = {r \in receivedNifs : r.mac \notin Macs(kept)} \cup kept
      BY <3>1
    <3>3. Macs(kept) = Macs(Head(rx[f]).nifs) /\ kept \subseteq Head(rx[f]).nifs
      BY <3>2 DEF LastOfEachMac
    <3>4. Known(Head(rx[f]))
      <4>1. rx[f] \in Seq(Message)
        BY DEF TypeOK, TypeOKLocalHost
      <4> QED
        BY <3>1, <4>1, ReadFirst DEF HearingInv
    <3>5. nif.mac \in Macs(Announcement[h].nifs)
      BY DEF Macs
    <3>6. CASE Macs(Head(rx[f]).nifs) \subseteq OwnMacs
      BY <3>2, <3>3, <3>5, <3>6 DEF Audible, MacsDistinct
    <3>7. ASSUME NEW g \in Host, Head(rx[f]) = Announcement[g]
          PROVE  nif \in receivedNifs'
      <4>1. CASE g # h
        BY <3>2, <3>3, <3>5, <3>7, <4>1 DEF Audible, MacsDistinct
      <4>2. CASE g = h
        <5>1. nif \in kept
          BY <3>3, <3>7, <4>2 DEF Macs, Audible
        <5> QED
          BY <3>2, <5>1
      <4> QED
        BY <4>1, <4>2
    <3> QED
      BY <3>4, <3>6, <3>7 DEF Known
  <2> QED
    BY <2>2, <2>3
<1>2. CASE Handle
  <2> DEFINE updates == {<<r.mac, [r EXCEPT !.ips = Matched(r)]>> :
                            r \in {q \in receivedNifs : Matched(q) # {}}}
             new == [index |-> nif.mac, data |-> [nif EXCEPT !.ips = Matched(nif)], age |-> 0]
  <2>1. neighbors' = TS!RemoveOlder(TS!Update(neighbors, updates), ActivityPeriod)
    BY <1>2 DEF Handle
  <2>2. Matched(nif) # {}
    BY <1>2 DEF Matched, InLocalSubnet, MatchInv, Handle, Diffed, Diffing, Between, PC
  <2>3. <<nif.mac, [nif EXCEPT !.ips = Matched(nif)]>> \in updates
    BY <2>2
  <2> HIDE DEF updates
  <2> DEFINE pair == <<nif.mac, [nif EXCEPT !.ips = Matched(nif)]>>
  <2>4. new \in TS!Update(neighbors, updates)
    <3>1. new = [index |-> pair[1], data |-> pair[2], age |-> 0] /\ pair \in updates
      BY <2>3
    <3> HIDE DEF new, pair
    <3> QED
      BY <3>1 DEF TS!Update
  <2>5. new \in neighbors'
    BY <2>1, <2>4, DaemonAssumption DEF TS!RemoveOlder
  <2>6. silence'[h] \in Nat
    BY SystemAssumption DEF TypeOK
  <2> QED
    BY <2>5, <2>6 DEF Tabled
<1>3. CASE Kill \/ GetInterfacesFails \/ ReceiveFromNull \/ ReceiveThrows
           \/ AnswerGoneClient
  BY <1>3 DEF Kill, GetInterfacesFails, ReceiveFromNull, ReceiveThrows, AnswerGoneClient,
         Exit, Running
<1>4. CASE \/ Start \/ WakeUp \/ NoInterfaces \/ FoundInterfaces \/ DisableDone \/ EnableDone
           \/ SendIPv6 \/ SendIPv4 \/ Accept \/ NoClientWaiting \/ ReadRequest \/ ReadEndOfFile
           \/ ReceiveAgain \/ ReceiveDone \/ Answer \/ NothingToAnswer
           \/ \E one \in todo : Disable(one) \/ Enable(one)
  BY <1>4 DEF Start, WakeUp, NoInterfaces, FoundInterfaces, Disable, Enable, DisableDone,
              EnableDone, SendIPv6, SendIPv4, Accept, NoClientWaiting, ReadRequest,
              ReadEndOfFile, ReceiveAgain, ReceiveDone, Answer, NothingToAnswer, Finish
<1>5. CASE UNCHANGED receivedNifs
  BY <1>5
<1> QED
  BY <1>1, <1>2, <1>3, <1>4, <1>5
     DEF Next, DaemonStep, LinkStep, Announce, Depart, Tick, vars, daemonVars

(* An entry is not older than the silence of its host.                     *)
LEMMA TabledNext ==
    ASSUME Audible, TypeOK, TypeOK', [Next]_vars, Running', NEW h \in Host, ~Announce(h),
           silence'[h] <= ActivityPeriod,
           NEW nif \in Announcement[h].nifs, Tabled(h, nif)
    PROVE  Tabled(h, nif)'
<1>1. PICK e \in neighbors : e.index = nif.mac /\ e.age <= silence[h]
  BY DEF Tabled
<1>2. /\ e \in TS!Entry(Mac, NetInterface, AgeCap) /\ e.age \in Nat
      /\ silence[h] \in Nat /\ silence'[h] \in Nat /\ ActivityPeriod \in Nat
  BY DaemonAssumption, SystemAssumption DEF TypeOK, TypeOKDaemon, TS!Entry, AgeCap
<1>3. CASE neighbors' = neighbors /\ silence'[h] = silence[h]
  BY <1>1, <1>3 DEF Tabled
<1>4. CASE Tick
  <2> DEFINE older == [e EXCEPT !.age = IF @ < AgeCap THEN @ + 1 ELSE @]
  <2>0. older \in neighbors'
    BY <1>4 DEF Tick, TS!Aged
  <2>1. older.index = e.index /\ older.age = IF e.age < AgeCap THEN e.age + 1 ELSE e.age
    BY <1>2 DEF TS!Entry
  <2> HIDE DEF older
  <2>2. silence'[h] = Advance(silence[h], SilenceBound(h)) /\ Announcement[h].result = "ok"
    BY <1>4 DEF Tick, Audible
  <2>3. silence'[h] = silence[h] + 1
    BY <1>2, <2>2, SystemAssumption DEF Advance, SilenceBound, Audible
  <2>4. older.age <= silence'[h]
    BY <1>1, <1>2, <2>1, <2>3
  <2> QED
    BY <1>1, <2>0, <2>1, <2>4 DEF Tabled
<1>5. CASE Handle /\ silence'[h] = silence[h]
  <2> DEFINE updates == {<<r.mac, [r EXCEPT !.ips = Matched(r)]>> :
                            r \in {q \in receivedNifs : Matched(q) # {}}}
  <2>1. neighbors' = TS!RemoveOlder(TS!Update(neighbors, updates), ActivityPeriod)
    BY <1>5 DEF Handle
  <2> HIDE DEF updates
  <2>2. \E new \in TS!Update(neighbors, updates) : new.index = nif.mac /\ new.age \in {e.age, 0}
    <3>1. CASE \A p \in updates : p[1] # e.index
      <4>1. e \in TS!Update(neighbors, updates)
        BY <3>1 DEF TS!Update
      <4> QED
        BY <1>1, <4>1
    <3>2. ASSUME NEW p \in updates, p[1] = e.index
          PROVE  \E new \in TS!Update(neighbors, updates) : new.index = nif.mac /\ new.age \in {e.age, 0}
      <4>1. [index |-> p[1], data |-> p[2], age |-> 0] \in TS!Update(neighbors, updates)
        BY DEF TS!Update
      <4> QED
        BY <1>1, <3>2, <4>1
    <3> QED
      BY <3>1, <3>2
  <2>3. PICK new \in TS!Update(neighbors, updates) : new.index = nif.mac /\ new.age \in {e.age, 0}
    BY <2>2
  <2>4. new.age \in Nat /\ new.age <= silence'[h] /\ ~(new.age > ActivityPeriod)
    BY <1>1, <1>2, <1>5, <2>3
  <2>5. new \in neighbors'
    BY <2>1, <2>4 DEF TS!RemoveOlder
  <2> QED
    BY <2>3, <2>4, <2>5 DEF Tabled
<1>6. CASE Kill \/ GetInterfacesFails \/ ReceiveFromNull \/ ReceiveThrows
           \/ AnswerGoneClient
  BY <1>6 DEF Kill, GetInterfacesFails, ReceiveFromNull, ReceiveThrows, AnswerGoneClient,
         Exit, Running
<1>7. ASSUME \/ Start \/ WakeUp \/ NoInterfaces \/ FoundInterfaces \/ DisableDone \/ EnableDone
             \/ SendIPv6 \/ SendIPv4 \/ ReceiveIPv6 \/ ReceiveIPv4
             \/ Accept \/ NoClientWaiting \/ ReadRequest \/ ReadEndOfFile
             \/ ReceiveAgain \/ ReceiveDone \/ Answer \/ NothingToAnswer
             \/ \E one \in todo : Disable(one) \/ Enable(one)
      PROVE  neighbors' = neighbors
  BY <1>7 DEF Start, WakeUp, NoInterfaces, FoundInterfaces, Disable, Enable, DisableDone,
              EnableDone, SendIPv6, SendIPv4, ReceiveIPv6, ReceiveIPv4, Accept,
              NoClientWaiting, ReadRequest, ReadEndOfFile, ReceiveAgain, ReceiveDone, Answer,
              NothingToAnswer, Finish
<1>8. CASE (Start \/ Kill \/ DaemonStep) /\ UNCHANGED <<clientVars, environmentVars>>
  <2>1. silence' = silence
    BY <1>8 DEF environmentVars
  <2> QED
    BY <1>3, <1>5, <1>6, <1>7, <1>8, <2>1 DEF DaemonStep
<1>9. ASSUME NEW g \in Host, Announce(g)
      PROVE  neighbors' = neighbors /\ silence'[h] = silence[h]
  <2>1. g # h
    BY <1>9
  <2> QED
    BY <1>9, <2>1 DEF Announce, daemonVars, TypeOK
<1> QED
  BY <1>3, <1>4, <1>8, <1>9
     DEF Next, LinkStep, Depart, vars, daemonVars, environmentVars

LEMMA HeardNext ==
    ASSUME Audible, TypeOK, TypeOK', HearingInv, MatchInv, HeardInv, pc' # "terminated", [Next]_vars
    PROVE  HeardInv'
<1> SUFFICES ASSUME NEW h \in Host, silence'[h] <= ActivityPeriod, NEW nif \in Announcement[h].nifs
             PROVE  /\ Running'
                    /\ InLocalSubnet(nif)' => Queued(h)' \/ nif \in receivedNifs' \/ Tabled(h, nif)'
  BY DEF HeardInv
<1>1. InLocalSubnet(nif)' = InLocalSubnet(nif)
  <2>1. ~LinkStep
    BY DEF LinkStep, SetDown, SetUp, Readdress, Unplug, Plug, Audible, LinksFixed
  <2> QED
    BY <2>1, LinkKept DEF InLocalSubnet, GetInterfaces, Up
<1>2. silence[h] \in Nat /\ silence'[h] \in Nat /\ ActivityPeriod \in Nat /\ Announcement[h].result = "ok"
  BY DaemonAssumption, SystemAssumption DEF TypeOK, Audible
<1>3. CASE Announce(h)
  <2>0. PICK reached \in (SUBSET {f \in Family : /\ Arrives(f, IfNameToIndex(HostLink[h]))
                                                 /\ Len(rx[f]) < RxCapacity}) \ {{}} :
           \E copies \in [reached -> 1 .. HostTargets[h]] :
              rx' = [f \in Family |->
                       IF f \in reached THEN Enqueue(rx[f], Announcement[h], copies[f])
                                        ELSE rx[f]]
    BY <1>3 DEF Announce
  <2>1. PICK f \in reached : /\ f \in Family /\ Len(rx[f]) < RxCapacity
                             /\ Arrives(f, IfNameToIndex(HostLink[h]))
    BY <2>0
  <2>2. Running'
    BY <1>3, <2>1 DEF Announce, Arrives, HearingInv, daemonVars, Running
  <2>3. PICK copies \in [reached -> 1 .. HostTargets[h]] :
           rx'[f] = Enqueue(rx[f], Announcement[h], copies[f])
    BY <2>0, <2>1
  <2>4. \E k \in 1 .. Len(rx'[f]) : rx'[f][k] = Announcement[h]
    <3>1. HostTargets[h] \in Nat /\ Announcement[h] \in Message /\ rx[f] \in Seq(Message)
      BY <2>1, SystemAssumption DEF TypeOK, TypeOKLocalHost
    <3>2. copies[f] \in Nat /\ copies[f] > 0
      BY <2>1, <2>3, <3>1
    <3> QED
      BY <2>1, <2>3, <3>1, <3>2, EnqueuedLast
  <2> QED
    BY <2>1, <2>2, <2>4 DEF Queued
<1>4. CASE ~Announce(h)
  <2>1. silence[h] <= ActivityPeriod
    <3>1. CASE Tick
      BY <1>2, <3>1, SystemAssumption DEF Tick, Advance, SilenceBound, Audible
    <3>2. CASE silence' = silence
      BY <3>2
    <3>3. ASSUME NEW g \in Host, Announce(g)
          PROVE  silence'[h] = silence[h]
      <4>1. g # h
        BY <1>4, <3>3
      <4> QED
        BY <3>3, <4>1 DEF Announce, TypeOK
    <3> QED
      BY <3>1, <3>2, <3>3 DEF Next, LinkStep, Depart, vars, environmentVars
  <2>2. Running
    BY <2>1 DEF HeardInv
  <2>3. Running'
    <3>1. pc' # "off"
      BY <2>2 DEF Audible, Next, DaemonStep, Kill, Exit, Start, WakeUp, GetInterfacesFails,
         NoInterfaces, FoundInterfaces, Disable, Enable, DisableDone, EnableDone, SendIPv6,
         SendIPv4, ReceiveIPv6, ReceiveIPv4, ReceiveFromNull, ReceiveThrows, Accept,
         NoClientWaiting,
         ReadRequest, ReadEndOfFile, ReceiveAgain, ReceiveDone, Handle, Answer,
         AnswerGoneClient, NothingToAnswer, Finish, LinkStep, Announce, Depart, Tick, vars,
         daemonVars, Running
    <3> QED
      BY <3>1 DEF Running
  <2>4. ASSUME InLocalSubnet(nif)
        PROVE  Queued(h)' \/ nif \in receivedNifs' \/ Tabled(h, nif)'
    <3>1. Queued(h) \/ nif \in receivedNifs \/ Tabled(h, nif)
      BY <2>1, <2>4 DEF HeardInv
    <3> QED
      BY <1>4, <2>3, <2>4, <3>1, QueuedUntilReceived, ReceivedUntilTabled, TabledNext
  <2> QED
    BY <1>1, <2>3, <2>4
<1> QED
  BY <1>3, <1>4

(* A host that announces itself is in the table at every answer that finds *)
(* the queues read, as long as nothing ends the daemon: no datagram is     *)
(* dropped between recvfrom, receivedNifs and IndexedTimedSet::update.     *)
THEOREM HeardWhileRunning ==
    ASSUME Audible
    PROVE  SafetySpec /\ []OnlyExternalExit => []HeardHostsKept
<1> DEFINE Inv == HearingInv /\ MatchInv /\ HeardInv
<1>1. Init => Inv
  <2>1. Init => MatchInv
    BY DEF Init, InitDaemon, MatchInv, Diffing, Diffed, TS!EmptySet
  <2> QED
    BY <2>1, HearingInit, HeardInit
<1>2. TypeOK /\ TypeOK' /\ Inv /\ OnlyExternalExit' /\ [Next]_vars => Inv'
  BY HearingNext, MatchNext, HeardNext DEF OnlyExternalExit, Audible
<1>3. TypeOK /\ Inv => HeardHostsKept
  <2> SUFFICES ASSUME TypeOK, Inv, pc = "answer", \A f \in Family : rx[f] = <<>>, NEW h \in Host,
                      silence[h] <= ActivityPeriod, NEW nif \in Announcement[h].nifs,
                      Matched(nif) # {}
               PROVE  \E e \in neighbors : e.index = nif.mac
    BY DEF HeardHostsKept
  <2>1. InLocalSubnet(nif)
    BY DEF Matched, InLocalSubnet, MatchInv, Diffed, Diffing, Between, PC
  <2>2. ~Queued(h)
    BY DEF Queued
  <2>3. nif \notin receivedNifs
    BY DEF HearingInv, Hearing
  <2>4. Tabled(h, nif)
    BY <2>1, <2>2, <2>3 DEF HeardInv
  <2> QED
    BY <2>4 DEF Tabled
<1> HIDE DEF Inv
<1> QED
  BY <1>1, <1>2, <1>3, TypeCorrect, PTL DEF SafetySpec

(* With programs that have Patience, and datagrams that deserialize or are *)
(* reported not to, nothing ends the daemon.                               *)
THEOREM HeardKept ==
    ASSUME Audible, Patience
    PROVE  SafetySpec => []HeardHostsKept
<1>1. SafetySpec => []OnlyExternalExit
  BY DaemonKeepsRunning
<1>2. SafetySpec /\ []OnlyExternalExit => []HeardHostsKept
  BY HeardWhileRunning
<1> QED
  BY <1>1, <1>2, PTL
=============================================================================
