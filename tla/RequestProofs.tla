---------------------------- MODULE RequestProofs ----------------------------
(***************************************************************************)
(* Theorems about requests, for every value of the constants: a program is *)
(* sent one answer, and only after its request was read; and the daemon    *)
(* and the CLI programs implement NeighborService.                         *)
(***************************************************************************)
EXTENDS NeighborDiscoveryProofs, ServiceRefinement

-----------------------------------------------------------------------------
(* The backlog.                                                            *)

Distinct(queue) == \A i, j \in DOMAIN queue : queue[i] = queue[j] => i = j

(* A connection that is queued joins those that wait, and is there once.   *)
LEMMA QueuedOnce ==
    ASSUME NEW queue \in Seq(Client), Distinct(queue),
           NEW c \in Client, c \notin Range(queue)
    PROVE  /\ Range(Append(queue, c)) = Range(queue) \cup {c}
           /\ Distinct(Append(queue, c))
<1>1. /\ DOMAIN Append(queue, c) = 1 .. Len(queue) + 1
      /\ \A i \in 1 .. Len(queue) : Append(queue, c)[i] = queue[i]
      /\ Append(queue, c)[Len(queue) + 1] = c
      /\ DOMAIN queue = 1 .. Len(queue) /\ Len(queue) \in Nat
  BY AppendProperties
<1>2. Range(Append(queue, c)) = Range(queue) \cup {c}
  BY <1>1 DEF Range
<1>3. \A i \in 1 .. Len(queue) : queue[i] # c
  BY <1>1 DEF Range
<1>4. Distinct(Append(queue, c))
  BY <1>1, <1>3 DEF Distinct
<1> QED
  BY <1>2, <1>4

(* The connection that is accepted leaves the backlog, and only that one.  *)
LEMMA AcceptedOnce ==
    ASSUME NEW queue \in Seq(Client), Distinct(queue), queue # <<>>
    PROVE  /\ Head(queue) \in Range(queue)
           /\ Range(Tail(queue)) = Range(queue) \ {Head(queue)}
           /\ Distinct(Tail(queue))
<1>1. /\ Len(queue) \in Nat /\ Len(queue) >= 1 /\ DOMAIN queue = 1 .. Len(queue)
      /\ Head(queue) = queue[1]
      /\ Len(Tail(queue)) = Len(queue) - 1
      /\ DOMAIN Tail(queue) = 1 .. Len(queue) - 1
      /\ \A i \in 1 .. Len(queue) - 1 : Tail(queue)[i] = queue[i + 1]
  BY HeadTailProperties
<1>2. Head(queue) \in Range(queue)
  BY <1>1 DEF Range
<1>3. ASSUME NEW i \in 1 .. Len(queue) - 1
      PROVE  Tail(queue)[i] \in Range(queue) \ {Head(queue)}
  <2>1. i + 1 \in DOMAIN queue /\ 1 \in DOMAIN queue /\ i + 1 # 1
    BY <1>1
  <2> QED
    BY <1>1, <2>1 DEF Range, Distinct
<1>4. ASSUME NEW i \in DOMAIN queue, queue[i] # Head(queue)
      PROVE  queue[i] \in Range(Tail(queue))
  <2>1. i - 1 \in 1 .. Len(queue) - 1 /\ queue[i] = Tail(queue)[i - 1]
    BY <1>1, <1>4
  <2> QED
    BY <1>1, <2>1 DEF Range
<1>5. Range(Tail(queue)) = Range(queue) \ {Head(queue)}
  BY <1>1, <1>3, <1>4 DEF Range
<1>6. Distinct(Tail(queue))
  <2> SUFFICES ASSUME NEW i \in 1 .. Len(queue) - 1, NEW j \in 1 .. Len(queue) - 1,
                      Tail(queue)[i] = Tail(queue)[j]
               PROVE  i = j
    BY <1>1 DEF Distinct
  <2>1. queue[i + 1] = queue[j + 1] /\ i + 1 \in DOMAIN queue /\ j + 1 \in DOMAIN queue
    BY <1>1
  <2>2. i + 1 = j + 1
    BY <2>1 DEF Distinct
  <2> QED
    BY <2>2
<1> QED
  BY <1>2, <1>5, <1>6

-----------------------------------------------------------------------------
(* The invariant.                                                          *)

(* A program that was sent an answer has left the daemon: it is neither    *)
(* queued nor held, so nothing can be sent to it again.                    *)
AnsweredHaveLeft ==
    \A c \in Client : answers[c] # <<>> =>
        /\ Len(answers[c]) = 1 /\ c \notin unread /\ ~Connected(c)
        /\ clientState[c] \notin {"idle", "connected"}

(* A program that has not connected is not connected.                      *)
IdleAreUnconnected == \A c \in Client : clientState[c] = "idle" => ~Connected(c)

(* Only a program that got past its send has a request to be read.         *)
UnreadWereSent == \A c \in unread : clientState[c] \notin {"idle", "connected"}

(* A connection is in one place only.                                      *)
ConnectionsDistinct == Distinct(backlog) /\ clientSocket \notin Range(backlog)

(* The request in hand was read from the connection in hand.               *)
RequestWasRead ==
    requested =>
        /\ pc \in {"test", "handle", "answer"}
        /\ clientSocket \notin unread
        /\ clientSocket \in Client => clientState[clientSocket] # "connected"

OneAnswerInv ==
    /\ AnsweredHaveLeft /\ IdleAreUnconnected /\ UnreadWereSent
    /\ ConnectionsDistinct /\ RequestWasRead

(* There are no connections when the machine boots.                        *)
LEMMA OneAnswerInit == Init => OneAnswerInv
<1> SUFFICES ASSUME Init PROVE OneAnswerInv
  OBVIOUS
<1>1. Range(<<>>) = {} /\ Distinct(<<>>)
  BY DEF Range, Distinct
<1> QED
  BY <1>1, LocalHostAssumption
     DEF Init, InitDaemon, InitClient, OneAnswerInv, AnsweredHaveLeft, IdleAreUnconnected,
         UnreadWereSent, ConnectionsDistinct, RequestWasRead, Connected

-----------------------------------------------------------------------------
(* The steps.                                                              *)

(* The steps of the daemon that leave the connections alone.               *)
LEMMA OneAnswerControl ==
    ASSUME TypeOK, OneAnswerInv, UNCHANGED <<clientVars, connectionVars>>,
           \/ UNCHANGED requested /\ (requested => pc' \in {"test", "handle", "answer"})
           \/ requested' = FALSE
    PROVE  OneAnswerInv'
  BY DEF OneAnswerInv, AnsweredHaveLeft, IdleAreUnconnected, UnreadWereSent,
         ConnectionsDistinct, RequestWasRead, Connected, clientVars, connectionVars

(* The end of the process: no connection is left.                          *)
LEMMA OneAnswerExit ==
    ASSUME TypeOK, OneAnswerInv, UNCHANGED clientVars, NEW how, Exit(how)
    PROVE  OneAnswerInv'
<1>1. backlog' = <<>> /\ clientSocket' = NoClient /\ requested' = FALSE
  BY DEF Exit
<1>2. Range(<<>>) = {} /\ Distinct(<<>>)
  BY DEF Range, Distinct
<1>3. UNCHANGED <<unread, answers, clientState>>
  BY DEF Exit, clientVars
<1>4. \A c \in Client : ~Connected(c)'
  BY <1>1, <1>2, LocalHostAssumption DEF Connected
<1>5. AnsweredHaveLeft' /\ IdleAreUnconnected' /\ UnreadWereSent'
  BY <1>3, <1>4 DEF OneAnswerInv, AnsweredHaveLeft, IdleAreUnconnected, UnreadWereSent
<1>6. ConnectionsDistinct' /\ RequestWasRead'
  BY <1>1, <1>2 DEF ConnectionsDistinct, RequestWasRead
<1> QED
  BY <1>5, <1>6 DEF OneAnswerInv

(* A connection is accepted: it moves from the backlog to clientSocket.    *)
LEMMA OneAnswerAccept ==
    ASSUME TypeOK, OneAnswerInv, UNCHANGED clientVars, Accept
    PROVE  OneAnswerInv'
<1>1. backlog \in Seq(Client) /\ Distinct(backlog) /\ backlog # <<>>
  BY DEF TypeOK, TypeOKLocalHost, OneAnswerInv, ConnectionsDistinct, Accept
<1>2. /\ clientSocket' \in Range(backlog)
      /\ Range(backlog') = Range(backlog) \ {clientSocket'}
      /\ Distinct(backlog')
  BY <1>1, AcceptedOnce DEF Accept
<1>3. \A c : Connected(c)' => Connected(c)
  BY <1>2 DEF Connected
<1>4. UNCHANGED <<unread, answers, clientState, requested>> /\ ~requested
  BY DEF Accept, clientVars, OneAnswerInv, RequestWasRead
<1>5. AnsweredHaveLeft' /\ IdleAreUnconnected' /\ UnreadWereSent'
  BY <1>3, <1>4 DEF OneAnswerInv, AnsweredHaveLeft, IdleAreUnconnected, UnreadWereSent
<1>6. ConnectionsDistinct' /\ RequestWasRead'
  BY <1>2, <1>4 DEF ConnectionsDistinct, RequestWasRead
<1> QED
  BY <1>5, <1>6 DEF OneAnswerInv

(* A request is read: its program sent it, and it is no longer unread.     *)
LEMMA OneAnswerRead ==
    ASSUME TypeOK, OneAnswerInv, UNCHANGED clientVars, ReadRequest
    PROVE  OneAnswerInv'
<1>1. /\ UNCHANGED <<backlog, clientSocket, answers, clientState>>
      /\ unread' = unread \ {clientSocket} /\ clientSocket \in unread /\ pc' = "test"
  BY DEF ReadRequest, clientVars
<1>2. clientState[clientSocket] # "connected"
  BY <1>1 DEF OneAnswerInv, UnreadWereSent
<1> QED
  BY <1>1, <1>2 DEF OneAnswerInv, AnsweredHaveLeft, IdleAreUnconnected, UnreadWereSent,
                    ConnectionsDistinct, RequestWasRead, Connected

(* The end of the iteration: the connection is closed, and if it was       *)
(* answered, that was the first answer to a program whose request was read.*)
LEMMA OneAnswerFinish ==
    ASSUME TypeOK, OneAnswerInv, UNCHANGED clientVars, Answer \/ NothingToAnswer
    PROVE  OneAnswerInv'
<1>1. /\ UNCHANGED <<backlog, unread, clientState>>
      /\ clientSocket' = NoClient /\ requested' = FALSE
  BY DEF Answer, NothingToAnswer, Finish, LocalsDestroyed, clientVars
<1>2. NoClient \notin Range(backlog)
  BY LocalHostAssumption DEF TypeOK, TypeOKLocalHost, Range
<1>3. \A c \in Client : Connected(c)' => Connected(c) /\ c # clientSocket
  BY <1>1, LocalHostAssumption DEF Connected, OneAnswerInv, ConnectionsDistinct
<1>4. AnsweredHaveLeft'
  <2>1. CASE NothingToAnswer
    <3>1. UNCHANGED answers
      BY <2>1 DEF NothingToAnswer
    <3> QED
      BY <1>1, <1>3, <3>1 DEF OneAnswerInv, AnsweredHaveLeft
  <2>2. CASE Answer
    <3>1. /\ requested /\ clientSocket \in Client
          /\ answers' = [answers EXCEPT ![clientSocket] = Append(@, TS!Data(neighbors))]
      BY <2>2 DEF Answer, Answering, TypeOK, TypeOKLocalHost
    <3>2. /\ answers[clientSocket] = <<>> /\ clientSocket \notin unread
          /\ clientState[clientSocket] \notin {"idle", "connected"}
      BY <3>1 DEF OneAnswerInv, AnsweredHaveLeft, IdleAreUnconnected, RequestWasRead,
                  Connected
    <3>3. Len(answers'[clientSocket]) = 1
      BY <3>1, <3>2 DEF TypeOK, TypeOKLocalHost
    <3>4. \A c \in Client \ {clientSocket} : answers'[c] = answers[c]
      BY <3>1 DEF TypeOK, TypeOKLocalHost
    <3> QED
      BY <1>1, <1>3, <3>1, <3>2, <3>3, <3>4 DEF OneAnswerInv, AnsweredHaveLeft
  <2> QED
    BY <2>1, <2>2
<1>5. IdleAreUnconnected' /\ UnreadWereSent'
  BY <1>1, <1>3 DEF OneAnswerInv, IdleAreUnconnected, UnreadWereSent
<1>6. ConnectionsDistinct' /\ RequestWasRead'
  BY <1>1, <1>2 DEF OneAnswerInv, ConnectionsDistinct, RequestWasRead
<1> QED
  BY <1>4, <1>5, <1>6 DEF OneAnswerInv

(* The steps of the daemon.                                                *)
LEMMA OneAnswerDaemon ==
    ASSUME TypeOK, OneAnswerInv, UNCHANGED clientVars, Start \/ Kill \/ DaemonStep
    PROVE  OneAnswerInv'
<1>1. CASE Kill \/ GetInterfacesFails \/ ReceiveFromNull \/ ReceiveThrows
           \/ AnswerGoneClient
  BY <1>1, OneAnswerExit DEF Kill, GetInterfacesFails, ReceiveFromNull, ReceiveThrows,
         AnswerGoneClient
<1>2. CASE Accept
  BY <1>2, OneAnswerAccept
<1>3. CASE ReadRequest
  BY <1>3, OneAnswerRead
<1>4. CASE Answer \/ NothingToAnswer
  BY <1>4, OneAnswerFinish
<1>5. CASE \/ Start \/ WakeUp \/ NoInterfaces \/ FoundInterfaces \/ DisableDone
           \/ EnableDone \/ SendIPv6 \/ SendIPv4 \/ ReceiveIPv6 \/ ReceiveIPv4
  <2>1. UNCHANGED <<connectionVars, requested>>
    BY <1>5 DEF Start, WakeUp, NoInterfaces, FoundInterfaces, DisableDone, EnableDone,
                SendIPv6, SendIPv4, ReceiveIPv6, ReceiveIPv4
  <2>2. ~requested
    BY <1>5 DEF OneAnswerInv, RequestWasRead, Running, Start, WakeUp, NoInterfaces,
                FoundInterfaces, DisableDone, EnableDone, SendIPv6, SendIPv4,
                ReceiveIPv6, ReceiveIPv4
  <2> QED
    BY <2>1, <2>2, OneAnswerControl
<1>6. CASE \E nif \in todo : Disable(nif) \/ Enable(nif)
  <2>1. UNCHANGED <<connectionVars, requested, pc>>
    BY <1>6 DEF Disable, Enable
  <2> QED
    BY <2>1, OneAnswerControl DEF OneAnswerInv, RequestWasRead
<1>7. CASE NoClientWaiting \/ ReadEndOfFile \/ ReceiveDone \/ Handle
  <2>1. UNCHANGED <<connectionVars, requested>> /\ pc' \in {"test", "handle", "answer"}
    BY <1>7 DEF NoClientWaiting, ReadEndOfFile, ReceiveDone, Handle
  <2> QED
    BY <2>1, OneAnswerControl
<1>8. CASE ReceiveAgain
  <2>1. UNCHANGED <<connectionVars, requested>> /\ ~requested
    BY <1>8 DEF ReceiveAgain, LoopAgain
  <2> QED
    BY <2>1, OneAnswerControl
<1> QED
  BY <1>1, <1>2, <1>3, <1>4, <1>5, <1>6, <1>7, <1>8 DEF DaemonStep

(* A program connects: it was not connected, and has no answer.            *)
LEMMA OneAnswerConnect ==
    ASSUME TypeOK, OneAnswerInv, UNCHANGED daemonVars, NEW c \in Client, Connect(c)
    PROVE  OneAnswerInv'
<1>1. /\ UNCHANGED <<clientSocket, unread, answers, requested, pc>>
      /\ backlog' = Append(backlog, c)
      /\ clientState' = [clientState EXCEPT ![c] = "connected"] /\ clientState[c] = "idle"
  BY DEF Connect, daemonVars
<1>2. ~Connected(c) /\ answers[c] = <<>> /\ c \notin unread
  BY <1>1 DEF OneAnswerInv, AnsweredHaveLeft, IdleAreUnconnected, UnreadWereSent
<1>3. /\ Range(backlog') = Range(backlog) \cup {c}
      /\ Distinct(backlog')
  BY <1>1, <1>2, QueuedOnce
     DEF OneAnswerInv, ConnectionsDistinct, Connected, TypeOK, TypeOKLocalHost
<1>4. \A d \in Client \ {c} : /\ Connected(d)' => Connected(d)
                             /\ clientState'[d] = clientState[d]
  BY <1>1, <1>3 DEF Connected, TypeOK, TypeOKClient
<1>5. clientState'[c] = "connected"
  BY <1>1 DEF TypeOK, TypeOKClient
<1>6. AnsweredHaveLeft' /\ IdleAreUnconnected'
  BY <1>1, <1>2, <1>4, <1>5 DEF OneAnswerInv, AnsweredHaveLeft, IdleAreUnconnected
<1>7. UnreadWereSent'
  BY <1>1, <1>2, <1>4 DEF OneAnswerInv, UnreadWereSent, TypeOK, TypeOKLocalHost
<1>8. ConnectionsDistinct'
  BY <1>1, <1>2, <1>3 DEF OneAnswerInv, ConnectionsDistinct, Connected
<1>9. RequestWasRead'
  BY <1>1, <1>2, <1>4 DEF OneAnswerInv, RequestWasRead, Connected
<1> QED
  BY <1>6, <1>7, <1>8, <1>9 DEF OneAnswerInv

(* A program sends its request, waits or ends.                             *)
LEMMA OneAnswerWait ==
    ASSUME TypeOK, OneAnswerInv, UNCHANGED daemonVars, NEW c \in Client,
           \/ SendRequest(c) \/ ConnectFails(c) \/ SendRequestFails(c)
           \/ ReceiveAnswer(c) \/ GetLocalMacsFails(c) \/ ReceiveFails(c)
           \/ TimeOut(c) \/ Interrupt(c)
    PROVE  OneAnswerInv'
<1>1. UNCHANGED <<backlog, clientSocket, answers, requested, pc>>
  BY DEF SendRequest, ConnectFails, SendRequestFails, ReceiveAnswer, GetLocalMacsFails,
         ReceiveFails, TimeOut, Interrupt, daemonVars
<1>2. /\ \A d \in Client \ {c} : clientState'[d] = clientState[d]
      /\ clientState'[c] \notin {"idle", "connected"}
  BY DEF SendRequest, ConnectFails, SendRequestFails, ReceiveAnswer, GetLocalMacsFails,
         ReceiveFails, TimeOut, Interrupt, Ends, TypeOK, TypeOKClient
<1>3. \/ UNCHANGED unread
      \/ unread' = unread \cup {c}
  BY DEF SendRequest, ConnectFails, SendRequestFails, ReceiveAnswer, GetLocalMacsFails,
         ReceiveFails, TimeOut, Interrupt
<1>4. \A d : Connected(d)' <=> Connected(d)
  BY <1>1 DEF Connected
<1>5. AnsweredHaveLeft' /\ IdleAreUnconnected'
  <2>1. answers[c] # <<>> => UNCHANGED unread
    BY DEF SendRequest, ConnectFails, SendRequestFails, ReceiveAnswer, GetLocalMacsFails,
           ReceiveFails, TimeOut, Interrupt, OneAnswerInv, AnsweredHaveLeft
  <2> QED
    BY <1>1, <1>2, <1>3, <1>4, <2>1 DEF OneAnswerInv, AnsweredHaveLeft, IdleAreUnconnected
<1>6. UnreadWereSent'
  BY <1>2, <1>3 DEF OneAnswerInv, UnreadWereSent, TypeOK, TypeOKLocalHost
<1>7. ConnectionsDistinct'
  BY <1>1 DEF OneAnswerInv, ConnectionsDistinct
<1>8. RequestWasRead'
  <2>1. unread' # unread => clientState[c] = "connected"
    BY DEF SendRequest, ConnectFails, SendRequestFails, ReceiveAnswer, GetLocalMacsFails,
           ReceiveFails, TimeOut, Interrupt
  <2> QED
    BY <1>1, <1>2, <1>3, <2>1 DEF OneAnswerInv, RequestWasRead
<1> QED
  BY <1>5, <1>6, <1>7, <1>8 DEF OneAnswerInv

(* A program is run again: what it had is forgotten.                       *)
LEMMA OneAnswerRunAgain ==
    ASSUME TypeOK, OneAnswerInv, UNCHANGED daemonVars, NEW c \in Client, RunAgain(c)
    PROVE  OneAnswerInv'
<1>1. /\ UNCHANGED <<backlog, clientSocket, requested, pc>>
      /\ ~Connected(c) /\ unread' = unread \ {c}
  BY DEF RunAgain, daemonVars
<1>2. /\ \A d \in Client \ {c} : /\ clientState'[d] = clientState[d]
                                /\ answers'[d] = answers[d]
      /\ answers'[c] = <<>> /\ clientState'[c] = "idle"
  BY DEF RunAgain, TypeOK, TypeOKLocalHost, TypeOKClient
<1>3. \A d : Connected(d)' <=> Connected(d)
  BY <1>1 DEF Connected
<1>4. AnsweredHaveLeft' /\ IdleAreUnconnected'
  BY <1>1, <1>2, <1>3 DEF OneAnswerInv, AnsweredHaveLeft, IdleAreUnconnected
<1>5. UnreadWereSent'
  BY <1>1, <1>2 DEF OneAnswerInv, UnreadWereSent, TypeOK, TypeOKLocalHost
<1>6. ConnectionsDistinct' /\ RequestWasRead'
  BY <1>1, <1>2 DEF OneAnswerInv, ConnectionsDistinct, RequestWasRead
<1> QED
  BY <1>4, <1>5, <1>6 DEF OneAnswerInv

(* Every step of the system keeps the invariant.                           *)
LEMMA OneAnswerNext == TypeOK /\ OneAnswerInv /\ [Next]_vars => OneAnswerInv'
<1> SUFFICES ASSUME TypeOK, OneAnswerInv, [Next]_vars PROVE OneAnswerInv'
  OBVIOUS
<1>1. CASE (Start \/ Kill \/ DaemonStep) /\ UNCHANGED <<clientVars, environmentVars>>
  BY <1>1, OneAnswerDaemon
<1>2. CASE (\E c \in Client : ClientStep(c)) /\ UNCHANGED <<daemonVars, environmentVars>>
  BY <1>2, OneAnswerConnect, OneAnswerWait, OneAnswerRunAgain DEF ClientStep
<1>3. CASE \/ LinkStep \/ Tick \/ UNCHANGED vars
           \/ \E h \in Host : Announce(h) \/ Depart(h)
  <2>1. UNCHANGED <<connectionVars, clientState, requested, pc>>
    BY <1>3 DEF LinkStep, Announce, Depart, Tick, vars, daemonVars, clientVars
  <2> QED
    BY <2>1 DEF OneAnswerInv, AnsweredHaveLeft, IdleAreUnconnected, UnreadWereSent,
                ConnectionsDistinct, RequestWasRead, Connected, connectionVars
<1> QED
  BY <1>1, <1>2, <1>3 DEF Next

(* A program is sent one answer and only after its request was read, for   *)
(* every number of programs that hang up, stop or are interrupted, and     *)
(* every daemon that dies and restarts.                                    *)
THEOREM OneAnswer == SafetySpec => []OneAnswerPerRequest
<1>1. Init => OneAnswerInv
  BY OneAnswerInit
<1>2. TypeOK /\ OneAnswerInv /\ [Next]_vars => OneAnswerInv'
  BY OneAnswerNext
<1>3. OneAnswerInv => OneAnswerPerRequest
  BY DEF OneAnswerInv, AnsweredHaveLeft, OneAnswerPerRequest
<1> QED
  BY <1>1, <1>2, <1>3, TypeCorrect, PTL DEF SafetySpec

-----------------------------------------------------------------------------
(* The invariant the refinement needs beside OneAnswerInv: an open end of  *)
(* a connection belongs to a program that is still running.                *)
PeersRun == \A c \in peerOpen : clientState[c] \in {"connected", "waiting"}

(* The steps of the programs: each that ends a run closes its end.         *)
LEMMA PeersRunClient ==
    ASSUME TypeOK, PeersRun, NEW c \in Client, ClientStep(c)
    PROVE  PeersRun'
<1>1. clientState \in [Client -> ClientState] /\ peerOpen \subseteq Client
  BY DEF TypeOK, TypeOKClient, TypeOKLocalHost
<1>2. ASSUME NEW how, Ends(c, how)
      PROVE  PeersRun'
  BY <1>1, <1>2 DEF Ends, PeersRun
<1>3. CASE Connect(c) \/ SendRequest(c) \/ RunAgain(c)
  BY <1>1, <1>3 DEF Connect, SendRequest, RunAgain, PeersRun
<1> QED
  BY <1>2, <1>3 DEF ClientStep, ConnectFails, SendRequestFails, ReceiveAnswer,
         GetLocalMacsFails, ReceiveFails, TimeOut, Interrupt

(* The steps of everything else: none touches the programs or their ends.  *)
LEMMA PeersRunOthers ==
    ASSUME PeersRun,
           \/ (Start \/ Kill \/ DaemonStep) /\ UNCHANGED <<clientVars, environmentVars>>
           \/ LinkStep \/ Tick \/ UNCHANGED vars
           \/ \E h \in Host : Announce(h) \/ Depart(h)
    PROVE  PeersRun' /\ UNCHANGED clientState
<1>1. CASE (Start \/ Kill \/ DaemonStep) /\ UNCHANGED <<clientVars, environmentVars>>
  <2>1. UNCHANGED <<peerOpen, clientState>>
    BY <1>1 DEF DaemonStep, Start, Kill, Exit, WakeUp, GetInterfacesFails, NoInterfaces,
                FoundInterfaces, Disable, Enable, DisableDone, EnableDone, SendIPv6,
                SendIPv4, ReceiveIPv6, ReceiveIPv4, ReceiveFromNull, ReceiveThrows, Accept,
                NoClientWaiting, ReadRequest, ReadEndOfFile, ReceiveAgain, ReceiveDone,
                Handle, Answer, AnswerGoneClient, NothingToAnswer, Finish,
                connectionVars, clientVars
  <2> QED
    BY <2>1 DEF PeersRun
<1>2. CASE \/ LinkStep \/ Tick \/ UNCHANGED vars
           \/ \E h \in Host : Announce(h) \/ Depart(h)
  <2>1. UNCHANGED <<peerOpen, clientState>>
    BY <1>2 DEF LinkStep, Announce, Depart, Tick, vars, connectionVars, clientVars
  <2> QED
    BY <2>1 DEF PeersRun
<1> QED
  BY <1>1, <1>2

LEMMA PeersRunNext == TypeOK /\ PeersRun /\ [Next]_vars => PeersRun'
BY PeersRunClient, PeersRunOthers DEF Next

-----------------------------------------------------------------------------
(* The initial states map to the initial state of the service.             *)
LEMMA ServiceInit == Init => Service!Init
BY DEF Init, InitDaemon, InitClient, Service!Init, RunOf, TS!EmptySet, TS!Data

(* A step that neither answers nor moves a program is one in which the     *)
(* daemon learns what is in its table.                                     *)
LEMMA LearnStep ==
    ASSUME TypeOK', UNCHANGED <<clientState, answers>>
    PROVE  Service!Next
<1>1. TS!Data(neighbors)' \in SUBSET NetInterface
  BY DEF TypeOK, TypeOKDaemon, TS!Data, TS!Entry
<1> QED
  BY <1>1 DEF Service!Next, Service!Learn

(* Answer is the moment at which the service replies: the program in       *)
(* clientSocket is waiting and has not been answered.                      *)
LEMMA ReplyStep ==
    ASSUME TypeOK, OneAnswerInv, PeersRun, Answer, UNCHANGED clientState
    PROVE  Service!Next
<1>1. PICK c \in Client : c = clientSocket /\ c \in peerOpen
  BY DEF Answer, TypeOK, TypeOKLocalHost
<1>2. clientState[c] = "waiting"
  BY <1>1 DEF Answer, Answering, OneAnswerInv, RequestWasRead, PeersRun
<1>3. answers[c] = <<>>
  BY <1>1 DEF OneAnswerInv, AnsweredHaveLeft, Connected
<1>4. answers' = [answers EXCEPT ![c] = <<TS!Data(neighbors)>>] /\ neighbors' = neighbors
  BY <1>1, <1>3 DEF Answer, Finish
<1> QED
  BY <1>2, <1>3, <1>4 DEF Service!Next, Service!Reply, RunOf

(* The steps of a program are those of its run.                            *)
LEMMA RunStep ==
    ASSUME TypeOK, NEW c \in Client, ClientStep(c), UNCHANGED daemonVars
    PROVE  Service!Next \/ UNCHANGED Service!vars
<1> DEFINE run == [d \in Client |-> RunOf(clientState[d])]
<1>1. /\ clientState \in [Client -> ClientState]
      /\ TS!Data(neighbors)' = TS!Data(neighbors)
  BY DEF TypeOK, TypeOKClient, daemonVars, TS!Data
<1>2. ASSUME NEW state, clientState' = [clientState EXCEPT ![c] = state]
      PROVE  run' = [run EXCEPT ![c] = RunOf(state)]
  BY <1>1, <1>2
<1>3. CASE Connect(c)
  <2>1. run' = run /\ answers' = answers
    BY <1>1, <1>2, <1>3 DEF Connect, RunOf
  <2> QED
    BY <1>1, <2>1 DEF Service!vars
<1>4. CASE SendRequest(c)
  BY <1>1, <1>2, <1>4 DEF SendRequest, RunOf, Service!Next, Service!Ask, Service!Becomes
<1>5. CASE ReceiveAnswer(c)
  BY <1>1, <1>2, <1>5
     DEF ReceiveAnswer, Ends, RunOf, Service!Next, Service!Succeed, Service!Becomes
<1>6. CASE \/ ConnectFails(c) \/ SendRequestFails(c) \/ GetLocalMacsFails(c)
           \/ ReceiveFails(c) \/ TimeOut(c) \/ Interrupt(c)
  <2>1. /\ clientState[c] \in {"idle", "connected", "waiting"}
        /\ Ends(c, "failed") /\ answers' = answers
    BY <1>6, CliAssumption
       DEF ConnectFails, SendRequestFails, GetLocalMacsFails, ReceiveFails, TimeOut, Interrupt
  <2> QED
    BY <1>1, <1>2, <2>1
       DEF Ends, RunOf, Service!Next, Service!Fail, Service!Becomes
<1>7. CASE RunAgain(c)
  BY <1>1, <1>2, <1>7 DEF RunAgain, RunOf, Service!Next, Service!Again, Service!Becomes
<1> QED
  BY <1>3, <1>4, <1>5, <1>6, <1>7 DEF ClientStep

(* Every step of the system is a step of the service or changes nothing    *)
(* the service has.                                                        *)
LEMMA ServiceNext ==
    TypeOK /\ TypeOK' /\ OneAnswerInv /\ PeersRun /\ [Next]_vars
        => [Service!Next]_(Service!vars)
<1> SUFFICES ASSUME TypeOK, TypeOK', OneAnswerInv, PeersRun, [Next]_vars
             PROVE  Service!Next \/ UNCHANGED Service!vars
  OBVIOUS
<1>1. CASE (\E c \in Client : ClientStep(c)) /\ UNCHANGED <<daemonVars, environmentVars>>
  BY <1>1, RunStep
<1>2. CASE \/ (Start \/ Kill \/ DaemonStep) /\ UNCHANGED <<clientVars, environmentVars>>
           \/ LinkStep \/ Tick \/ UNCHANGED vars
           \/ \E h \in Host : Announce(h) \/ Depart(h)
  <2>1. UNCHANGED clientState
    BY <1>2, PeersRunOthers
  <2>2. CASE UNCHANGED answers
    BY <2>1, <2>2, LearnStep
  <2>3. CASE Answer
    BY <2>1, <2>3, ReplyStep
  <2>4. UNCHANGED answers \/ Answer
    BY <1>2 DEF DaemonStep, Start, Kill, Exit, WakeUp, GetInterfacesFails, NoInterfaces,
                FoundInterfaces, Disable, Enable, DisableDone, EnableDone, SendIPv6,
                SendIPv4, ReceiveIPv6, ReceiveIPv4, ReceiveFromNull, ReceiveThrows, Accept,
                NoClientWaiting, ReadRequest, ReadEndOfFile, ReceiveAgain, ReceiveDone,
                Handle, AnswerGoneClient, NothingToAnswer, Finish, connectionVars,
                LinkStep, Announce, Depart, Tick, vars
  <2> QED
    BY <2>2, <2>3, <2>4
<1> QED
  BY <1>1, <1>2 DEF Next

(* What a program prints is what the table held at one moment between its  *)
(* request and its end: the daemon and the programs implement the service, *)
(* for every number of programs and hosts, whatever fails, dies or         *)
(* restarts.                                                               *)
THEOREM ImplementsService == SafetySpec => ServiceImplemented
<1>1. Init => OneAnswerInv /\ PeersRun /\ Service!Init
  <2>1. Init => PeersRun
    BY DEF Init, InitClient, PeersRun
  <2> QED
    BY <2>1, OneAnswerInit, ServiceInit
<1>2. TypeOK /\ OneAnswerInv /\ PeersRun /\ [Next]_vars => (OneAnswerInv /\ PeersRun)'
  BY OneAnswerNext, PeersRunNext
<1>3. TypeOK /\ TypeOK' /\ OneAnswerInv /\ PeersRun /\ [Next]_vars
         => [Service!Next]_(Service!vars)
  BY ServiceNext
<1> QED
  BY <1>1, <1>2, <1>3, TypeCorrect, PTL DEF SafetySpec, ServiceImplemented, Service!Spec
=============================================================================
