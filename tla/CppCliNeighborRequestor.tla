---------------------- MODULE CppCliNeighborRequestor ----------------------
(***************************************************************************)
(* The CLI program (CppCliNeighborRequestor.cpp) over UnixSocket           *)
(* (include/Unix/UnixSocket.{hpp,cpp}).  Each member of Client is one run  *)
(* of the program at a time: it connects, sends the request, polls for the *)
(* answer and exits.                                                       *)
(***************************************************************************)
EXTENDS LocalHost

CONSTANTS
    CliWait,      \* Config::CLI_REQUEST_WAIT_TIME_SECONDS, in ticks
    Interrupts    \* states of the program in which its user may kill it

ASSUME CliAssumption ==
    CliWait \in Nat /\ Interrupts \subseteq {"connected", "waiting"}

VARIABLES
    clientState,  \* where the run of the program is
    waited        \* time since it started to poll

clientVars == <<clientState, waited>>

ClientState == {"idle", "connected", "waiting", "answered", "failed"}

TypeOKClient ==
    /\ clientState \in [Client -> ClientState]
    /\ waited \in [Client -> 0 .. CliWait]

InitClient ==
    /\ clientState = [c \in Client |-> "idle"]
    /\ waited = [c \in Client |-> 0]
    /\ peerOpen = {} /\ unread = {}
    /\ answers = [c \in Client |-> <<>>]

(* The program ends, and its end of the connection is closed.              *)
Ends(c, how) ==
    /\ clientState' = [clientState EXCEPT ![c] = how]
    /\ waited' = [waited EXCEPT ![c] = 0]
    /\ peerOpen' = peerOpen \ {c}

(* clientFactory: connect succeeds as soon as the connection is queued.    *)
Connect(c) ==
    /\ clientState[c] = "idle" /\ Listening
    /\ clientState' = [clientState EXCEPT ![c] = "connected"]
    /\ backlog' = Append(backlog, c)
    /\ peerOpen' = peerOpen \cup {c}
    /\ UNCHANGED <<kernelVars, clientSocket, unread, answers, waited>>

ConnectFails(c) ==
    /\ clientState[c] = "idle" /\ ~Listening
    /\ Ends(c, "failed")
    /\ UNCHANGED <<kernelVars, backlog, clientSocket, unread, answers>>

(* send(UNIX_DOMAIN_REQUEST_COMMAND), and the start of the wait.           *)
SendRequest(c) ==
    /\ clientState[c] = "connected" /\ Connected(c)
    /\ clientState' = [clientState EXCEPT ![c] = "waiting"]
    /\ unread' = unread \cup {c}
    /\ UNCHANGED <<kernelVars, backlog, clientSocket, peerOpen, answers, waited>>

SendRequestFails(c) ==
    /\ clientState[c] = "connected" /\ ~Connected(c)
    /\ Ends(c, "failed")
    /\ UNCHANGED <<kernelVars, backlog, clientSocket, unread, answers>>

(* receive returns data: the program prints it and exits.                  *)
ReceiveAnswer(c) ==
    /\ clientState[c] = "waiting" /\ answers[c] # <<>>
    /\ Ends(c, "answered")
    /\ UNCHANGED <<kernelVars, backlog, clientSocket, unread, answers>>

(* The answer is there, but not getInterfaces for what is printed with it: *)
(* msg.value() throws, since the FunctionReturn carries none.              *)
GetLocalMacsFails(c) ==
    /\ clientState[c] = "waiting" /\ answers[c] # <<>>
    /\ "getifaddrs" \in Faults
    /\ Ends(c, "failed")
    /\ UNCHANGED <<kernelVars, backlog, clientSocket, unread, answers>>

(* receive fails: the daemon ended with the request unread.                *)
ReceiveFails(c) ==
    /\ clientState[c] = "waiting" /\ answers[c] = <<>>
    /\ ~Connected(c) /\ c \in unread
    /\ Ends(c, "failed")
    /\ UNCHANGED <<kernelVars, backlog, clientSocket, unread, answers>>

(* Mutant of WaitIsOver: the loop does not look at the time.               *)
WaitIsNeverOver(c) == FALSE

WaitIsOver(c) == waited[c] >= CliWait

(* "Couldn't receive data from daemon".                                    *)
TimeOut(c) ==
    /\ clientState[c] = "waiting" /\ answers[c] = <<>> /\ WaitIsOver(c)
    /\ Ends(c, "failed")
    /\ UNCHANGED <<kernelVars, backlog, clientSocket, unread, answers>>

Interrupt(c) ==
    /\ clientState[c] \in Interrupts
    /\ Ends(c, "failed")
    /\ UNCHANGED <<kernelVars, backlog, clientSocket, unread, answers>>

(* The program is run again, once the kernel has forgotten the connection. *)
RunAgain(c) ==
    /\ clientState[c] \in {"answered", "failed"} /\ ~Connected(c)
    /\ clientState' = [clientState EXCEPT ![c] = "idle"]
    /\ unread' = unread \ {c}
    /\ answers' = [answers EXCEPT ![c] = <<>>]
    /\ UNCHANGED <<kernelVars, backlog, clientSocket, peerOpen, waited>>

ClientStep(c) ==
    \/ Connect(c) \/ ConnectFails(c)
    \/ SendRequest(c) \/ SendRequestFails(c)
    \/ ReceiveAnswer(c) \/ GetLocalMacsFails(c) \/ ReceiveFails(c) \/ TimeOut(c)
    \/ Interrupt(c) \/ RunAgain(c)
=============================================================================
