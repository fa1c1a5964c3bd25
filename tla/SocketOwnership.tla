-------------------------- MODULE SocketOwnership --------------------------
(***************************************************************************)
(* Who closes a descriptor, and whose the socket path is.                  *)
(*                                                                         *)
(* The sockets of a daemon are objects that are moved: out of the factory  *)
(* that makes one into the FunctionReturn, and from there into the member  *)
(* (IPMulticastSender.hpp, IPMulticastReceiver.hpp, UnixSocket.hpp/.cpp,   *)
(* and the setups of NetworkNeighborDiscoverer.cpp:317-394).  Each object  *)
(* a socket has been moved from is destroyed too.  The connections that    *)
(* runIteration accepts go the same way.                                   *)
(*                                                                         *)
(* Nothing keeps a second daemon from starting on the same machine: both   *)
(* then unlink, bind and listen on the one path.  The UDP port is shared   *)
(* by SO_REUSEADDR.                                                        *)
(***************************************************************************)
EXTENDS Integers, Sequences

CONSTANTS
    Process,   \* processes of the machine that run the daemon
    Fd,        \* bound: descriptor numbers
    Failing    \* members whose factory may fail

(* The members in the order their setups are called, IPv4 first            *)
(* (NetworkNeighborDiscoverer.hpp:54).                                     *)
Setup == <<"ipv4sender", "ipv4receiver", "ipv6sender", "ipv6receiver",
           "unixDomainServer">>
Member == {Setup[i] : i \in DOMAIN Setup}
Sends(member) == member \in {"ipv4sender", "ipv6sender"}

(* The places of a process that hold a socket: besides the members, the    *)
(* object or descriptor of a factory, its FunctionReturn and clientSocket. *)
Place == Member \cup {"local", "data", "clientSocket"}

(* A socket object: its sockFd, and whether its destructor unlinks the     *)
(* path (isServer, and path not empty).                                    *)
Handle == [sockFd : Fd \cup {-1}, unlinks : BOOLEAN]
Nothing == [sockFd |-> -1, unlinks |-> FALSE]

ASSUME OwnershipAssumption ==
    /\ Fd \subseteq Nat /\ Failing \subseteq Member
    /\ {"absent", "stale"} \cap Process = {}

VARIABLES
    step,        \* where each process is
    next,        \* the member it sets up
    open,        \* its open descriptors
    held,        \* what its places hold
    path,        \* "absent", "stale", or the process whose socket is bound to it
    listening,   \* processes whose server socket listens
    undisturbed  \* history: since the last unlink no daemon ended or failed to make
                 \* its server, but for finding the path taken

vars == <<step, next, open, held, path, listening, undisturbed>>

Serving == {"receive", "adopt", "accepted", "answer"}
Step == {"off", "unlink", "socket", "bind", "listen", "destroy", "return", "install"}
            \cup Serving

Init ==
    /\ step = [p \in Process |-> "off"]
    /\ next = [p \in Process |-> 1]
    /\ open = [p \in Process |-> {}]
    /\ held = [p \in Process |-> [place \in Place |-> Nothing]]
    /\ path = "absent" /\ listening = {} /\ undisturbed = TRUE

-----------------------------------------------------------------------------
At(p, s) == step[p] = s
GoTo(p, s) == step' = [step EXCEPT ![p] = s]
Hold(p, place, handle) == held' = [held EXCEPT ![p][place] = handle]

(* The kernel gives the lowest descriptor that is free.                    *)
Opens(p, fd) ==
    /\ fd \in Fd \ open[p] /\ \A other \in Fd \ open[p] : fd <= other
    /\ open' = [open EXCEPT ![p] = @ \cup {fd}]

(* Mutant of MovedFrom: the move leaves the object it moves from as it is. *)
Copied(handle) == handle

(* What a move constructor leaves behind: sockFd = -1, isServer = false.   *)
MovedFrom(handle) == Nothing

(* The object at one place is moved to another and destroyed, with what    *)
(* the other held before.                                                  *)
Move(p, from, to) ==
    LET left == MovedFrom(held[p][from])
        old == held[p][to]
    IN  /\ held' = [held EXCEPT ![p][to] = held[p][from], ![p][from] = Nothing]
        /\ open' = [open EXCEPT ![p] = @ \ {left.sockFd, old.sockFd}]
        /\ path' = IF left.unlinks \/ old.unlinks THEN "absent" ELSE path

(* On to the next member, or from the last one to the first iteration.     *)
NextMember(p) ==
    IF next[p] = Len(Setup)
    THEN next' = [next EXCEPT ![p] = 1] /\ GoTo(p, "receive")
    ELSE /\ next' = [next EXCEPT ![p] = @ + 1]
         /\ GoTo(p, IF Setup[next[p] + 1] = "unixDomainServer" THEN "unlink" ELSE "socket")

Making(p) == Setup[next[p]]
MayFail(p) == Making(p) \in Failing

-----------------------------------------------------------------------------
(* The constructor of NetworkNeighborDiscoverer.                           *)

Start(p) ==
    /\ At(p, "off") /\ GoTo(p, "socket")
    /\ UNCHANGED <<next, open, held, path, listening, undisturbed>>

(* Mutant of Unlink: serverFactory leaves the path as it is.               *)
KeepPath(p) ==
    /\ At(p, "unlink") /\ GoTo(p, "socket")
    /\ undisturbed' = TRUE
    /\ UNCHANGED <<next, open, held, path, listening>>

Unlink(p) ==
    /\ At(p, "unlink") /\ GoTo(p, "socket")
    /\ path' = "absent" /\ undisturbed' = TRUE
    /\ UNCHANGED <<next, open, held, listening>>

Socket(p) ==
    /\ At(p, "socket")
    /\ \E fd \in Fd :
         /\ Opens(p, fd)
         /\ Hold(p, "local", [sockFd |-> fd, unlinks |-> FALSE])
    /\ GoTo(p, IF Sends(Making(p)) THEN "return" ELSE "bind")
    /\ UNCHANGED <<next, path, listening, undisturbed>>

SocketFails(p) ==
    /\ At(p, "socket") /\ MayFail(p)
    /\ NextMember(p)
    /\ undisturbed' = (undisturbed /\ Making(p) # "unixDomainServer")
    /\ UNCHANGED <<open, held, path, listening>>

(* A receiver's setsockopt and bind.                                       *)
BindReceiver(p) ==
    /\ At(p, "bind") /\ Making(p) # "unixDomainServer"
    /\ GoTo(p, "return")
    /\ UNCHANGED <<next, open, held, path, listening, undisturbed>>

(* The factory closes the descriptor and leaves it in its object, ...      *)
BindReceiverFails(p) ==
    /\ At(p, "bind") /\ Making(p) # "unixDomainServer" /\ MayFail(p)
    /\ open' = [open EXCEPT ![p] = @ \ {held[p]["local"].sockFd}]
    /\ GoTo(p, "destroy")
    /\ UNCHANGED <<next, held, path, listening, undisturbed>>

(* ... whose destructor closes it again.                                   *)
DestroyReceiver(p) ==
    /\ At(p, "destroy")
    /\ open' = [open EXCEPT ![p] = @ \ {held[p]["local"].sockFd}]
    /\ Hold(p, "local", Nothing)
    /\ NextMember(p)
    /\ UNCHANGED <<path, listening, undisturbed>>

BindServer(p) ==
    /\ At(p, "bind") /\ Making(p) = "unixDomainServer" /\ path = "absent"
    /\ path' = p
    /\ GoTo(p, "listen")
    /\ UNCHANGED <<next, open, held, listening, undisturbed>>

(* serverFactory's descriptor is a plain int: it is closed once.           *)
DropServer(p) ==
    /\ open' = [open EXCEPT ![p] = @ \ {held[p]["local"].sockFd}]
    /\ Hold(p, "local", Nothing)
    /\ NextMember(p)

BindServerFails(p) ==
    /\ At(p, "bind") /\ Making(p) = "unixDomainServer"
    /\ path # "absent" \/ MayFail(p)
    /\ DropServer(p)
    /\ undisturbed' = (undisturbed /\ path # "absent")
    /\ UNCHANGED <<path, listening>>

Listen(p) ==
    /\ At(p, "listen")
    /\ listening' = listening \cup {p}
    /\ Hold(p, "local", [held[p]["local"] EXCEPT !.unlinks = TRUE])
    /\ GoTo(p, "return")
    /\ UNCHANGED <<next, open, path, undisturbed>>

(* The path stays bound to a socket that is closed.                        *)
Unbound(p) == path' = IF path = p THEN "stale" ELSE path

ListenFails(p) ==
    /\ At(p, "listen") /\ MayFail(p)
    /\ DropServer(p)
    /\ Unbound(p) /\ undisturbed' = FALSE
    /\ UNCHANGED listening

(* FunctionReturn<...>{std::move(receiver)}                                *)
Return(p) ==
    /\ At(p, "return")
    /\ Move(p, "local", "data")
    /\ GoTo(p, "install")
    /\ UNCHANGED <<next, listening, undisturbed>>

(* std::make_unique<...>(std::move(funcReturn.data.value()))               *)
Install(p) ==
    /\ At(p, "install")
    /\ Move(p, "data", Making(p))
    /\ NextMember(p)
    /\ UNCHANGED <<listening, undisturbed>>

-----------------------------------------------------------------------------
(* runIteration, as far as descriptors go.                                 *)

(* The AF_UNIX server has a client waiting.                                *)
Accept(p) ==
    /\ At(p, "receive") /\ held[p]["unixDomainServer"] # Nothing
    /\ \E fd \in Fd :
         /\ Opens(p, fd)
         /\ Hold(p, "data", [sockFd |-> fd, unlinks |-> FALSE])
    /\ GoTo(p, "adopt")
    /\ UNCHANGED <<next, path, listening, undisturbed>>

(* clientSocket = make_unique(move(...)): the connection accepted by an    *)
(* earlier pass of the loop is closed.                                     *)
Adopt(p) ==
    /\ At(p, "adopt")
    /\ Move(p, "data", "clientSocket")
    /\ GoTo(p, "accepted")
    /\ UNCHANGED <<next, listening, undisturbed>>

(* The loop goes on after what was not a request.                          *)
ReceiveAgain(p) ==
    /\ At(p, "accepted") /\ GoTo(p, "receive")
    /\ UNCHANGED <<next, open, held, path, listening, undisturbed>>

(* It ends with a request, or with the window.                             *)
ReceiveDone(p) ==
    /\ step[p] \in {"receive", "accepted"} /\ GoTo(p, "answer")
    /\ UNCHANGED <<next, open, held, path, listening, undisturbed>>

(* The end of the iteration destroys clientSocket.                         *)
Answer(p) ==
    /\ At(p, "answer")
    /\ open' = [open EXCEPT ![p] = @ \ {held[p]["clientSocket"].sockFd}]
    /\ Hold(p, "clientSocket", Nothing)
    /\ GoTo(p, "receive")
    /\ UNCHANGED <<next, path, listening, undisturbed>>

(* A daemon ends from outside: no destructor runs, the path stays.         *)
Kill(p) ==
    /\ ~At(p, "off") /\ GoTo(p, "off")
    /\ next' = [next EXCEPT ![p] = 1]
    /\ open' = [open EXCEPT ![p] = {}]
    /\ held' = [held EXCEPT ![p] = [place \in Place |-> Nothing]]
    /\ Unbound(p) /\ undisturbed' = FALSE
    /\ listening' = listening \ {p}

ServerSetup(p) ==
    \/ Unlink(p) \/ BindServer(p) \/ BindServerFails(p) \/ Listen(p) \/ ListenFails(p)
SocketSetup(p) ==
    \/ Socket(p) \/ SocketFails(p)
    \/ BindReceiver(p) \/ BindReceiverFails(p) \/ DestroyReceiver(p)
    \/ Return(p) \/ Install(p)
Iteration(p) ==
    \/ Accept(p) \/ Adopt(p) \/ ReceiveAgain(p) \/ ReceiveDone(p) \/ Answer(p)

Next ==
    \E p \in Process :
        Start(p) \/ Kill(p) \/ ServerSetup(p) \/ SocketSetup(p) \/ Iteration(p)

Spec == Init /\ [][Next]_vars

-----------------------------------------------------------------------------
(* Properties.                                                             *)

Fds(p) == {held[p][place].sockFd : place \in Place} \ {-1}

TypeOK ==
    /\ step \in [Process -> Step]
    /\ next \in [Process -> DOMAIN Setup]
    /\ open \in [Process -> SUBSET Fd]
    /\ held \in [Process -> [Place -> Handle]]
    /\ path \in {"absent", "stale"} \cup Process
    /\ listening \subseteq Process /\ undisturbed \in BOOLEAN

(* A daemon leaks no descriptor and never uses or closes one that is not   *)
(* the object's own, over any sequence of factories that fail, moves and   *)
(* accepted connections: what is open is what its objects hold, each in    *)
(* one of them only.  The descriptor that a failing receiver factory has   *)
(* closed and its destructor closes again is no other object's by then     *)
(* (IPMulticastReceiver.hpp:81, 91, 100 and 124).                          *)
DescriptorsOwned ==
    \A p \in Process :
        /\ open[p] = IF At(p, "destroy") THEN Fds(p) \ {held[p]["local"].sockFd}
                                         ELSE Fds(p)
        /\ \A a, b \in Place :
              held[p][a].sockFd = held[p][b].sockFd /\ held[p][a].sockFd # -1 => a = b

(* However daemons start alongside one another, and whatever an earlier    *)
(* one left behind, the path leads to one that listens once all starts are *)
(* over: no interleaving of unlink, bind and listen (UnixSocket.cpp:20-36) *)
(* leaves a running daemon unreachable for the CLI program.  A daemon that *)
(* ends later takes the path with it.                                      *)
StartsLeaveAListener ==
    (/\ \A p \in Process : step[p] \in Serving \cup {"off"}
     /\ \E p \in Process : step[p] # "off"
     /\ undisturbed)
    => path \in listening
=============================================================================
