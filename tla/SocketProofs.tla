---------------------------- MODULE SocketProofs ----------------------------
(***************************************************************************)
(* Theorems about SocketOwnership, for any number of processes and         *)
(* descriptors and whichever factories fail.                               *)
(***************************************************************************)
EXTENDS SocketOwnership, TLAPS

Last == Len(Setup)
Made(p) == {Setup[i] : i \in 1 .. next[p] - 1}

(* The places that may hold a socket, by where the process is.             *)
Filled(p) ==
    CASE step[p] = "off" -> {}
      [] step[p] \in {"unlink", "socket"} -> Made(p)
      [] step[p] \in {"bind", "listen", "destroy", "return"} -> Made(p) \cup {"local"}
      [] step[p] = "install" -> Made(p) \cup {"data"}
      [] step[p] = "adopt" -> Member \cup {"clientSocket", "data"}
      [] OTHER -> Member \cup {"clientSocket"}

OthersEmpty(p) == \A place \in Place \ Filled(p) : held[p][place] = Nothing

(* What a connection's move destroys or moves has no path to unlink.       *)
ConnectionsHaveNoPath(p) ==
    /\ ~held[p]["clientSocket"].unlinks
    /\ At(p, "adopt") => ~held[p]["data"].unlinks

FdsOf(h) == {h[place].sockFd : place \in Place} \ {-1}
Distinct(h) == \A a, b \in Place : h[a].sockFd = h[b].sockFd /\ h[a].sockFd # -1 => a = b

Owned(p) ==
    /\ open[p] = IF At(p, "destroy") THEN FdsOf(held[p]) \ {held[p]["local"].sockFd}
                                     ELSE FdsOf(held[p])
    /\ Distinct(held[p])

ProcessInv(p) == Owned(p) /\ OthersEmpty(p) /\ ConnectionsHaveNoPath(p)
OwnershipInv == \A p \in Process : ProcessInv(p)

(* Before its server is made, and while it is.                             *)
BeforeServer(p) ==
    \/ step[p] \in {"off", "unlink"}
    \/ step[p] \in {"socket", "bind", "destroy", "return", "install"} /\ next[p] # Last
MakesServer(p) == step[p] \in {"socket", "bind"} /\ next[p] = Last

TurnInv ==
    \A p \in Process : /\ At(p, "off") => next[p] = 1
                       /\ At(p, "unlink") => next[p] = Last

(* Where the listener is to come from that an undisturbed path leads to.   *)
PathInv ==
    undisturbed =>
        \/ path \in listening
        \/ path \in Process /\ At(path, "listen")
        \/ path = "absent" /\ \E p \in Process : MakesServer(p)
        \/ \A p \in Process : BeforeServer(p)

-----------------------------------------------------------------------------
(* The setups and their places.                                            *)

LEMMA SetupFacts ==
    /\ Last = 5 /\ DOMAIN Setup = 1 .. 5
    /\ Setup[5] = "unixDomainServer"
    /\ \A i \in 1 .. 5 : Setup[i] = "unixDomainServer" => i = 5
    /\ \A i, j \in 1 .. 5 : Setup[i] = Setup[j] => i = j
    /\ \A i \in 1 .. 5 : Setup[i] \in Member /\ Setup[i] \notin {"local", "data", "clientSocket"}
    /\ Member \subseteq Place /\ {"local", "data", "clientSocket"} \subseteq Place
    /\ {"local", "data", "clientSocket"} \cap Member = {}
BY DEF Setup, Last, Member, Place

LEMMA NothingType == Nothing \in Handle /\ Nothing.sockFd = -1 /\ ~Nothing.unlinks
BY DEF Nothing, Handle

-----------------------------------------------------------------------------
(* Holding and moving.                                                     *)

LEMMA HoldFds ==
    ASSUME NEW h \in [Place -> Handle], Distinct(h), NEW place \in Place,
           NEW handle \in Handle, handle.sockFd \notin FdsOf(h),
           NEW g, g = [h EXCEPT ![place] = handle]
    PROVE  /\ Distinct(g)
           /\ FdsOf(g) = (FdsOf(h) \ {h[place].sockFd}) \cup ({handle.sockFd} \ {-1})
<1>1. /\ g \in [Place -> Handle] /\ g[place] = handle
      /\ \A a \in Place \ {place} : g[a] = h[a]
  OBVIOUS
<1>2. \A a \in Place : h[a].sockFd # -1 => h[a].sockFd \in FdsOf(h)
  BY DEF FdsOf
<1>3. Distinct(g)
  BY <1>1, <1>2 DEF Distinct
<1>4. FdsOf(g) \subseteq (FdsOf(h) \ {h[place].sockFd}) \cup ({handle.sockFd} \ {-1})
  BY <1>1, <1>2 DEF FdsOf, Distinct
<1>5. (FdsOf(h) \ {h[place].sockFd}) \cup ({handle.sockFd} \ {-1}) \subseteq FdsOf(g)
  BY <1>1 DEF FdsOf
<1> QED
  BY <1>3, <1>4, <1>5

LEMMA MoveFds ==
    ASSUME NEW h \in [Place -> Handle], Distinct(h),
           NEW from \in Place, NEW to \in Place, from # to,
           NEW g, g = [h EXCEPT ![to] = h[from], ![from] = Nothing]
    PROVE  Distinct(g) /\ FdsOf(g) = FdsOf(h) \ {h[to].sockFd}
<1>1. /\ g \in [Place -> Handle] /\ g[to] = h[from] /\ g[from] = Nothing
      /\ \A a \in Place \ {from, to} : g[a] = h[a]
  BY NothingType
<1>2. Distinct(g)
  BY <1>1, NothingType DEF Distinct
<1>3. FdsOf(g) \subseteq FdsOf(h) \ {h[to].sockFd}
  BY <1>1, NothingType DEF FdsOf, Distinct
<1>4. FdsOf(h) \ {h[to].sockFd} \subseteq FdsOf(g)
  <2> SUFFICES ASSUME NEW a \in Place, h[a].sockFd # -1, h[a].sockFd # h[to].sockFd
               PROVE  h[a].sockFd \in FdsOf(g)
    BY DEF FdsOf
  <2>1. \E b \in Place : g[b].sockFd = h[a].sockFd
    BY <1>1
  <2> QED
    BY <2>1 DEF FdsOf
<1> QED
  BY <1>2, <1>3, <1>4

-----------------------------------------------------------------------------
(* Types, and that a step of one process leaves the others alone.          *)

(* A step of p as an assignment to the slots of p.                         *)
Slots(p) ==
    /\ \E s \in Step : step' = [step EXCEPT ![p] = s]
    /\ \E n \in DOMAIN Setup : next' = [next EXCEPT ![p] = n]
    /\ \E o \in SUBSET Fd : open' = [open EXCEPT ![p] = o]
    /\ \E h \in [Place -> Handle] : held' = [held EXCEPT ![p] = h]

LEMMA NextMemberSlots ==
    ASSUME TypeOK, NEW p \in Process, NextMember(p)
    PROVE  /\ next[p] = 5 => /\ next' = [next EXCEPT ![p] = 1]
                             /\ step' = [step EXCEPT ![p] = "receive"]
           /\ next[p] # 5 => /\ next' = [next EXCEPT ![p] = next[p] + 1]
                             /\ next[p] \in 1 .. 4
           /\ next[p] = 4 => step' = [step EXCEPT ![p] = "unlink"]
           /\ next[p] \in 1 .. 3 => step' = [step EXCEPT ![p] = "socket"]
<1>1. next[p] \in 1 .. 5 /\ Len(Setup) = 5
  BY SetupFacts DEF TypeOK, Last
<1>2. CASE next[p] = 5
  BY <1>1, <1>2 DEF NextMember, GoTo
<1>3. CASE next[p] # 5
  <2>1. next[p] \in 1 .. 4 /\ next[p] + 1 \in 1 .. 5
    BY <1>1, <1>3
  <2>2. Setup[next[p] + 1] = "unixDomainServer" <=> next[p] = 4
    BY <2>1, SetupFacts
  <2>3. /\ next' = [next EXCEPT ![p] = next[p] + 1]
        /\ step' = [step EXCEPT ![p] = IF Setup[next[p] + 1] = "unixDomainServer"
                                       THEN "unlink" ELSE "socket"]
    BY <1>1, <1>3 DEF NextMember, GoTo
  <2>4. ASSUME next[p] = 4 PROVE step' = [step EXCEPT ![p] = "unlink"]
    <3>1. Setup[next[p] + 1] = "unixDomainServer"
      BY <2>2, <2>4
    <3> QED
      BY <2>3, <3>1
  <2>5. ASSUME next[p] \in 1 .. 3 PROVE step' = [step EXCEPT ![p] = "socket"]
    <3>1. Setup[next[p] + 1] # "unixDomainServer"
      BY <2>2, <2>5
    <3> QED
      BY <2>3, <3>1
  <2> QED
    BY <1>3, <2>1, <2>3, <2>4, <2>5
<1> QED
  BY <1>2, <1>3

LEMMA MoveSlots ==
    ASSUME TypeOK, NEW p \in Process, NEW from \in Place, NEW to \in Place, from # to,
           Move(p, from, to)
    PROVE  /\ held' = [held EXCEPT ![p] =
                          [held[p] EXCEPT ![to] = held[p][from], ![from] = Nothing]]
           /\ open' = [open EXCEPT ![p] = open[p] \ {-1, held[p][to].sockFd}]
           /\ ~held[p][to].unlinks => path' = path
           /\ path' \in {path, "absent"}
BY NothingType DEF TypeOK, Move, MovedFrom

LEMMA ActionSlots ==
    ASSUME TypeOK, NEW p \in Process,
           Start(p) \/ Kill(p) \/ ServerSetup(p) \/ SocketSetup(p) \/ Iteration(p)
    PROVE  Slots(p) /\ TypeOK'
<1>1. /\ step[p] \in Step /\ next[p] \in DOMAIN Setup
      /\ open[p] \in SUBSET Fd /\ held[p] \in [Place -> Handle]
      /\ step = [step EXCEPT ![p] = step[p]] /\ next = [next EXCEPT ![p] = next[p]]
      /\ open = [open EXCEPT ![p] = open[p]] /\ held = [held EXCEPT ![p] = held[p]]
  BY DEF TypeOK
<1>s. step' = step => \E s \in Step : step' = [step EXCEPT ![p] = s]
  BY <1>1
<1>n. next' = next => \E n \in DOMAIN Setup : next' = [next EXCEPT ![p] = n]
  BY <1>1
<1>o. open' = open => \E o \in SUBSET Fd : open' = [open EXCEPT ![p] = o]
  BY <1>1
<1>h. held' = held => \E h \in [Place -> Handle] : held' = [held EXCEPT ![p] = h]
  BY <1>1
<1>2. 1 \in DOMAIN Setup /\ Making(p) \in Member /\ DOMAIN Setup = 1 .. 5
  BY <1>1, SetupFacts DEF Making, Member
<1>3. ASSUME NextMember(p)
      PROVE  \E s \in Step, n \in DOMAIN Setup :
                 step' = [step EXCEPT ![p] = s] /\ next' = [next EXCEPT ![p] = n]
  <2>1. CASE next[p] = 5
    BY <1>2, <1>3, <2>1, NextMemberSlots DEF Step, Serving
  <2>2. CASE next[p] # 5
    <3>1. next[p] + 1 \in DOMAIN Setup
      BY <1>2, <1>3, <2>2, NextMemberSlots
    <3>2. CASE next[p] = 4
      BY <1>3, <2>2, <3>1, <3>2, NextMemberSlots DEF Step
    <3>3. CASE next[p] # 4
      BY <1>3, <2>2, <3>1, <3>3, NextMemberSlots DEF Step
    <3> QED
      BY <3>2, <3>3
  <2> QED
    BY <2>1, <2>2
<1>4. ASSUME NEW place \in Place, NEW handle \in Handle, Hold(p, place, handle)
      PROVE  \E h \in [Place -> Handle] : held' = [held EXCEPT ![p] = h]
  <2>1. held' = [held EXCEPT ![p] = [held[p] EXCEPT ![place] = handle]]
    BY <1>4 DEF Hold, TypeOK
  <2>2. [held[p] EXCEPT ![place] = handle] \in [Place -> Handle]
    BY <1>1
  <2> QED
    BY <2>1, <2>2
<1>5. ASSUME NEW from \in Place, NEW to \in Place, from # to, Move(p, from, to)
      PROVE  /\ \E h \in [Place -> Handle] : held' = [held EXCEPT ![p] = h]
             /\ \E o \in SUBSET Fd : open' = [open EXCEPT ![p] = o]
             /\ path' \in {path, "absent"}
  <2>1. [held[p] EXCEPT ![to] = held[p][from], ![from] = Nothing] \in [Place -> Handle]
    BY <1>1, NothingType
  <2>2. open[p] \ {-1, held[p][to].sockFd} \in SUBSET Fd
    BY <1>1
  <2> QED
    BY <1>5, <2>1, <2>2, MoveSlots
<1>6. ASSUME NEW fd \in Fd, NEW unlinks \in BOOLEAN
      PROVE  [sockFd |-> fd, unlinks |-> unlinks] \in Handle
  BY DEF Handle
<1>7. ASSUME NEW s \in Step, GoTo(p, s)
      PROVE  \E t \in Step : step' = [step EXCEPT ![p] = t]
  BY <1>7 DEF GoTo
<1>8. Slots(p) /\ path' \in {"absent", "stale"} \cup Process
        /\ listening' \subseteq Process /\ undisturbed' \in BOOLEAN
  <2>1. path \in {"absent", "stale"} \cup Process /\ listening \subseteq Process
          /\ undisturbed \in BOOLEAN
    BY DEF TypeOK
  <2>2. CASE Start(p) \/ BindReceiver(p) \/ ReceiveAgain(p) \/ ReceiveDone(p)
    <3>1. \E s \in Step : step' = [step EXCEPT ![p] = s]
      BY <2>2 DEF Start, BindReceiver, ReceiveAgain, ReceiveDone, GoTo, Step, Serving
    <3> QED
      BY <1>n, <1>o, <1>h, <2>1, <2>2, <3>1
         DEF Start, BindReceiver, ReceiveAgain, ReceiveDone, Slots
  <2>3. CASE Unlink(p) \/ BindServer(p)
    <3>1. \E s \in Step : step' = [step EXCEPT ![p] = s]
      BY <2>3 DEF Unlink, BindServer, GoTo, Step
    <3> QED
      BY <1>n, <1>o, <1>h, <2>1, <2>3, <3>1 DEF Unlink, BindServer, Slots
  <2>4. CASE SocketFails(p)
    BY <1>3, <1>o, <1>h, <2>1, <2>4 DEF SocketFails, Slots
  <2>5. CASE Socket(p) \/ Accept(p)
    <3>1. \E s \in Step : step' = [step EXCEPT ![p] = s]
      BY <2>5 DEF Socket, Accept, GoTo, Step, Serving
    <3>2. PICK fd \in Fd, place \in Place :
             Opens(p, fd) /\ Hold(p, place, [sockFd |-> fd, unlinks |-> FALSE])
      BY <2>5, SetupFacts DEF Socket, Accept
    <3>3. \E h \in [Place -> Handle] : held' = [held EXCEPT ![p] = h]
      BY <1>4, <1>6, <3>2
    <3>4. \E o \in SUBSET Fd : open' = [open EXCEPT ![p] = o]
      BY <1>1, <3>2 DEF Opens
    <3> QED
      BY <1>n, <1>o, <1>h, <2>1, <2>5, <3>1, <3>3, <3>4 DEF Socket, Accept, Slots
  <2>6. CASE BindReceiverFails(p)
    <3>1. \E s \in Step : step' = [step EXCEPT ![p] = s]
      BY <2>6 DEF BindReceiverFails, GoTo, Step
    <3>2. \E o \in SUBSET Fd : open' = [open EXCEPT ![p] = o]
      BY <1>1, <2>6 DEF BindReceiverFails
    <3> QED
      BY <1>n, <1>o, <1>h, <2>1, <2>6, <3>1, <3>2 DEF BindReceiverFails, Slots
  <2>7. CASE DestroyReceiver(p) \/ BindServerFails(p) \/ ListenFails(p)
    <3>1. /\ Hold(p, "local", Nothing) /\ NextMember(p)
          /\ open' = [open EXCEPT ![p] = @ \ {held[p]["local"].sockFd}]
      BY <2>7 DEF DestroyReceiver, BindServerFails, ListenFails, DropServer
    <3>2. \E h \in [Place -> Handle] : held' = [held EXCEPT ![p] = h]
      BY <1>4, <3>1, NothingType, SetupFacts
    <3>3. \E o \in SUBSET Fd : open' = [open EXCEPT ![p] = o]
      BY <1>1, <3>1
    <3> QED
      BY <1>3, <2>1, <2>7, <3>1, <3>2, <3>3
         DEF DestroyReceiver, BindServerFails, ListenFails, Unbound, Slots
  <2>8. CASE Listen(p)
    <3>1. \E s \in Step : step' = [step EXCEPT ![p] = s]
      BY <2>8 DEF Listen, GoTo, Step
    <3>2. [held[p]["local"] EXCEPT !.unlinks = TRUE] \in Handle
      <4>1. held[p]["local"] \in Handle
        BY <1>1, SetupFacts
      <4> QED
        BY <4>1 DEF Handle
    <3>3. \E h \in [Place -> Handle] : held' = [held EXCEPT ![p] = h]
      BY <1>4, <2>8, <3>2, SetupFacts DEF Listen
    <3> QED
      BY <1>n, <1>o, <1>h, <2>1, <2>8, <3>1, <3>3 DEF Listen, Slots
  <2>9. CASE Return(p) \/ Adopt(p)
    <3>1. \E s \in Step : step' = [step EXCEPT ![p] = s]
      BY <2>9 DEF Return, Adopt, GoTo, Step, Serving
    <3> QED
      BY <1>n, <1>5, <2>1, <2>9, <3>1, SetupFacts DEF Return, Adopt, Slots
  <2>10. CASE Install(p)
    <3>1. Move(p, "data", Making(p)) /\ NextMember(p)
      BY <2>10 DEF Install
    <3>2. Making(p) \in Place /\ "data" \in Place /\ Making(p) # "data"
      BY <1>2, SetupFacts
    <3> QED
      BY <1>3, <1>5, <2>1, <2>10, <3>1, <3>2 DEF Install, Slots
  <2>11. CASE Answer(p)
    <3>1. \E s \in Step : step' = [step EXCEPT ![p] = s]
      BY <2>11 DEF Answer, GoTo, Step, Serving
    <3>2. \E o \in SUBSET Fd : open' = [open EXCEPT ![p] = o]
      BY <1>1, <2>11 DEF Answer
    <3>3. \E h \in [Place -> Handle] : held' = [held EXCEPT ![p] = h]
      BY <1>4, <2>11, NothingType, SetupFacts DEF Answer
    <3> QED
      BY <1>n, <1>o, <1>h, <2>1, <2>11, <3>1, <3>2, <3>3 DEF Answer, Slots
  <2>12. CASE Kill(p)
    <3>1. [place \in Place |-> Nothing] \in [Place -> Handle]
      BY NothingType
    <3> QED
      BY <1>2, <2>1, <2>12, <3>1 DEF Kill, Slots, GoTo, Unbound, Step
  <2> QED
    BY <2>2, <2>3, <2>4, <2>5, <2>6, <2>7, <2>8, <2>9, <2>10, <2>11, <2>12
       DEF ServerSetup, SocketSetup, Iteration
<1>9. /\ step' \in [Process -> Step] /\ next' \in [Process -> DOMAIN Setup]
      /\ open' \in [Process -> SUBSET Fd] /\ held' \in [Process -> [Place -> Handle]]
  BY <1>8 DEF Slots, TypeOK
<1> QED
  BY <1>8, <1>9 DEF TypeOK

-----------------------------------------------------------------------------
(* Descriptors.                                                            *)

LEMMA Untouched ==
    ASSUME TypeOK, NEW p \in Process, Slots(p), NEW q \in Process \ {p}
    PROVE  /\ step'[q] = step[q] /\ next'[q] = next[q]
           /\ open'[q] = open[q] /\ held'[q] = held[q]
           /\ ProcessInv(q) => ProcessInv(q)'
<1>1. /\ step'[q] = step[q] /\ next'[q] = next[q]
      /\ open'[q] = open[q] /\ held'[q] = held[q]
  BY DEF Slots, TypeOK
<1> QED
  BY <1>1 DEF ProcessInv, Owned, OthersEmpty, ConnectionsHaveNoPath, Filled, Made, At

(* What is filled when the next member's turn comes.                       *)
LEMMA NextFilled ==
    ASSUME TypeOK, NEW p \in Process, NextMember(p)
    PROVE  /\ step'[p] \in {"receive", "unlink", "socket"}
           /\ Made(p) \cup {Making(p)} \subseteq Filled(p)'
<1>1. next[p] \in 1 .. 5 /\ step \in [Process -> Step] /\ next \in [Process -> DOMAIN Setup]
  BY SetupFacts DEF TypeOK
<1>2. CASE next[p] = 5
  <2>1. step'[p] = "receive"
    BY <1>1, <1>2, NextMemberSlots
  <2>2. Filled(p)' = Member \cup {"clientSocket"}
    BY <2>1 DEF Filled
  <2>3. Made(p) \cup {Making(p)} \subseteq Member
    BY <1>1, SetupFacts DEF Made, Making
  <2> QED
    BY <2>1, <2>2, <2>3
<1>3. CASE next[p] # 5
  <2>1. step'[p] \in {"unlink", "socket"} /\ next'[p] = next[p] + 1
    <3>1. next'[p] = next[p] + 1
      BY <1>1, <1>3, NextMemberSlots
    <3>2. CASE next[p] = 4
      BY <1>1, <3>1, <3>2, NextMemberSlots
    <3>3. CASE next[p] \in 1 .. 3
      BY <1>1, <3>1, <3>3, NextMemberSlots
    <3> QED
      BY <1>1, <1>3, <3>2, <3>3
  <2>2. Filled(p)' = Made(p)'
    BY <2>1 DEF Filled
  <2>3. Made(p)' = {Setup[i] : i \in 1 .. next[p]}
    BY <1>1, <2>1 DEF Made
  <2>4. Made(p) \cup {Making(p)} \subseteq {Setup[i] : i \in 1 .. next[p]}
    BY <1>1 DEF Made, Making
  <2> QED
    BY <2>1, <2>2, <2>3, <2>4
<1> QED
  BY <1>2, <1>3

(* Taking a new descriptor into an empty place.                            *)
LEMMA OwnedOpening ==
    ASSUME TypeOK, NEW p \in Process, Owned(p), ~At(p, "destroy"), ~At(p, "destroy")',
           NEW place \in Place, held[p][place] = Nothing, NEW fd \in Fd, Opens(p, fd),
           Hold(p, place, [sockFd |-> fd, unlinks |-> FALSE])
    PROVE  Owned(p)'
<1> DEFINE handle == [sockFd |-> fd, unlinks |-> FALSE]
<1>1. held[p] \in [Place -> Handle] /\ open[p] \in SUBSET Fd /\ handle \in Handle
  BY DEF TypeOK, Handle
<1>2. held'[p] = [held[p] EXCEPT ![place] = handle] /\ open'[p] = open[p] \cup {fd}
  BY DEF TypeOK, Hold, Opens
<1>3. open[p] = FdsOf(held[p]) /\ Distinct(held[p]) /\ fd \notin open[p] /\ fd # -1
  BY OwnershipAssumption DEF Owned, Opens
<1>4. Distinct(held'[p]) /\ FdsOf(held'[p]) = (FdsOf(held[p]) \ {-1}) \cup ({fd} \ {-1})
  <2>1. handle.sockFd = fd /\ held[p][place].sockFd = -1
    BY NothingType
  <2> HIDE DEF handle
  <2>2. handle.sockFd \notin FdsOf(held[p])
    BY <1>3, <2>1
  <2> QED
    BY <1>1, <1>2, <1>3, <2>1, <2>2, HoldFds
<1> QED
  BY <1>2, <1>3, <1>4 DEF Owned, FdsOf, At

(* Closing what a place holds and emptying it.                             *)
LEMMA OwnedClosing ==
    ASSUME TypeOK, NEW p \in Process, Owned(p), ~At(p, "destroy")',
           NEW place \in Place, At(p, "destroy") => place = "local",
           open' = [open EXCEPT ![p] = @ \ {held[p][place].sockFd}],
           Hold(p, place, Nothing)
    PROVE  Owned(p)'
<1>1. held[p] \in [Place -> Handle] /\ Nothing.sockFd \notin FdsOf(held[p])
  BY NothingType DEF TypeOK, FdsOf
<1>2. held'[p] = [held[p] EXCEPT ![place] = Nothing]
      /\ open'[p] = open[p] \ {held[p][place].sockFd}
  BY DEF TypeOK, Hold
<1>3. Distinct(held'[p])
      /\ FdsOf(held'[p]) = FdsOf(held[p]) \ {held[p][place].sockFd}
  <2>1. Distinct(held[p]) /\ Nothing \in Handle /\ {Nothing.sockFd} \ {-1} = {}
    BY NothingType DEF Owned
  <2> QED
    BY <1>1, <1>2, <2>1, HoldFds
<1>4. open[p] \ {held[p][place].sockFd} = FdsOf(held[p]) \ {held[p][place].sockFd}
  BY DEF Owned
<1> QED
  BY <1>2, <1>3, <1>4 DEF Owned, At

LEMMA OwnedMoving ==
    ASSUME TypeOK, NEW p \in Process, Owned(p), ~At(p, "destroy"), ~At(p, "destroy")',
           NEW from \in Place, NEW to \in Place, from # to, Move(p, from, to)
    PROVE  Owned(p)'
<1>1. held[p] \in [Place -> Handle] /\ -1 \notin FdsOf(held[p])
  BY DEF TypeOK, FdsOf
<1>2. /\ held'[p] = [held[p] EXCEPT ![to] = held[p][from], ![from] = Nothing]
      /\ open'[p] = open[p] \ {-1, held[p][to].sockFd}
  <2>1. /\ held' = [held EXCEPT ![p] =
                     [held[p] EXCEPT ![to] = held[p][from], ![from] = Nothing]]
        /\ open' = [open EXCEPT ![p] = open[p] \ {-1, held[p][to].sockFd}]
    BY MoveSlots
  <2> QED
    BY <2>1 DEF TypeOK
<1>3. open[p] = FdsOf(held[p]) /\ Distinct(held[p])
  BY DEF Owned
<1>4. Distinct(held'[p]) /\ FdsOf(held'[p]) = FdsOf(held[p]) \ {held[p][to].sockFd}
  BY <1>1, <1>2, <1>3, MoveFds
<1> QED
  BY <1>1, <1>2, <1>3, <1>4 DEF Owned, At

(* What an action empties or fills keeps to Filled.                        *)
LEMMA SetupInv ==
    ASSUME TypeOK, NEW p \in Process, ProcessInv(p), ServerSetup(p) \/ SocketSetup(p)
    PROVE  ProcessInv(p)'
<1>1. /\ step \in [Process -> Step] /\ next \in [Process -> DOMAIN Setup]
      /\ held \in [Process -> [Place -> Handle]]
      /\ Owned(p) /\ OthersEmpty(p)
  BY DEF TypeOK, ProcessInv
<1>2. "local" \in Place /\ "data" \in Place /\ "clientSocket" \in Place
      /\ Member \subseteq Place /\ Making(p) \in Member
      /\ {"local", "data", "clientSocket"} \cap Member = {}
      /\ Made(p) \subseteq Member /\ Making(p) \notin Made(p)
  <2>1. next[p] \in 1 .. 5 /\ next[p] \notin 1 .. next[p] - 1
        /\ 1 .. next[p] - 1 \subseteq 1 .. 5
    <3>1. next[p] \in 1 .. 5
      BY <1>1, SetupFacts
    <3> QED
      BY <3>1
  <2>2. Made(p) \subseteq Member /\ Making(p) \in Member
    BY <2>1, SetupFacts DEF Made, Making
  <2>3. Making(p) \notin Made(p)
    <3> SUFFICES ASSUME NEW i \in 1 .. next[p] - 1, Setup[i] = Setup[next[p]] PROVE FALSE
      BY DEF Made, Making
    <3>1. i \in 1 .. 5 /\ i # next[p]
      BY <2>1
    <3>2. \A k, l \in 1 .. 5 : Setup[k] = Setup[l] => k = l
      BY SetupFacts
    <3> QED
      BY <2>1, <3>1, <3>2
  <2> QED
    BY <2>2, <2>3, SetupFacts
<1>3. held[p]["clientSocket"] = Nothing
      /\ (held'[p]["clientSocket"] = Nothing /\ ~At(p, "adopt")' => ConnectionsHaveNoPath(p)')
  <2>1. step[p] \in {"unlink", "socket", "bind", "listen", "destroy", "return", "install"}
    BY DEF ServerSetup, SocketSetup, Unlink, BindServer, BindServerFails, Listen,
           ListenFails, Socket, SocketFails, BindReceiver, BindReceiverFails,
           DestroyReceiver, Return, Install, At
  <2>2. "clientSocket" \notin Filled(p)
    BY <1>2, <2>1 DEF Filled
  <2> QED
    BY <1>1, <1>2, <2>2, NothingType DEF OthersEmpty, ConnectionsHaveNoPath
<1>4. CASE Unlink(p) \/ BindReceiver(p) \/ BindServer(p)
  <2>1. held' = held /\ open' = open /\ next' = next
    BY <1>4 DEF Unlink, BindReceiver, BindServer
  <2>2. \/ step[p] = "unlink" /\ step'[p] = "socket"
        \/ step[p] = "bind" /\ step'[p] \in {"return", "listen"}
    BY <1>1, <1>4 DEF Unlink, BindReceiver, BindServer, At, GoTo
  <2>3. Filled(p)' = Filled(p)
    BY <2>1, <2>2 DEF Filled, Made
  <2>4. Owned(p)' /\ OthersEmpty(p)'
    BY <1>1, <2>1, <2>2, <2>3 DEF Owned, OthersEmpty, At
  <2> QED
    BY <1>3, <2>1, <2>2, <2>4 DEF ProcessInv, At
<1>5. CASE Socket(p)
  <2>1. PICK fd \in Fd : Opens(p, fd) /\ Hold(p, "local", [sockFd |-> fd, unlinks |-> FALSE])
    BY <1>5 DEF Socket
  <2>2. step[p] = "socket" /\ step'[p] \in {"return", "bind"} /\ next' = next
    BY <1>1, <1>5 DEF Socket, At, GoTo
  <2>3. Filled(p) = Made(p) /\ Filled(p)' = Made(p) \cup {"local"}
    BY <2>2 DEF Filled, Made
  <2>4. held[p]["local"] = Nothing
    BY <1>1, <1>2, <2>3 DEF OthersEmpty
  <2>5. Owned(p)'
    BY <1>1, <1>2, <2>1, <2>2, <2>4, OwnedOpening DEF At
  <2>6. \A place \in Place \ {"local"} : held'[p][place] = held[p][place]
    BY <1>1, <2>1 DEF Hold
  <2>7. OthersEmpty(p)'
    BY <1>1, <2>3, <2>6 DEF OthersEmpty
  <2> QED
    BY <1>2, <1>3, <2>2, <2>5, <2>6, <2>7 DEF ProcessInv, At
<1>6. CASE SocketFails(p)
  <2>1. held' = held /\ open' = open /\ NextMember(p) /\ step[p] = "socket"
    BY <1>6 DEF SocketFails, At
  <2>2. Filled(p) = Made(p) /\ Filled(p) \subseteq Filled(p)'
        /\ step'[p] \in {"receive", "unlink", "socket"}
    BY <2>1, NextFilled DEF Filled
  <2>3. Owned(p)' /\ OthersEmpty(p)'
    BY <1>1, <2>1, <2>2 DEF Owned, OthersEmpty, At
  <2> QED
    BY <1>3, <2>1, <2>2, <2>3 DEF ProcessInv, At
<1>7. CASE BindReceiverFails(p)
  <2>1. /\ held' = held /\ next' = next /\ step[p] = "bind" /\ step'[p] = "destroy"
        /\ open'[p] = open[p] \ {held[p]["local"].sockFd}
    BY <1>1, <1>7 DEF BindReceiverFails, At, GoTo, TypeOK
  <2>2. Filled(p)' = Filled(p)
    BY <2>1 DEF Filled, Made
  <2>3. Owned(p)' /\ OthersEmpty(p)'
    BY <1>1, <2>1, <2>2 DEF Owned, OthersEmpty, At
  <2> QED
    BY <1>3, <2>1, <2>3 DEF ProcessInv, At
<1>8. CASE DestroyReceiver(p) \/ BindServerFails(p) \/ ListenFails(p)
  <2>1. /\ Hold(p, "local", Nothing) /\ NextMember(p)
        /\ open' = [open EXCEPT ![p] = @ \ {held[p]["local"].sockFd}]
        /\ step[p] \in {"destroy", "bind", "listen"}
    BY <1>8 DEF DestroyReceiver, BindServerFails, ListenFails, DropServer, At
  <2>2. /\ Filled(p) = Made(p) \cup {"local"} /\ Made(p) \subseteq Filled(p)'
        /\ step'[p] \in {"receive", "unlink", "socket"}
    BY <2>1, NextFilled DEF Filled
  <2>3. /\ held'[p]["local"] = Nothing
        /\ \A place \in Place \ {"local"} : held'[p][place] = held[p][place]
    BY <1>1, <1>2, <2>1 DEF Hold
  <2>4. Owned(p)'
    BY <1>1, <1>2, <2>1, <2>2, OwnedClosing DEF At
  <2>5. OthersEmpty(p)'
    BY <1>1, <2>2, <2>3 DEF OthersEmpty
  <2> QED
    BY <1>2, <1>3, <2>2, <2>3, <2>4, <2>5 DEF ProcessInv, At
<1>9. CASE Listen(p)
  <2> DEFINE handle == [held[p]["local"] EXCEPT !.unlinks = TRUE]
  <2>1. /\ step[p] = "listen" /\ step'[p] = "return"
        /\ next' = next /\ open' = open
        /\ held'[p] = [held[p] EXCEPT !["local"] = handle]
    BY <1>1, <1>9 DEF Listen, At, GoTo, Hold
  <2>2. Filled(p) = Made(p) \cup {"local"} /\ Filled(p)' = Filled(p)
    BY <2>1 DEF Filled, Made
  <2>3. handle.sockFd = held[p]["local"].sockFd
    <3>1. held[p]["local"] \in Handle
      BY <1>1, <1>2
    <3> QED
      BY <3>1 DEF Handle
  <2> HIDE DEF handle
  <2>4. /\ \A place \in Place \ {"local"} : held'[p][place] = held[p][place]
        /\ \A place \in Place : held'[p][place].sockFd = held[p][place].sockFd
    BY <1>1, <1>2, <2>1, <2>3
  <2>5. FdsOf(held'[p]) = FdsOf(held[p]) /\ (Distinct(held[p]) => Distinct(held'[p]))
    BY <2>4 DEF FdsOf, Distinct
  <2>6. Owned(p)'
    BY <1>1, <2>1, <2>5 DEF Owned, At
  <2>7. OthersEmpty(p)'
    BY <1>1, <2>2, <2>4 DEF OthersEmpty
  <2> QED
    BY <1>2, <1>3, <2>1, <2>4, <2>6, <2>7 DEF ProcessInv, At
<1>10. CASE Return(p) \/ Install(p)
  <2>1. PICK from \in {"local", "data"}, to \in {"data", Making(p)} :
          /\ Move(p, from, to) /\ from # to
          /\ \/ from = "local" /\ to = "data" /\ step[p] = "return" /\ step'[p] = "install"
                /\ next' = next
             \/ from = "data" /\ to = Making(p) /\ step[p] = "install" /\ NextMember(p)
    BY <1>1, <1>2, <1>10 DEF Return, Install, At, GoTo
  <2>2. held'[p] = [held[p] EXCEPT ![to] = held[p][from], ![from] = Nothing]
    <3>1. held' = [held EXCEPT ![p] =
                     [held[p] EXCEPT ![to] = held[p][from], ![from] = Nothing]]
      BY <1>2, <2>1, MoveSlots
    <3> QED
      BY <1>1, <3>1
  <2>3. /\ held'[p][from] = Nothing /\ from \in Place /\ to \in Place
        /\ \A place \in Place \ {from, to} : held'[p][place] = held[p][place]
    BY <1>1, <1>2, <2>1, <2>2
  <2>4. /\ Filled(p) = Made(p) \cup {from}
        /\ Made(p) \cup {to} \subseteq Filled(p)'
        /\ step'[p] \in {"receive", "unlink", "socket", "install"}
    <3>1. CASE from = "local"
      BY <1>2, <2>1, <3>1 DEF Filled, Made
    <3>2. CASE from = "data"
      BY <1>2, <2>1, <3>2, NextFilled DEF Filled
    <3> QED
      BY <2>1, <3>1, <3>2
  <2>5. Owned(p)'
    BY <1>1, <2>1, <2>3, <2>4, OwnedMoving DEF At
  <2>6. OthersEmpty(p)'
    BY <1>1, <2>3, <2>4 DEF OthersEmpty
  <2>7. "clientSocket" \notin {from, to}
    BY <1>2, <2>1
  <2> QED
    BY <1>2, <1>3, <2>3, <2>4, <2>5, <2>6, <2>7 DEF ProcessInv, At
<1> QED
  BY <1>4, <1>5, <1>6, <1>7, <1>8, <1>9, <1>10 DEF ServerSetup, SocketSetup

LEMMA IterationInv ==
    ASSUME TypeOK, NEW p \in Process, ProcessInv(p), Iteration(p)
    PROVE  ProcessInv(p)'
<1>1. /\ step \in [Process -> Step] /\ held \in [Process -> [Place -> Handle]]
      /\ Owned(p) /\ OthersEmpty(p) /\ ConnectionsHaveNoPath(p)
  BY DEF TypeOK, ProcessInv
<1>2. /\ "data" \in Place /\ "clientSocket" \in Place /\ Member \subseteq Place
      /\ {"local", "data", "clientSocket"} \cap Member = {}
  BY SetupFacts
<1>3. CASE Accept(p)
  <2>1. PICK fd \in Fd : Opens(p, fd) /\ Hold(p, "data", [sockFd |-> fd, unlinks |-> FALSE])
    BY <1>3 DEF Accept
  <2>2. step[p] = "receive" /\ step'[p] = "adopt"
    BY <1>1, <1>3 DEF Accept, At, GoTo
  <2>3. Filled(p) = Member \cup {"clientSocket"}
        /\ Filled(p)' = Member \cup {"clientSocket", "data"}
    BY <2>2 DEF Filled
  <2>4. held[p]["data"] = Nothing
    BY <1>1, <1>2, <2>3 DEF OthersEmpty
  <2>5. Owned(p)'
    BY <1>1, <1>2, <2>1, <2>2, <2>4, OwnedOpening DEF At
  <2>6. /\ held'[p]["data"] = [sockFd |-> fd, unlinks |-> FALSE]
        /\ \A place \in Place \ {"data"} : held'[p][place] = held[p][place]
    BY <1>1, <1>2, <2>1 DEF Hold
  <2>7. OthersEmpty(p)'
    BY <1>1, <2>3, <2>6 DEF OthersEmpty
  <2>8. ConnectionsHaveNoPath(p)'
    BY <1>1, <1>2, <2>6 DEF ConnectionsHaveNoPath
  <2> QED
    BY <2>5, <2>7, <2>8 DEF ProcessInv
<1>4. CASE Adopt(p)
  <2>1. /\ Move(p, "data", "clientSocket")
        /\ step[p] = "adopt" /\ step'[p] = "accepted"
    BY <1>1, <1>4 DEF Adopt, At, GoTo
  <2>2. held'[p] = [held[p] EXCEPT !["clientSocket"] = held[p]["data"], !["data"] = Nothing]
    <3>1. held' = [held EXCEPT ![p] =
              [held[p] EXCEPT !["clientSocket"] = held[p]["data"], !["data"] = Nothing]]
      BY <1>2, <2>1, MoveSlots
    <3> QED
      BY <1>1, <3>1
  <2>3. /\ held'[p]["data"] = Nothing /\ held'[p]["clientSocket"] = held[p]["data"]
        /\ \A place \in Place \ {"data", "clientSocket"} : held'[p][place] = held[p][place]
    BY <1>1, <1>2, <2>2
  <2>4. Filled(p) = Member \cup {"clientSocket", "data"}
        /\ Filled(p)' = Member \cup {"clientSocket"}
    BY <2>1 DEF Filled
  <2>5. Owned(p)'
    BY <1>1, <1>2, <2>1, OwnedMoving DEF At
  <2>6. OthersEmpty(p)'
    BY <1>1, <2>3, <2>4 DEF OthersEmpty
  <2>7. ConnectionsHaveNoPath(p)'
    BY <1>1, <2>1, <2>3 DEF ConnectionsHaveNoPath, At
  <2> QED
    BY <2>5, <2>6, <2>7 DEF ProcessInv
<1>5. CASE ReceiveAgain(p) \/ ReceiveDone(p)
  <2>1. /\ held' = held /\ open' = open
        /\ step[p] \in {"receive", "accepted"} /\ step'[p] \in {"receive", "answer"}
    BY <1>1, <1>5 DEF ReceiveAgain, ReceiveDone, At, GoTo
  <2>2. Filled(p)' = Filled(p)
    BY <2>1 DEF Filled
  <2> QED
    BY <1>1, <2>1, <2>2 DEF ProcessInv, Owned, OthersEmpty, ConnectionsHaveNoPath, At
<1>6. CASE Answer(p)
  <2>1. /\ Hold(p, "clientSocket", Nothing)
        /\ open' = [open EXCEPT ![p] = @ \ {held[p]["clientSocket"].sockFd}]
        /\ step[p] = "answer" /\ step'[p] = "receive"
    BY <1>1, <1>6 DEF Answer, At, GoTo
  <2>2. /\ held'[p]["clientSocket"] = Nothing
        /\ \A place \in Place \ {"clientSocket"} : held'[p][place] = held[p][place]
    BY <1>1, <1>2, <2>1 DEF Hold
  <2>3. Filled(p)' = Filled(p)
    BY <2>1 DEF Filled
  <2>4. Owned(p)'
    BY <1>1, <1>2, <2>1, OwnedClosing DEF At
  <2>5. OthersEmpty(p)' /\ ConnectionsHaveNoPath(p)'
    BY <1>1, <2>1, <2>2, <2>3, NothingType DEF OthersEmpty, ConnectionsHaveNoPath, At
  <2> QED
    BY <2>4, <2>5 DEF ProcessInv
<1> QED
  BY <1>3, <1>4, <1>5, <1>6 DEF Iteration

LEMMA EmptyFds ==
    ASSUME NEW h, h = [place \in Place |-> Nothing]
    PROVE  /\ FdsOf(h) = {} /\ Distinct(h)
           /\ \A place \in Place : h[place] = Nothing
           /\ ~h["clientSocket"].unlinks
BY NothingType, SetupFacts DEF FdsOf, Distinct

LEMMA OwnershipNext == TypeOK /\ OwnershipInv /\ [Next]_vars => TypeOK' /\ OwnershipInv'
<1> SUFFICES ASSUME TypeOK, OwnershipInv, [Next]_vars PROVE TypeOK' /\ OwnershipInv'
  OBVIOUS
<1>1. CASE UNCHANGED vars
  BY <1>1 DEF vars, TypeOK, OwnershipInv, ProcessInv, Owned, OthersEmpty,
              ConnectionsHaveNoPath, Filled, Made, At
<1>2. ASSUME NEW p \in Process,
             Start(p) \/ Kill(p) \/ ServerSetup(p) \/ SocketSetup(p) \/ Iteration(p)
      PROVE  TypeOK' /\ OwnershipInv'
  <2>1. Slots(p) /\ TypeOK'
    BY <1>2, ActionSlots
  <2>2. \A q \in Process \ {p} : ProcessInv(q)'
    BY <2>1, Untouched DEF OwnershipInv
  <2>3. ProcessInv(p)
    BY DEF OwnershipInv
  <2>4. CASE Start(p)
    <3>1. /\ step[p] = "off" /\ step'[p] = "socket" /\ held' = held /\ open' = open
      BY <2>4 DEF Start, At, GoTo, TypeOK
    <3>2. Filled(p) = {}
      BY <3>1 DEF Filled
    <3> QED
      BY <2>1, <2>2, <2>3, <3>1, <3>2
         DEF OwnershipInv, ProcessInv, Owned, OthersEmpty, ConnectionsHaveNoPath, At
  <2>5. CASE Kill(p)
    <3>1. /\ step'[p] = "off" /\ open'[p] = {}
          /\ held'[p] = [place \in Place |-> Nothing]
      BY <2>5 DEF Kill, GoTo, TypeOK
    <3>2. ProcessInv(p)'
      BY <3>1, EmptyFds
         DEF ProcessInv, Owned, OthersEmpty, ConnectionsHaveNoPath, At
    <3> QED
      BY <2>1, <2>2, <3>2 DEF OwnershipInv
  <2>6. CASE ServerSetup(p) \/ SocketSetup(p)
    BY <2>1, <2>2, <2>3, <2>6, SetupInv DEF OwnershipInv
  <2>7. CASE Iteration(p)
    BY <2>1, <2>2, <2>3, <2>7, IterationInv DEF OwnershipInv
  <2> QED
    BY <1>2, <2>4, <2>5, <2>6, <2>7
<1> QED
  BY <1>1, <1>2 DEF Next

-----------------------------------------------------------------------------
(* The path.                                                               *)

LEMMA TurnNext == TypeOK /\ TurnInv /\ [Next]_vars => TurnInv'
<1> SUFFICES ASSUME TypeOK, TurnInv, [Next]_vars PROVE TurnInv'
  OBVIOUS
<1>1. CASE UNCHANGED vars
  BY <1>1 DEF vars, TurnInv, At
<1>2. ASSUME NEW p \in Process,
             Start(p) \/ Kill(p) \/ ServerSetup(p) \/ SocketSetup(p) \/ Iteration(p)
      PROVE  TurnInv'
  <2>1. step \in [Process -> Step] /\ next \in [Process -> 1 .. 5] /\ Last = 5
    BY SetupFacts DEF TypeOK
  <2>2. \A q \in Process \ {p} : step'[q] = step[q] /\ next'[q] = next[q]
    BY <1>2, ActionSlots, Untouched
  <2>3. ASSUME NextMember(p)
        PROVE  step'[p] # "off" /\ (step'[p] = "unlink" => next'[p] = Last)
    <3>1. CASE next[p] = 5
      BY <2>1, <2>3, <3>1, NextMemberSlots
    <3>2. CASE next[p] = 4
      BY <2>1, <2>3, <3>2, NextMemberSlots
    <3>3. CASE next[p] \in 1 .. 3
      BY <2>1, <2>3, <3>3, NextMemberSlots
    <3> QED
      BY <2>1, <3>1, <3>2, <3>3
  <2>4. /\ step'[p] = "off" => next'[p] = 1
        /\ step'[p] = "unlink" => next'[p] = Last
    <3>1. CASE Kill(p)
      BY <2>1, <3>1 DEF Kill, GoTo
    <3>2. CASE \/ SocketFails(p) \/ DestroyReceiver(p) \/ BindServerFails(p)
               \/ ListenFails(p) \/ Install(p)
      BY <2>3, <3>2 DEF SocketFails, DestroyReceiver, BindServerFails, ListenFails,
                        DropServer, Install
    <3>3. CASE \/ Start(p) \/ Unlink(p) \/ Socket(p) \/ BindReceiver(p)
               \/ BindReceiverFails(p) \/ BindServer(p) \/ Listen(p) \/ Return(p)
               \/ Iteration(p)
      <4>1. \E s \in Step \ {"off", "unlink"} : step' = [step EXCEPT ![p] = s]
        BY <3>3 DEF Start, Unlink, Socket, BindReceiver, BindReceiverFails, BindServer,
                    Listen, Return, Iteration, Accept, Adopt, ReceiveAgain, ReceiveDone,
                    Answer, GoTo, Step, Serving
      <4> QED
        BY <2>1, <4>1
    <3> QED
      BY <1>2, <3>1, <3>2, <3>3 DEF ServerSetup, SocketSetup
  <2> QED
    BY <2>2, <2>4 DEF TurnInv, At
<1> QED
  BY <1>1, <1>2 DEF Next

LEMMA PathNext ==
    TypeOK /\ OwnershipInv /\ TurnInv /\ PathInv /\ [Next]_vars => PathInv'
<1> SUFFICES ASSUME TypeOK, OwnershipInv, TurnInv, PathInv, [Next]_vars, undisturbed'
             PROVE  \/ path' \in listening'
                    \/ path' \in Process /\ At(path, "listen")'
                    \/ path' = "absent" /\ \E p \in Process : MakesServer(p)'
                    \/ \A p \in Process : BeforeServer(p)'
  BY DEF PathInv
<1>1. CASE UNCHANGED vars
  BY <1>1 DEF vars, PathInv, MakesServer, BeforeServer, At
<1>2. ASSUME NEW p \in Process,
             Start(p) \/ Kill(p) \/ ServerSetup(p) \/ SocketSetup(p) \/ Iteration(p)
      PROVE  \/ path' \in listening'
             \/ path' \in Process /\ At(path, "listen")'
             \/ path' = "absent" /\ \E q \in Process : MakesServer(q)'
             \/ \A q \in Process : BeforeServer(q)'
  <2>1. /\ step \in [Process -> Step] /\ next \in [Process -> 1 .. 5]
        /\ ProcessInv(p) /\ Last = 5
    BY SetupFacts DEF TypeOK, OwnershipInv
  <2>2. \A q \in Process \ {p} : step'[q] = step[q] /\ next'[q] = next[q]
    BY <1>2, ActionSlots, Untouched
  <2>3. Making(p) = "unixDomainServer" <=> next[p] = Last
    BY <2>1, SetupFacts DEF Making
  (* A step that leaves the path to its listener, or to one that is to be. *)
  <2>4. ASSUME undisturbed, path' = path, listening \subseteq listening',
               At(p, "listen") => path' \in listening' \/ path # p,
               MakesServer(p) => MakesServer(p)' \/ path # "absent",
               BeforeServer(p) => BeforeServer(p)'
        PROVE  \/ path' \in listening'
               \/ path' \in Process /\ At(path, "listen")'
               \/ path' = "absent" /\ \E q \in Process : MakesServer(q)'
               \/ \A q \in Process : BeforeServer(q)'
    <3>1. CASE path \in listening
      BY <2>4, <3>1
    <3>2. CASE path \in Process /\ At(path, "listen")
      BY <2>2, <2>4, <3>2 DEF At
    <3>3. CASE path = "absent" /\ \E q \in Process : MakesServer(q)
      BY <2>2, <2>4, <3>3 DEF MakesServer
    <3>4. CASE \A q \in Process : BeforeServer(q)
      BY <2>2, <2>4, <3>4 DEF BeforeServer
    <3> QED
      BY <2>4, <3>1, <3>2, <3>3, <3>4 DEF PathInv
  (* A member whose turn is over.                                          *)
  <2>5. ASSUME NextMember(p), next[p] # Last
        PROVE  BeforeServer(p)'
    <3>1. next'[p] = next[p] + 1 /\ next[p] \in 1 .. 4
      BY <2>1, <2>5, NextMemberSlots DEF TypeOK
    <3>2. CASE next[p] = 4
      BY <2>1, <2>5, <3>2, NextMemberSlots DEF BeforeServer
    <3>3. CASE next[p] \in 1 .. 3
      <4>1. step'[p] = "socket"
        BY <2>1, <2>5, <3>3, NextMemberSlots
      <4> QED
        BY <2>1, <3>1, <3>3, <4>1 DEF BeforeServer
    <3> QED
      BY <3>1, <3>2, <3>3
  <2>6. CASE Start(p)
    <3>1. step[p] = "off" /\ step'[p] = "socket" /\ next' = next /\ path' = path
          /\ listening' = listening /\ undisturbed
      BY <2>1, <2>6 DEF Start, At, GoTo
    <3>2. next[p] # Last
      BY <2>1, <3>1 DEF TurnInv, At
    <3> QED
      BY <2>1, <2>4, <3>1, <3>2 DEF At, MakesServer, BeforeServer
  <2>7. CASE Unlink(p)
    <3>1. step'[p] = "socket" /\ next'[p] = Last /\ path' = "absent"
      BY <2>1, <2>7 DEF Unlink, At, GoTo, TurnInv
    <3> QED
      BY <3>1, <2>1 DEF MakesServer
  <2>8. CASE Socket(p)
    <3>1. /\ step[p] = "socket" /\ next' = next /\ path' = path
          /\ step'[p] = IF Sends(Making(p)) THEN "return" ELSE "bind"
          /\ listening' = listening /\ undisturbed
      BY <2>1, <2>8 DEF Socket, At, GoTo
    <3>2. next[p] = Last => ~Sends(Making(p))
      BY <2>3 DEF Sends
    <3> QED
      BY <2>1, <2>4, <3>1, <3>2 DEF At, MakesServer, BeforeServer
  <2>9. CASE SocketFails(p)
    <3>1. /\ step[p] = "socket" /\ NextMember(p) /\ next[p] # Last /\ path' = path
          /\ listening' = listening /\ undisturbed
      BY <2>3, <2>9 DEF SocketFails, At
    <3> QED
      BY <2>4, <2>5, <3>1 DEF At, MakesServer
  <2>10. CASE BindReceiver(p) \/ BindReceiverFails(p)
    <3>1. /\ step[p] = "bind" /\ next[p] # Last /\ step'[p] \in {"return", "destroy"}
          /\ next' = next /\ path' = path /\ listening' = listening /\ undisturbed
      BY <2>1, <2>3, <2>10 DEF BindReceiver, BindReceiverFails, At, GoTo
    <3> QED
      BY <2>4, <3>1 DEF At, MakesServer, BeforeServer
  <2>11. CASE DestroyReceiver(p)
    <3>1. /\ step[p] = "destroy" /\ NextMember(p)
          /\ path' = path /\ listening' = listening /\ undisturbed
      BY <2>11 DEF DestroyReceiver, At
    <3> QED
      BY <2>4, <2>5, <3>1 DEF At, MakesServer, BeforeServer
  <2>12. CASE BindServer(p)
    <3>1. path' = p /\ step'[p] = "listen"
      BY <2>1, <2>12 DEF BindServer, GoTo
    <3> QED
      BY <3>1 DEF At
  <2>13. CASE BindServerFails(p)
    <3>1. /\ step[p] = "bind" /\ next[p] = Last /\ path # "absent"
          /\ path' = path /\ listening' = listening /\ undisturbed
      BY <2>3, <2>13 DEF BindServerFails, At
    <3> QED
      BY <2>4, <3>1 DEF At, BeforeServer
  <2>14. CASE Listen(p)
    <3>1. /\ step[p] = "listen" /\ path' = path /\ undisturbed
          /\ listening' = listening \cup {p}
      BY <2>14 DEF Listen, At
    <3> QED
      BY <2>4, <3>1 DEF At, MakesServer, BeforeServer
  <2>15. CASE Return(p)
    <3>1. /\ step[p] = "return" /\ step'[p] = "install" /\ next' = next
          /\ Move(p, "local", "data") /\ listening' = listening /\ undisturbed
      BY <2>1, <2>15 DEF Return, At, GoTo
    <3>2. "data" \notin Filled(p)
      <4>1. Filled(p) \subseteq Member \cup {"local"}
        BY <2>1, <3>1, SetupFacts DEF Filled, Made
      <4> QED
        BY <4>1, SetupFacts
    <3>3. ~held[p]["data"].unlinks
      BY <2>1, <3>2, NothingType, SetupFacts DEF ProcessInv, OthersEmpty
    <3>4. path' = path
      BY <3>1, <3>3, MoveSlots, SetupFacts
    <3> QED
      BY <2>4, <3>1, <3>4 DEF At, MakesServer, BeforeServer
  <2>16. CASE Install(p)
    <3>1. /\ step[p] = "install" /\ NextMember(p)
          /\ Move(p, "data", Making(p)) /\ listening' = listening /\ undisturbed
      BY <2>16 DEF Install, At
    <3>2. Making(p) \in Place \ Filled(p) /\ Making(p) # "data" /\ "data" \in Place
      <4>1. next[p] \in 1 .. 5 /\ Making(p) = Setup[next[p]]
        BY <2>1 DEF Making
      <4>2. Filled(p) = Made(p) \cup {"data"}
        BY <3>1 DEF Filled
      <4>3. ASSUME NEW i \in 1 .. next[p] - 1 PROVE Setup[i] # Setup[next[p]]
        <5>1. i \in 1 .. 5 /\ i # next[p]
          BY <4>1
        <5>2. \A k, l \in 1 .. 5 : Setup[k] = Setup[l] => k = l
          BY SetupFacts
        <5> QED
          BY <4>1, <5>1, <5>2
      <4> QED
        BY <4>1, <4>2, <4>3, SetupFacts DEF Made
    <3>3. ~held[p][Making(p)].unlinks
      BY <2>1, <3>2, NothingType DEF ProcessInv, OthersEmpty
    <3>4. path' = path
      BY <3>1, <3>2, <3>3, MoveSlots
    <3> QED
      BY <2>4, <2>5, <3>1, <3>4 DEF At, MakesServer, BeforeServer
  <2>17. CASE Iteration(p)
    <3>1. /\ step[p] \in Serving
          /\ listening' = listening /\ undisturbed
      BY <2>17 DEF Iteration, Accept, Adopt, ReceiveAgain, ReceiveDone, Answer, At, Serving
    <3>2. path' = path
      <4>1. CASE Adopt(p)
        <5>1. ~held[p]["clientSocket"].unlinks
          BY <2>1 DEF ProcessInv, ConnectionsHaveNoPath
        <5>2. Move(p, "data", "clientSocket")
          BY <4>1 DEF Adopt
        <5> QED
          BY <5>1, <5>2, MoveSlots, SetupFacts
      <4>2. CASE Accept(p) \/ ReceiveAgain(p) \/ ReceiveDone(p) \/ Answer(p)
        BY <4>2 DEF Accept, ReceiveAgain, ReceiveDone, Answer
      <4> QED
        BY <2>17, <4>1, <4>2 DEF Iteration
    <3> QED
      BY <2>4, <3>1, <3>2 DEF At, MakesServer, BeforeServer, Serving
  <2>18. CASE Kill(p) \/ ListenFails(p)
    BY <2>18 DEF Kill, ListenFails
  <2> QED
    BY <1>2, <2>6, <2>7, <2>8, <2>9, <2>10, <2>11, <2>12, <2>13, <2>14, <2>15, <2>16,
       <2>17, <2>18
       DEF ServerSetup, SocketSetup
<1> QED
  BY <1>1, <1>2 DEF Next

-----------------------------------------------------------------------------
(* The theorems.                                                           *)

LEMMA SocketInit == Init => TypeOK /\ OwnershipInv /\ TurnInv /\ PathInv
<1> SUFFICES ASSUME Init PROVE TypeOK /\ OwnershipInv /\ TurnInv /\ PathInv
  OBVIOUS
<1>1. TypeOK
  BY NothingType, SetupFacts DEF Init, TypeOK, Step
<1>2. OwnershipInv
  <2> SUFFICES ASSUME NEW p \in Process PROVE ProcessInv(p)
    BY DEF OwnershipInv
  <2>1. step[p] = "off" /\ open[p] = {} /\ held[p] = [place \in Place |-> Nothing]
    BY DEF Init
  <2> QED
    BY <2>1, EmptyFds DEF ProcessInv, Owned, OthersEmpty, ConnectionsHaveNoPath, At
<1>3. TurnInv /\ PathInv
  BY DEF Init, TurnInv, PathInv, BeforeServer, At
<1> QED
  BY <1>1, <1>2, <1>3

(* A daemon leaks no descriptor, and no object uses or closes another's,   *)
(* whichever factories fail, through every move and every connection       *)
(* (IPMulticastReceiver.hpp:50-126, UnixSocket.hpp:39-70).                 *)
THEOREM Ownership == Spec => []DescriptorsOwned
<1>1. OwnershipInv => DescriptorsOwned
  BY DEF OwnershipInv, ProcessInv, Owned, DescriptorsOwned, Distinct, FdsOf, Fds
<1> QED
  BY <1>1, SocketInit, OwnershipNext, PTL DEF Spec

(* However many daemons start on a machine, in whatever interleaving of    *)
(* their unlinks, binds and listens (UnixSocket.cpp:20-36), the path then  *)
(* leads to one that listens.                                              *)
THEOREM Listener == Spec => []StartsLeaveAListener
<1>1. PathInv => StartsLeaveAListener
  <2> SUFFICES ASSUME PathInv, undisturbed,
                      \A p \in Process : step[p] \in Serving \cup {"off"},
                      \E p \in Process : step[p] # "off"
               PROVE  path \in listening
    BY DEF StartsLeaveAListener
  <2> QED
    BY DEF PathInv, MakesServer, BeforeServer, At, Serving
<1> QED
  BY <1>1, SocketInit, OwnershipNext, TurnNext, PathNext, PTL DEF Spec
=============================================================================
