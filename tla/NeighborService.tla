--------------------------- MODULE NeighborService ---------------------------
(***************************************************************************)
(* What the user of the CLI program gets, without the socket, the          *)
(* connections and the iterations in between: a run of the program that    *)
(* succeeds has printed what the daemon knew at one moment between its     *)
(* request and its end.                                                    *)
(*                                                                         *)
(* The daemon may know anything from one moment to the next, nothing after *)
(* a restart; a run may fail at any moment.                                *)
(***************************************************************************)
EXTENDS Sequences

CONSTANTS
    Client,    \* runs of the program, one at a time each
    Neighbor   \* what there is to know of the neighbors

VARIABLES
    run,    \* where each run is
    reply,  \* what it was sent: nothing, or one set of neighbors
    known   \* what the daemon knows

vars == <<run, reply, known>>

Run == {"idle", "waiting", "answered", "failed"}

Init ==
    /\ run = [c \in Client |-> "idle"]
    /\ reply = [c \in Client |-> <<>>]
    /\ known = {}

Becomes(c, state) == run' = [run EXCEPT ![c] = state]

Ask(c) ==
    /\ run[c] = "idle" /\ Becomes(c, "waiting")
    /\ UNCHANGED <<reply, known>>

(* The moment the answer is taken: the run has asked, and was not answered *)
(* before.                                                                 *)
Reply(c) ==
    /\ run[c] = "waiting" /\ reply[c] = <<>>
    /\ reply' = [reply EXCEPT ![c] = <<known>>]
    /\ UNCHANGED <<run, known>>

Succeed(c) ==
    /\ run[c] = "waiting" /\ reply[c] # <<>> /\ Becomes(c, "answered")
    /\ UNCHANGED <<reply, known>>

Fail(c) ==
    /\ run[c] \in {"idle", "waiting"} /\ Becomes(c, "failed")
    /\ UNCHANGED <<reply, known>>

Again(c) ==
    /\ run[c] \in {"answered", "failed"} /\ Becomes(c, "idle")
    /\ reply' = [reply EXCEPT ![c] = <<>>]
    /\ UNCHANGED known

Learn ==
    /\ known' \in SUBSET Neighbor
    /\ UNCHANGED <<run, reply>>

Next ==
    \/ \E c \in Client : Ask(c) \/ Reply(c) \/ Succeed(c) \/ Fail(c) \/ Again(c)
    \/ Learn

Spec == Init /\ [][Next]_vars
=============================================================================
