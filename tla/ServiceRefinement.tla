-------------------------- MODULE ServiceRefinement --------------------------
(***************************************************************************)
(* The daemon and the CLI programs implement NeighborService.              *)
(***************************************************************************)
EXTENDS NeighborDiscoverySystem

(* A program that has connected but not asked has not begun.               *)
RunOf(state) == IF state = "connected" THEN "idle" ELSE state

Service == INSTANCE NeighborService WITH
    Neighbor <- NetInterface,
    run <- [c \in Client |-> RunOf(clientState[c])],
    reply <- answers,
    known <- TS!Data(neighbors)

(* What a program prints is what the daemon's table held at one moment     *)
(* between its request and its end, and it is sent nothing else: through   *)
(* the backlog, the one clientSocket that later connections and requests   *)
(* reuse, timeouts, kills and restarts (lines 231-254 and 301-311).        *)
ServiceImplemented == Service!Spec
=============================================================================
