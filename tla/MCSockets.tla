----------------------------- MODULE MCSockets -----------------------------
(***************************************************************************)
(* The instance of SocketOwnership that TLC checks: three daemons on one   *)
(* machine, and one descriptor more than a daemon needs.                   *)
(***************************************************************************)
EXTENDS SocketOwnership, TLC

ProcessSymmetry == Permutations(Process)
=============================================================================
