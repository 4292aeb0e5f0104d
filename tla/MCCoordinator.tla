---------------------------- MODULE MCCoordinator ----------------------------
(***************************************************************************)
(* Small instances of Coordinator for TLC.                                 *)
(***************************************************************************)
EXTENDS Coordinator, TLC

\* IDs are opaque and goroutines anonymous.
Symmetric == Permutations(Requests) \cup Permutations(Targets) \cup Permutations(Dispatchers)

=============================================================================
