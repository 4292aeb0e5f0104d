------------------------- MODULE MCCoordinatedBuild -------------------------
(***************************************************************************)
(* Small instances of CoordinatedBuild for TLC.                            *)
(***************************************************************************)
EXTENDS CoordinatedBuild, TLC

\* IDs are opaque, and so are the commands with their goroutines.
Symmetric == Permutations(Requests) \cup Permutations(Targets) \cup Permutations(Dispatchers)

=============================================================================
