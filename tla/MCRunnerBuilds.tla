--------------------------- MODULE MCRunnerBuilds ---------------------------
(***************************************************************************)
(* Small instances of RunnerBuilds and RunnerService for TLC.              *)
(***************************************************************************)
EXTENDS RunnerService, TLC

\* Build IDs are random and client handlers anonymous: no action or safety
\* property tells two of them apart.
Symmetric == Permutations(Builds) \cup Permutations(Requests) \cup Permutations(Clients)

\* The same for liveness, where TLC cannot use symmetry: builds are numbered,
\* issued in that order, each for the request of the same number.
InOrder ==
  \A b \in Issued : request[b] = b /\ \A x \in Builds : x < b => x \in Issued

\* A bound of the liveness run: clients are quiet while the runner drains, so
\* that only shutdownBuilds cancels then.
QuietDrain == phase = "draining" => \A c \in Clients : handler[c].at = "idle"

=============================================================================
