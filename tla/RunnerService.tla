---------------------------- MODULE RunnerService ---------------------------
(***************************************************************************)
(* RunnerBuilds implements BuildService.                                   *)
(***************************************************************************)
EXTENDS RunnerBuilds

\* What has become of a build: BuildRun.Status while the process that accepted
\* it lives, also when the run has been pruned; lost with the process.
Fate ==
  [b \in Builds |->
     CASE b \notin Issued                                       -> "absent"
       [] b \in Issued /\ b \notin builds /\ pc[b] = "none"      -> "lost"
       [] HasTerminalRecord(b)                                  -> record[b]
       [] b \in builds /\ ~HasTerminalRecord(b) /\ b \in started -> "running"
       [] OTHER                                                 -> "waiting"]

\* The builds about which the runner owes CI nothing any more.
OwedNothing == {b \in Builds : HasTerminalRecord(b) /\ reportStatus[b] # "pending"}

Service == INSTANCE BuildService WITH
  slot    <- active,
  line    <- queue,
  fate    <- Fate,
  settled <- OwedNothing

\* Every behaviour of the runner is one the service allows: builds start in
\* the order they were accepted, one at a time, each with one verdict, and a
\* build starts only when the report about the one before it is settled.
ServiceImplemented == Service!Spec

=============================================================================
