------------------------- MODULE RunnerRegistration -------------------------
(***************************************************************************)
(* The registrar of a runner (internal/agent/registration.go) beside its   *)
(* build queue: one goroutine registers until CI accepts, then posts a     *)
(* heartbeat per refresh token or tick.  Each post carries the load read   *)
(* when it is built; CI keeps the last one.  The tunnel is off, so         *)
(* AcceptingBuilds is the pause flag alone.                                *)
(***************************************************************************)
EXTENDS RunnerService

VARIABLES
  registrar,    \* where its goroutine is
  registration, \* agent.registrationStatus.State
  payload,      \* the load in the post being made
  target        \* outside the process: the load CI has on record, or None

registrarVars == <<registrar, registration, payload, target>>
regVars == <<vars, registrarVars>>

\* Agent.buildLoad, read under buildsMu.
Load == [accepting |-> accepting,
         active    |-> IF active = None THEN 0 ELSE 1,
         queued    |-> Len(queue)]

RegInit ==
  /\ Init
  /\ registrar = "unregistered" /\ registration = "registering"
  /\ payload = None /\ target = None

RestUnchanged ==
  UNCHANGED <<phase, builds, active, queue, accepting, started, canceled, pc, result,
              record, reportStatus, attempt, stream, handler, toCancel, awaited, issue,
              ledger, receipts>>

\* RunHeartbeat receives from the refresh channel, or its ticker fires.
RefreshTaken ==
  /\ registrar = "idle"
  /\ refresh
  /\ refresh' = FALSE
  /\ registrar' = "beating"
  /\ RestUnchanged
  /\ UNCHANGED <<registration, payload, target>>

HeartbeatDue ==
  /\ registrar = "idle"
  /\ registrar' = "beating"
  /\ RestUnchanged
  /\ UNCHANGED <<refresh, registration, payload, target>>

\* post reads the load and sends it: Register, or postHeartbeat.
PostBuilt ==
  /\ \/ registrar = "unregistered" /\ registrar' = "registering"
     \/ registrar = "beating" /\ registrar' = "posting"
  /\ payload' = Load
  /\ RestUnchanged
  /\ UNCHANGED <<refresh, registration, target>>

\* Mutant of PostSucceeds: tokens that came while the post was on its way are
\* taken as served by it.
PostSucceedsAndDrains ==
  /\ registrar \in {"registering", "posting"}
  /\ registrar' = "idle"
  /\ registration' = "registered"
  /\ target' = payload
  /\ payload' = None
  /\ refresh' = FALSE
  /\ RestUnchanged

\* CI answers 2xx and recordRegistrationPost notes it.
PostSucceeds ==
  /\ registrar \in {"registering", "posting"}
  /\ registrar' = "idle"
  /\ registration' = "registered"
  /\ target' = payload
  /\ payload' = None
  /\ RestUnchanged
  /\ UNCHANGED refresh

\* The post fails, having reached CI or not: RegisterWithRetry tries again,
\* RunHeartbeat goes back to waiting for a token or a tick.
PostFails ==
  /\ \/ registrar = "registering" /\ registrar' = "unregistered" /\ registration' = "failed"
     \/ registrar = "posting" /\ registrar' = "idle" /\ registration' = "heartbeat_failed"
  /\ target' \in {target, payload}
  /\ payload' = None
  /\ RestUnchanged
  /\ UNCHANGED refresh

RegNext ==
  \/ Next /\ UNCHANGED registrarVars
  \/ RefreshTaken
  \/ HeartbeatDue
  \/ PostBuilt
  \/ PostSucceeds
  \/ PostFails

RegSpec == RegInit /\ [][RegNext]_regVars

-----------------------------------------------------------------------------
\* A handler that has changed the load and not yet asked for a refresh.
RefreshOwed == \E c \in Handlers : handler[c].at \in {"recording", "refreshing"}

\* No change of the load is lost between the queue and the registrar: while
\* the registration shows as registered, the load CI has on record is the
\* current one, or a post, a token or a request for a token is under way.
AdvertisedLoadCurrent ==
  registration = "registered" /\ registrar = "idle" /\ ~refresh /\ ~RefreshOwed
    => target = Load

=============================================================================
