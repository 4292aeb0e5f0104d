---------------------------- MODULE Coordinator ----------------------------
(***************************************************************************)
(* The dispatch state of the reference coordinator,                        *)
(* internal/coordinator/server.go: target leases, active dispatches, queue *)
(* reservations, results, and the state file.                              *)
(*                                                                         *)
(* Every POST /transwarp/dispatches runs dispatchBuild in a goroutine of   *)
(* its own; runners register, heartbeat, deregister and post results at    *)
(* any time.  All of them share four maps under server.mu; an action is    *)
(* one critical section of it, or one exchange with a runner between two.  *)
(*                                                                         *)
(* A runner is a party outside: it accepts a request or rejects it, answers*)
(* a repeated request with the build it has, ends its build, and posts the *)
(* result.  A build is named by its request and its target.  How builds    *)
(* end, cancels, reconnections to an accepted dispatch and the clients are *)
(* the subject of CoordinatedBuild, which extends this module.             *)
(***************************************************************************)
EXTENDS Integers, FiniteSets

CONSTANTS
  Requests,          \* request_id values, each always with the same payload
  Targets,           \* machine_id values
  Dispatchers,       \* goroutines that serve dispatchBuild
  None,
  QueueLimit,        \* QueuedBuildLimit of every target
  Loads,             \* the queue lengths that targets advertise
  Leaving,           \* how targets go away: they "deregister", their leases "expire"
  AnswersMayBeLost,  \* whether calls to runners, and clients, may break off
  StatePath,         \* whether -state-path is set
  SaveMayFail,       \* whether saveStateLocked may fail
  MayRestart         \* whether the coordinator may be restarted

ASSUME CoordinatorAssumption ==
  /\ None \notin Targets \cup Requests
  /\ None \notin [target : Targets \cup {None}, accepted : BOOLEAN]
  /\ QueueLimit \in Nat \ {0}
  /\ Loads \subseteq 0..QueueLimit
  /\ Leaving \subseteq {"deregister", "expire"}
  /\ {AnswersMayBeLost, StatePath, SaveMayFail, MayRestart} \subseteq BOOLEAN

VARIABLES
  targets,      \* server.targets: the advertised queue length and whether the lease runs, or None
  active,       \* server.active: selected target and whether its build is known, or None
  reservations, \* server.targetReservations
  results,      \* server.results: the target that built the request, or None
  dispatcher,   \* the goroutines of dispatchBuild: where they are, and their locals
  disk,         \* the state file
  fate,         \* outside: what has become of a build at its runner
  report        \* outside: how far the runner's result callback is

server == <<targets, active, reservations, results, disk>>
runner == <<fate, report>>
vars   == <<server, dispatcher, runner>>

-----------------------------------------------------------------------------
Idle == [at |-> "idle", request |-> None, untried |-> {}, target |-> None]
Fresh == [target |-> None, accepted |-> FALSE]  \* activeDispatch{Request: request}

Here(c, r, where) == dispatcher[c].at = where /\ dispatcher[c].request = r
Goto(c, where) == dispatcher' = [dispatcher EXCEPT ![c].at = where]
\* The same where the loop over the targets is left: its locals are dead.
Leave(c, where) ==
  dispatcher' = [dispatcher EXCEPT ![c] = [@ EXCEPT !.at = where, !.untried = {}, !.target = None]]

\* targetLocked, and targetLoadError of targetWithReservationsLocked.  A target
\* that is paused or no longer eligible is one with a full queue here.
Available(t) == targets[t] # None /\ targets[t].leased
HasRoom(t, reserved) == targets[t].queued + reserved[t] < QueueLimit

Builds(r, t)   == active[r] # None /\ active[r].target = t
Accepted(r, t) == Builds(r, t) /\ active[r].accepted

\* Mutant of Released: the count is not kept from going below zero.
ReleasedBelowZero(reserved, t) ==
  IF t = None THEN reserved ELSE [reserved EXCEPT ![t] = @ - 1]

\* releaseTargetReservationLocked
Released(reserved, t) ==
  IF t = None THEN reserved
  ELSE [reserved EXCEPT ![t] = IF @ <= 1 THEN 0 ELSE @ - 1]

\* releaseActiveDispatchLocked
ReleaseDispatch(r) ==
  /\ reservations' = IF active[r] = None THEN reservations
                     ELSE Released(reservations, active[r].target)
  /\ active' = [active EXCEPT ![r] = None]

\* Mutant of DropTargets: the reservations of the dropped dispatches stay.
DropTargetsOnly(T) ==
  LET dropped(t) == {r \in Requests : Builds(r, t) /\ ~active[r].accepted} IN
  /\ targets' = [t \in Targets |-> IF t \in T THEN None ELSE targets[t]]
  /\ active' = [r \in Requests |-> IF \E t \in T : r \in dropped(t) THEN None ELSE active[r]]
  /\ UNCHANGED reservations

\* delete(server.targets, id) and releaseUnacceptedDispatchesForTargetLocked(id)
\* for every id of T.
DropTargets(T) ==
  LET dropped(t) == {r \in Requests : Builds(r, t) /\ ~active[r].accepted} IN
  /\ targets' = [t \in Targets |-> IF t \in T THEN None ELSE targets[t]]
  /\ active' = [r \in Requests |-> IF \E t \in T : r \in dropped(t) THEN None ELSE active[r]]
  /\ reservations' =
       [t \in Targets |->
          IF t \notin T THEN reservations[t]
          ELSE IF Cardinality(dropped(t)) >= reservations[t] THEN 0
          ELSE reservations[t] - Cardinality(dropped(t))]

\* persistedActiveDispatches: the dispatches whose runner build is known.
Persisted(a) == [r \in Requests |-> IF a[r] # None /\ a[r].accepted THEN a[r] ELSE None]

\* saveStateLocked writes everything at once (temporary file and rename), or
\* fails and leaves the old file.  Without a state path nothing is written.
Save(ok) ==
  \/ ok /\ StatePath
        /\ disk' = [targets |-> targets', results |-> results', active |-> Persisted(active')]
  \/ ok /\ ~StatePath /\ UNCHANGED disk
  \/ ~ok /\ SaveMayFail /\ UNCHANGED disk

Init ==
  /\ targets = [t \in Targets |-> None]
  /\ active = [r \in Requests |-> None]
  /\ reservations = [t \in Targets |-> 0]
  /\ results = [r \in Requests |-> None]
  /\ dispatcher = [c \in Dispatchers |-> Idle]
  /\ disk = [targets |-> targets, results |-> results, active |-> active]
  /\ fate = [r \in Requests |-> [t \in Targets |-> "absent"]]
  /\ report = [r \in Requests |-> [t \in Targets |-> "none"]]

-----------------------------------------------------------------------------
\* Target lifecycle.

\* register, also the heartbeat's endpoint.
Register(t, queued) ==
  /\ targets' = [targets EXCEPT ![t] = [queued |-> queued, leased |-> TRUE]]
  /\ UNCHANGED <<active, reservations, results, dispatcher, runner>>
  /\ \E ok \in BOOLEAN : Save(ok)

Deregister(t) ==
  /\ "deregister" \in Leaving
  /\ DropTargets({t})
  /\ UNCHANGED <<results, dispatcher, runner>>
  /\ \E ok \in BOOLEAN : Save(ok)

\* Time passes LeaseExpiresAt.
LeaseRunsOut(t) ==
  /\ "expire" \in Leaving
  /\ Available(t)
  /\ targets' = [targets EXCEPT ![t].leased = FALSE]
  /\ UNCHANGED <<active, reservations, results, disk, dispatcher, runner>>

\* activeTargets: forget the targets whose lease is over, and save if any.
Expired == {t \in Targets : targets[t] # None /\ ~targets[t].leased}

PruneTargets ==
  /\ DropTargets(Expired)
  /\ UNCHANGED results
  /\ IF Expired = {} THEN UNCHANGED disk ELSE \E ok \in BOOLEAN : Save(ok)

\* listTargets
ListTargets ==
  /\ Expired # {}
  /\ PruneTargets
  /\ UNCHANGED <<dispatcher, runner>>

-----------------------------------------------------------------------------
\* dispatchBuild

\* beginDispatch.  A request with a result is answered with it, one that is
\* active with a reconnection or a conflict; nothing changes then.
BeginDispatch(c, r) ==
  /\ dispatcher[c] = Idle
  /\ results[r] = None
  /\ active[r] = None
  /\ active' = [active EXCEPT ![r] = Fresh]
  /\ dispatcher' = [dispatcher EXCEPT ![c] = [Idle EXCEPT !.at = "choosing", !.request = r]]
  /\ UNCHANGED <<targets, reservations, results, disk, runner>>

\* Mutant of DispatchTargets: without a target it returns before endDispatch is
\* deferred.
DispatchTargetsThenDefer(c) ==
  /\ dispatcher[c].at = "choosing"
  /\ PruneTargets
  /\ LET fit == {t \in Targets \ Expired : targets[t] # None /\ HasRoom(t, reservations')} IN
     \E chosen \in {fit, {}} :
       dispatcher' = [dispatcher EXCEPT
         ![c] = IF chosen = {} THEN Idle ELSE [@ EXCEPT !.untried = chosen, !.at = "reserving"]]
  /\ UNCHANGED runner

\* dispatchTargets: every target that can take the job, or the one the request
\* is pinned to.  Nothing is assumed of the order they are tried in: it also
\* depends on the advertised count of active builds.
DispatchTargets(c) ==
  /\ dispatcher[c].at = "choosing"
  /\ PruneTargets
  /\ LET fit == {t \in Targets \ Expired : targets[t] # None /\ HasRoom(t, reservations')} IN
     \E chosen \in {fit, {}} \cup {{t} : t \in fit} :
       dispatcher' = [dispatcher EXCEPT ![c].untried = chosen,
                                        ![c].at = IF chosen = {} THEN "ending" ELSE "reserving"]
  /\ UNCHANGED runner

\* reserveActiveDispatchTarget for the next target, and shouldTryNextReservationTarget.
Reserve(c, r, t) ==
  LET rest == dispatcher[c].untried \ {t}
      kept == Builds(r, t)
      freed == IF active[r] = None THEN reservations ELSE Released(reservations, active[r].target)
      taken == IF kept THEN Available(t)
               ELSE active[r] # None /\ Available(t) /\ HasRoom(t, freed)
  IN
  /\ Here(c, r, "reserving")
  /\ t \in dispatcher[c].untried
  /\ \/ taken
        /\ dispatcher' = [dispatcher EXCEPT ![c].at = "starting", ![c].untried = rest, ![c].target = t]
     \/ ~taken
        /\ dispatcher' = [dispatcher EXCEPT ![c].untried = rest,
                                            ![c].at = IF rest = {} THEN "ending" ELSE "reserving"]
  /\ IF kept \/ active[r] = None THEN UNCHANGED <<active, reservations>>
     ELSE /\ active' = [active EXCEPT ![r] = IF taken THEN [Fresh EXCEPT !.target = t] ELSE Fresh]
          /\ reservations' = IF taken THEN [freed EXCEPT ![t] = @ + 1] ELSE freed
  /\ UNCHANGED <<targets, results, disk, runner>>

\* The runner takes the request: a new build, or the one it has for it.
Takes(r, t) == fate' = IF fate[r][t] = "absent" THEN [fate EXCEPT ![r][t] = "running"] ELSE fate

\* dispatch.Start returns a build ID.
StartAccepted(c, r) ==
  /\ Here(c, r, "starting")
  /\ Takes(r, dispatcher[c].target)
  /\ dispatcher' = [dispatcher EXCEPT ![c].at = "marking", ![c].untried = {}]
  /\ UNCHANGED <<server, report>>

\* dispatch.Start returns a StartError.  With another target to try, the
\* reservation is released (releaseActiveDispatchTarget) and the loop goes on.
StartRejected(c, r) ==
  LET t == dispatcher[c].target IN
  /\ Here(c, r, "starting")
  /\ \/ UNCHANGED fate
     \/ AnswersMayBeLost /\ Takes(r, t)  \* a proxy in between answers 502
  /\ dispatcher' = [dispatcher EXCEPT ![c].target = None,
       ![c].at = IF dispatcher[c].untried = {} THEN "ending" ELSE "reserving"]
  /\ IF dispatcher[c].untried # {} /\ Builds(r, t)
     THEN /\ reservations' = Released(reservations, t)
          /\ active' = [active EXCEPT ![r] = Fresh]
     ELSE UNCHANGED <<active, reservations>>
  /\ UNCHANGED <<targets, results, disk, report>>

\* dispatch.Start fails in another way, or the client has left; the request may
\* have reached the runner.  After a client left, a build that is known is waited for.
StartBreaksOff(c, r) ==
  /\ AnswersMayBeLost
  /\ Here(c, r, "starting")
  /\ UNCHANGED fate \/ Takes(r, dispatcher[c].target)
  /\ \/ Leave(c, "ending")
     \/ active[r] # None /\ active[r].accepted /\ Leave(c, "awaiting")
  /\ UNCHANGED <<server, report>>

\* Mutant of MarkBuild: the accepted build is remembered in memory only.
MarkBuildUnsaved(c, r) ==
  LET t == dispatcher[c].target IN
  /\ Here(c, r, "marking")
  /\ active' = IF Builds(r, t) THEN [active EXCEPT ![r].accepted = TRUE] ELSE active
  /\ Goto(c, "tailing")
  /\ UNCHANGED <<targets, reservations, results, disk, runner>>

\* markActiveDispatchBuild.  Without an active dispatch on this target it does
\* nothing and reports no error; when the save fails the build is canceled.
MarkBuild(c, r) ==
  LET t == dispatcher[c].target IN
  /\ Here(c, r, "marking")
  /\ UNCHANGED <<targets, reservations, results, runner>>
  /\ \/ /\ ~Builds(r, t)
        /\ Goto(c, "tailing")
        /\ UNCHANGED <<active, disk>>
     \/ /\ Builds(r, t)
        /\ active' = [active EXCEPT ![r].accepted = TRUE]
        /\ \E ok \in BOOLEAN : Save(ok) /\ (IF ok THEN Goto(c, "tailing") ELSE Leave(c, "ending"))

\* dispatch.Tail returns: the build has ended, or the stream breaks.  The result
\* of a canceled build is not waited for: runnerTerminalFailure does not know the
\* error Tail gives then.  When the client has left and a build is known, its
\* result is waited for all the same.
TailEnds(c, r) ==
  /\ Here(c, r, "tailing")
  /\ \/ fate[r][dispatcher[c].target] = "ended" /\ (Leave(c, "awaiting") \/ Leave(c, "ending"))
     \/ AnswersMayBeLost /\ Leave(c, "ending")
     \/ /\ AnswersMayBeLost
        /\ active[r] # None /\ active[r].accepted
        /\ Leave(c, "awaiting")
  /\ UNCHANGED <<server, runner>>

\* Mutant of ResultAwaited: without the timer, and without the client's context.
ResultAwaitedForEver(c) ==
  /\ dispatcher[c].at = "awaiting"
  /\ results[dispatcher[c].request] # None
  /\ Leave(c, "ending")
  /\ UNCHANGED <<server, runner>>

\* waitForResult returns: the result is there, resultWaitTimeout is over, or
\* the client has left.
ResultAwaited(c) ==
  /\ dispatcher[c].at = "awaiting"
  /\ Leave(c, "ending")
  /\ UNCHANGED <<server, runner>>

\* The deferred endDispatch: whatever is active under the request ID is released.
EndDispatch(c, r) ==
  /\ Here(c, r, "ending")
  /\ ReleaseDispatch(r)
  /\ dispatcher' = [dispatcher EXCEPT ![c] = Idle]
  /\ UNCHANGED <<targets, results, disk, runner>>

-----------------------------------------------------------------------------
\* The runner ends a build and reports it.

BuildEnds(r, t) ==
  /\ fate[r][t] = "running"
  /\ fate' = [fate EXCEPT ![r][t] = "ended"]
  /\ report' = [report EXCEPT ![r][t] = "sending"]
  /\ UNCHANGED <<server, dispatcher>>

Answer(r, t, answer) == report' = [report EXCEPT ![r][t] = answer]

\* Mutant of ReportAnswered: sameBuildResult is not asked.
ReportAnsweredByRequest(r, t) ==
  /\ report[r][t] = "sending"
  /\ \/ results[r] # None /\ Answer(r, t, "acknowledged")
     \/ results[r] = None /\ ~Builds(r, t) /\ Answer(r, t, "refused")
     \/ results[r] = None /\ Builds(r, t) /\ ~Accepted(r, t) /\ Answer(r, t, "waiting")
  /\ UNCHANGED <<server, dispatcher, fate>>

\* recordResult: 202 for the result already recorded, 409 for another one and
\* for one that no active dispatch expects.
ReportAnswered(r, t) ==
  /\ report[r][t] = "sending"
  /\ \/ results[r] = t /\ Answer(r, t, "acknowledged")
     \/ results[r] # None /\ results[r] # t /\ Answer(r, t, "refused")
     \/ results[r] = None /\ ~Builds(r, t) /\ Answer(r, t, "refused")
     \/ results[r] = None /\ Builds(r, t) /\ ~Accepted(r, t) /\ Answer(r, t, "waiting")
  /\ UNCHANGED <<server, dispatcher, fate>>

\* Mutant of ResultRecorded: the state file is not written.
ResultRecordedUnsaved(r, t) ==
  /\ report[r][t] = "sending"
  /\ results[r] = None
  /\ Accepted(r, t)
  /\ results' = [results EXCEPT ![r] = t]
  /\ ReleaseDispatch(r)
  /\ Answer(r, t, "acknowledged")
  /\ UNCHANGED <<targets, disk, dispatcher, fate>>

\* recordResult for the build the active dispatch expects.  A failed save is
\* answered 500, which the runner repeats, as it does when the answer is lost.
ResultRecorded(r, t) ==
  /\ report[r][t] = "sending"
  /\ results[r] = None
  /\ Accepted(r, t)
  /\ results' = [results EXCEPT ![r] = t]
  /\ ReleaseDispatch(r)
  /\ UNCHANGED <<targets, dispatcher, fate>>
  /\ \E ok \in BOOLEAN :
       /\ Save(ok)
       /\ \E answer \in (IF ok THEN {"acknowledged"} ELSE {})
                        \cup (IF ok /\ ~AnswersMayBeLost THEN {} ELSE {"sending"}) :
            Answer(r, t, answer)

\* waitForAcceptedRunnerBuild: try again once the build is known, refuse when
\* the dispatch is gone or bound to another target, or after two seconds.
ReportWaited(r, t) ==
  /\ report[r][t] = "waiting"
  /\ \/ Accepted(r, t) /\ Answer(r, t, "sending")
     \/ Answer(r, t, "refused")
  /\ UNCHANGED <<server, dispatcher, fate>>

\* The runner's attempts are used up.
ReportGivenUp(r, t) ==
  /\ AnswersMayBeLost
  /\ report[r][t] = "sending"
  /\ Answer(r, t, "refused")
  /\ UNCHANGED <<server, dispatcher, fate>>

-----------------------------------------------------------------------------
\* The process ends, and New loads the state file: leases that ran out in the
\* meantime and dispatches that have a result are dropped, reservations start
\* from nothing.  Calls in progress break; a waiting callback is sent again.
Restart ==
  /\ MayRestart
  /\ \E gone \in SUBSET {t \in Targets : disk.targets[t] # None} :
       targets' = [t \in Targets |-> IF t \in gone THEN None ELSE disk.targets[t]]
  /\ results' = disk.results
  /\ active' = [r \in Requests |-> IF disk.results[r] = None THEN disk.active[r] ELSE None]
  /\ reservations' = [t \in Targets |-> 0]
  /\ dispatcher' = [c \in Dispatchers |-> Idle]
  /\ disk' = [targets |-> targets', results |-> results', active |-> active']
  /\ report' = [r \in Requests |-> [t \in Targets |->
                  IF report[r][t] = "waiting" THEN "sending" ELSE report[r][t]]]
  /\ UNCHANGED fate

-----------------------------------------------------------------------------
\* One step of the dispatchBuild that c runs for r.
DispatchStep(c, r) ==
  \/ \E t \in Targets : Reserve(c, r, t)
  \/ StartAccepted(c, r) \/ StartRejected(c, r) \/ StartBreaksOff(c, r)
  \/ MarkBuild(c, r) \/ TailEnds(c, r) \/ EndDispatch(c, r)

RunnerStep(r, t) ==
  \/ BuildEnds(r, t)
  \/ ReportAnswered(r, t) \/ ResultRecorded(r, t) \/ ReportWaited(r, t) \/ ReportGivenUp(r, t)

Next ==
  \/ \E t \in Targets, queued \in Loads : Register(t, queued)
  \/ \E t \in Targets : Deregister(t) \/ LeaseRunsOut(t)
  \/ ListTargets
  \/ \E c \in Dispatchers, r \in Requests : BeginDispatch(c, r) \/ DispatchStep(c, r)
  \/ \E c \in Dispatchers : DispatchTargets(c) \/ ResultAwaited(c)
  \/ \E r \in Requests, t \in Targets : RunnerStep(r, t)
  \/ Restart

Spec == Init /\ [][Next]_vars

\* Goroutines that can run do; a call to a runner returns, because the HTTP
\* client or the runner ends it; a build ends, because the runner limits it.
Fairness ==
  /\ \A c \in Dispatchers, r \in Requests : WF_vars(DispatchStep(c, r))
  /\ \A c \in Dispatchers : WF_vars(DispatchTargets(c)) /\ WF_vars(ResultAwaited(c))
  /\ \A r \in Requests, t \in Targets : WF_vars(BuildEnds(r, t))

FairSpec == Spec /\ Fairness

-----------------------------------------------------------------------------
(***************************************************************************)
(* Properties.                                                             *)
(***************************************************************************)
Leases == [queued : Loads, leased : BOOLEAN] \cup {None}
Dispatches == [target : Targets \cup {None}, accepted : BOOLEAN] \cup {None}

TypeOK ==
  /\ targets \in [Targets -> Leases]
  /\ active \in [Requests -> Dispatches]
  /\ reservations \in [Targets -> Nat]
  /\ results \in [Requests -> Targets \cup {None}]
  /\ dispatcher \in [Dispatchers ->
       [at : {"idle", "choosing", "reserving", "starting", "marking", "tailing", "awaiting", "ending"},
        request : Requests \cup {None}, untried : SUBSET Targets, target : Targets \cup {None}]]
  /\ disk \in [targets : [Targets -> Leases], results : [Requests -> Targets \cup {None}],
               active : [Requests -> Dispatches]]
  /\ fate \in [Requests -> [Targets -> {"absent", "running", "ended"}]]
  /\ report \in [Requests -> [Targets -> {"none", "sending", "waiting", "acknowledged", "refused"}]]

\* The reservations of a target are the active dispatches bound to it: none is
\* leaked and none released twice, by retries, deregistration, lease expiry, a
\* result or the end of the dispatch, in any order.
ReservationsExact ==
  \A t \in Targets : reservations[t] = Cardinality({r \in Requests : Builds(r, t)})

\* Every active dispatch has a goroutine that will end it, so no request_id is
\* blocked by a dispatch nobody runs.
ActiveOwned ==
  \A r \in Requests : active[r] # None => \E c \in Dispatchers : dispatcher[c].request = r

\* A result on record is of a build that ended, and the one its runner was
\* acknowledged for.
ResultGenuine ==
  /\ \A r \in Requests : results[r] # None => fate[r][results[r]] = "ended"
  /\ \A r \in Requests, t \in Targets : report[r][t] = "acknowledged" => results[r] = t

\* A recorded result is never lost or replaced, through restarts too.
ResultKept ==
  [][\A r \in Requests : results[r] # None => results'[r] = results[r]]_vars

\* A restarted coordinator still expects the result of every accepted build.
RestartKeepsDispatches ==
  [][Restart => \A r \in Requests, t \in Targets : Accepted(r, t) => Accepted(r, t)']_vars

\* Every dispatch comes to an end and frees its request_id and its reservation.
DispatchEnds == \A r \in Requests : (active[r] # None) ~> (active[r] = None)

=============================================================================
