-------------------------- MODULE CoordinatedBuild --------------------------
(***************************************************************************)
(* CI commands that build through the coordinator: transwarp-dispatch with *)
(* -coordinator-url (RunCoordinatorWithResult in internal/dispatch), the   *)
(* coordinator's dispatch state of module Coordinator, and the runners.    *)
(*                                                                         *)
(* Each command has one call to the coordinator, served by the goroutine of*)
(* the same name; so Dispatchers names the commands as well.  What the     *)
(* coordinator writes into the response is collected in call, since the    *)
(* command looks at it only when the response ends.                        *)
(***************************************************************************)
EXTENDS Coordinator

ASSUME BuildAssumption == None \notin {"canceling", "passed", "failed", "canceled"}

VARIABLES
  verdict, \* outside: how a build ended; "canceling" while a cancel is under way
  client,  \* the commands: where they are, and the build they have shown
  call     \* their calls: how they are served, and what was written

clientVars == <<client, call>>
buildVars == <<vars, verdict, clientVars>>

Unused == [by |-> "none", accepted |-> None, failed |-> FALSE, ended |-> FALSE]
Unstarted == [at |-> "idle", request |-> None, shown |-> None]

BuildInit ==
  /\ Init
  /\ verdict = [r \in Requests |-> [t \in Targets |-> None]]
  /\ client = [k \in Dispatchers |-> Unstarted]
  /\ call = [k \in Dispatchers |-> Unused]

\* Mutant of Passed: the status on record is not looked at.
RecordedAtAll(r) == results[r] # None

\* StatusError of the result on record.
Passed(r) == results[r] # None /\ verdict[r][results[r]] = "passed"

Write(k, what) == call' = [call EXCEPT ![k] = what]
Response(by, t, failed, ended) == [by |-> by, accepted |-> t, failed |-> failed, ended |-> ended]

-----------------------------------------------------------------------------
\* beginDispatch for a command's call: a dispatch of its own, the recorded
\* result, a reconnection to the accepted build, or a conflict.
Post(k, r) ==
  /\ client[k].at = "idle"
  /\ client' = [client EXCEPT ![k] = [Unstarted EXCEPT !.at = "reading", !.request = r]]
  /\ UNCHANGED verdict
  /\ \/ BeginDispatch(k, r) /\ Write(k, Response("dispatch", None, FALSE, FALSE))
     \/ /\ results[r] # None
        /\ Write(k, Response("record", results[r], ~Passed(r), TRUE))  \* writeRecordedResult
        /\ UNCHANGED vars
     \/ /\ results[r] = None /\ active[r] # None
        /\ Write(k, IF active[r].accepted THEN Response("following", active[r].target, FALSE, FALSE)
                    ELSE Response("conflict", None, TRUE, TRUE))
        /\ UNCHANGED vars

\* What a step of dispatchBuild writes, by where the goroutine comes from and goes.
\* The answer to a canceled wait fails even if the result is there by then.
Writes(k) ==
  LET from == dispatcher[k].at
      to == dispatcher'[k].at
      Told(failed) == Write(k, [call[k] EXCEPT !.failed = failed])
  IN CASE from = to                          -> UNCHANGED call
       [] from = "marking" /\ to = "tailing" -> Write(k, [call[k] EXCEPT !.accepted = dispatcher[k].target])
       [] from = "awaiting"                  -> Told(TRUE) \/ (Passed(client[k].request) /\ Told(FALSE))
       [] from = "ending"                    -> Write(k, [call[k] EXCEPT !.ended = TRUE])
       [] from # "awaiting" /\ to = "ending" -> Told(TRUE)
       [] OTHER                              -> UNCHANGED call

\* The runner takes a cancel only while the build runs.
CancelAt(r, t) ==
  verdict' = IF fate[r][t] = "running" THEN [verdict EXCEPT ![r][t] = "canceling"] ELSE verdict

\* A build whose acceptance cannot be saved is canceled.
Dispatch(k) ==
  /\ \/ \E r \in Requests : DispatchStep(k, r)
     \/ DispatchTargets(k) \/ ResultAwaited(k)
  /\ Writes(k)
  /\ IF dispatcher[k].at = "marking" /\ dispatcher'[k].at = "ending"
     THEN CancelAt(dispatcher[k].request, dispatcher[k].target)
     ELSE UNCHANGED verdict
  /\ UNCHANGED client

\* reconnectActiveDispatch: dispatch.Tail of the accepted build, then waitForResult.
Reconnected(k) ==
  LET r == client[k].request
      t == call[k].accepted IN
  /\ call[k].by = "following" /\ ~call[k].ended
  /\ \/ fate[r][t] = "ended" /\ verdict[r][t] # "canceled" /\ Write(k, [call[k] EXCEPT !.by = "expecting"])
     \/ fate[r][t] = "ended" /\ verdict[r][t] = "canceled" /\ Write(k, Response("following", t, TRUE, TRUE))
     \/ AnswersMayBeLost /\ Write(k, Response("following", t, TRUE, TRUE))
  /\ UNCHANGED <<vars, verdict, client>>

\* A result, or the timer.
Expected(k) ==
  /\ call[k].by = "expecting" /\ ~call[k].ended
  /\ \E failed \in {TRUE} \cup (IF Passed(client[k].request) THEN {FALSE} ELSE {}) :
       Write(k, [call[k] EXCEPT !.failed = failed, !.ended = TRUE])
  /\ UNCHANGED <<vars, verdict, client>>

-----------------------------------------------------------------------------
\* The command.

Goes(k, where) == client' = [client EXCEPT ![k].at = where, ![k].shown = call[k].accepted]

\* cancelDispatch: 404 and 409 change nothing; otherwise the runner is asked.
Canceled(r) ==
  IF active[r] # None /\ active[r].accepted THEN CancelAt(r, active[r].target) ELSE UNCHANGED verdict

\* transwarp-dispatch -cancel.
CancelDispatch(r) ==
  /\ Canceled(r)
  /\ verdict' # verdict
  /\ UNCHANGED <<vars, clientVars>>

\* readCoordinatorStream returns.  An error makes the command fail whatever the
\* result on record; one that speaks of a context cancels the dispatch as well.
StreamEnds(k) ==
  LET r == client[k].request IN
  /\ client[k].at = "reading"
  /\ \/ call[k].ended /\ ~call[k].failed /\ call[k].accepted # None
        /\ Goes(k, "looking") /\ UNCHANGED verdict
     \/ call[k].ended /\ (call[k].failed \/ call[k].accepted = None)
        /\ Goes(k, "failed") /\ UNCHANGED verdict
     \/ AnswersMayBeLost
        /\ Goes(k, "failed") /\ (UNCHANGED verdict \/ Canceled(r))
  /\ UNCHANGED <<vars, call>>

\* GetCoordinatorResult, and StatusError of what it finds.
ResultLookedUp(k) ==
  LET r == client[k].request IN
  /\ client[k].at = "looking"
  /\ \/ Goes(k, IF Passed(r) THEN "passed" ELSE "failed")
     \/ AnswersMayBeLost /\ Goes(k, "failed")
  /\ UNCHANGED <<vars, verdict, call>>

-----------------------------------------------------------------------------
\* The runner.
Ends(r, t) ==
  /\ BuildEnds(r, t)
  /\ \E v \in {"passed", "failed"} \cup (IF verdict[r][t] = "canceling" THEN {"canceled"} ELSE {}) :
       verdict' = [verdict EXCEPT ![r][t] = v]
  /\ UNCHANGED clientVars

Reports(r, t) ==
  /\ ReportAnswered(r, t) \/ ResultRecorded(r, t) \/ ReportWaited(r, t) \/ ReportGivenUp(r, t)
  /\ UNCHANGED <<verdict, clientVars>>

\* Targets and time.
TargetsChange ==
  /\ \/ \E t \in Targets, queued \in Loads : Register(t, queued)
     \/ \E t \in Targets : Deregister(t) \/ LeaseRunsOut(t)
     \/ ListTargets
  /\ UNCHANGED <<verdict, clientVars>>

\* The calls of a coordinator that ends break.
Restarts ==
  /\ Restart
  /\ call' = [k \in Dispatchers |->
                IF call[k].by = "none" \/ call[k].ended THEN call[k]
                ELSE [call[k] EXCEPT !.failed = TRUE, !.ended = TRUE]]
  /\ UNCHANGED <<verdict, client>>

BuildNext ==
  \/ TargetsChange
  \/ \E k \in Dispatchers :
       \/ \E r \in Requests : Post(k, r)
       \/ Dispatch(k) \/ Reconnected(k) \/ Expected(k)
       \/ StreamEnds(k) \/ ResultLookedUp(k)
  \/ \E r \in Requests : CancelDispatch(r)
  \/ \E r \in Requests, t \in Targets : Ends(r, t) \/ Reports(r, t)
  \/ Restarts

BuildSpec == BuildInit /\ [][BuildNext]_buildVars

-----------------------------------------------------------------------------
(***************************************************************************)
(* Properties.                                                             *)
(***************************************************************************)
BuildTypeOK ==
  /\ TypeOK
  /\ verdict \in [Requests -> [Targets -> {None, "canceling", "passed", "failed", "canceled"}]]
  /\ client \in [Dispatchers ->
       [at : {"idle", "reading", "looking", "passed", "failed"},
        request : Requests \cup {None}, shown : Targets \cup {None}]]
  /\ call \in [Dispatchers ->
       [by : {"none", "dispatch", "record", "following", "expecting", "conflict"},
        accepted : Targets \cup {None}, failed : BOOLEAN, ended : BOOLEAN]]

\* A command succeeds only while a passed build of its request is on record, and
\* the record outlives the coordinator's restarts: nothing a command, a cancel, a
\* reconnection or a late report does turns another ending into a success.
SuccessOnRecord ==
  \A k \in Dispatchers : client[k].at = "passed" =>
    LET r == client[k].request IN results[r] # None /\ verdict[r][results[r]] = "passed"

\* docs/operations.md: the command tails the logs of the build it has started and
\* exits nonzero if that build is reported failed or canceled.
FailedBuildFails ==
  \A k \in Dispatchers : client[k].at = "passed" /\ client[k].shown # None =>
    verdict[client[k].request][client[k].shown] \notin {"failed", "canceled"}

=============================================================================
