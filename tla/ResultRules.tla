---------------------------- MODULE ResultRules ----------------------------
(***************************************************************************)
(* What becomes of a build request and of a build's outcome on their way   *)
(* through the three programs: the checks of transwarp-dispatch            *)
(* (internal/dispatch/client.go) and of the runner (internal/agent) on a   *)
(* request to build; the status, the ledger record and the report that the *)
(* runner makes of a finished build; and the checks of the coordinator     *)
(* (internal/coordinator/server.go) and of the command on those.           *)
(*                                                                         *)
(* Times and durations are in milliseconds.  An error of "none" is the     *)
(* empty one.                                                              *)
(***************************************************************************)
EXTENDS TargetRules

ResultDurationTolerance == 100

Distance(a, b) == IF a < b THEN b - a ELSE a - b

-----------------------------------------------------------------------------
\* What a coordinator asks of a runner, and dispatch.Start checks before it posts.
BuildRequest(q, reportURL) ==
  [job |-> q.job, id |-> q.id, repo |-> q.repo, ref |-> q.ref, commit |-> q.commit,
   reportURL |-> reportURL]

ValidStart(base, b) ==
  /\ ValidBaseURL(base)
  /\ b.job \in Identifiers
  /\ ValidMetadata(b)
  /\ b.reportURL # NoURL => ValidReportURL(b.reportURL)

\* BuildRequest.Validate in the runner.
ValidBuildRequest(b) ==
  /\ b.job \in Identifiers
  /\ ValidMetadata(b)
  /\ b.reportURL # NoURL => ValidReportURL(b.reportURL)

\* Config.ValidateReportURL: the origins of the lifecycle endpoints, and those listed.
AllowedReportOrigins(config) ==
  {u \in {config.register, config.heartbeat, config.deregister} : u # NoURL} \cup config.origins

SameOrigin(u, v) == u.scheme = v.scheme /\ u.host = v.host

AllowedReport(config, u) ==
  u # NoURL => ValidReportURL(u) /\ \E v \in AllowedReportOrigins(config) : SameOrigin(u, v)

\* validateBuildRequestForJob
FitsJob(b, job) ==
  IF job.checkout
  THEN b.repo # "" /\ b.repo \in job.allowed /\ (b.ref # "" \/ b.commit # "")
  ELSE b.repo = "" /\ b.ref = "" /\ b.commit = ""

\* startBuild, up to startBuildRun.
Startable(config, b) ==
  /\ ValidBuildRequest(b) /\ AllowedReport(config, b.reportURL)
  /\ \E job \in config.jobs : job.id = b.job /\ FitsJob(b, job)

\* The checks that prepareWorkspace makes again, on what git is then given.
FetchTarget(b) == IF b.ref # "" THEN b.ref ELSE b.commit
CheckoutTarget(b) == IF b.commit # "" THEN b.commit ELSE b.ref

Preparable(b, job) ==
  job.checkout =>
    /\ b.repo # "" /\ b.repo \in job.allowed
    /\ b.ref # "" \/ b.commit # ""
    /\ {FetchTarget(b), CheckoutTarget(b)} \subseteq CheckoutTargets

-----------------------------------------------------------------------------
\* A LedgerRecord; elapsed is what Go's monotonic clock makes of ended - started,
\* which only the running process knows.
LedgerRecord(build, b, started, ended, outcome) ==
  [build |-> build, job |-> b.job, id |-> b.id, repo |-> b.repo, ref |-> b.ref,
   commit |-> b.commit, started |-> started, ended |-> ended,
   exit |-> outcome.exit, error |-> outcome.error]

\* Mutant of StatusForRecord: every command killed by a signal was canceled.
StatusByExitCode(record) ==
  IF record.exit = 0 THEN "passed" ELSE IF record.exit = -1 THEN "canceled" ELSE "failed"

StatusForRecord(record) ==
  IF record.exit = 0 /\ record.error = "none" THEN "passed"
  ELSE IF record.error = "build canceled" THEN "canceled"
  ELSE "failed"

NoResult == [none |-> TRUE]

\* The answer to GET /v1/builds/{id}: from memory, and from the ledger, whose
\* reader passes over records that validLedgerStatusRecord rejects.
BuildStatus(build, b, status, result) ==
  [build |-> build, job |-> b.job, id |-> b.id, status |-> status, result |-> result]

Terminal(record) == record.ended # 0

RunStatus(build, b, started, record) ==
  IF Terminal(record) THEN BuildStatus(build, b, StatusForRecord(record), record)
  ELSE BuildStatus(build, b, IF started THEN "running" ELSE "queued", NoResult)

ValidLedgerRecord(record) ==
  /\ {record.build, record.job, record.id} \subseteq Identifiers
  /\ record.started # 0 /\ record.ended # 0

LedgerStatus(record) == BuildStatus(record.build, record, StatusForRecord(record), record)

\* What the three checks of an outcome have in common.
Coherent(status, exit, error) ==
  /\ status = "passed" => exit = 0 /\ error = "none"
  /\ status = "failed" => exit # 0 \/ error # "none"
  /\ status = "canceled" => error = "build canceled"

\* validateBuildStatusResponse
ValidBuildStatus(s) ==
  /\ {s.build, s.job} \subseteq Identifiers /\ s.id \in Identifiers \cup {""}
  /\ s.status \in {"queued", "running", "passed", "failed", "canceled"}
  /\ s.result # NoResult =>
       /\ s.result.build = s.build /\ s.result.job = s.job
       /\ s.result.id \in Identifiers \cup {""}
       /\ s.id # "" /\ s.result.id # "" => s.result.id = s.id
       /\ SafeCheckout(s.result)
       /\ s.status \in {"passed", "failed", "canceled"}
       /\ Coherent(s.status, s.result.exit, s.result.error)

-----------------------------------------------------------------------------
\* Mutant of Report: the payload lacks the public URL.
ReportWithoutURL(config, record, publicURL, elapsed) ==
  [record |-> record, status |-> StatusForRecord(record), machine |-> config.id,
   publicURL |-> NoURL, duration |-> elapsed]

\* reportBuild's payload.
Report(config, record, publicURL, elapsed) ==
  [record |-> record, status |-> StatusForRecord(record), machine |-> config.id,
   publicURL |-> publicURL, duration |-> elapsed]

\* validateBuildResultConsistency
Consistent(x) ==
  /\ x.publicURL # NoURL => ValidBaseURL(x.publicURL)
  /\ x.duration >= 0
  /\ (x.record.started = 0) = (x.record.ended = 0)
  /\ x.record.started # 0 =>
       /\ x.record.ended >= x.record.started
       /\ Distance(x.duration, x.record.ended - x.record.started) <= ResultDurationTolerance
  /\ Coherent(x.status, x.record.exit, x.record.error)

ValidResult(x) ==
  /\ {x.record.id, x.record.build, x.record.job, x.machine} \subseteq Identifiers
  /\ x.status \in {"passed", "failed", "canceled"}
  /\ Consistent(x)

\* sameDispatchResult
SameDispatchResult(q, x) ==
  /\ q.job = x.record.job /\ q.id = x.record.id
  /\ q.repo = x.record.repo /\ q.ref = x.record.ref /\ q.commit = x.record.commit
  /\ q.machine \in {"", x.machine}

RequiresPublicURL(base) == base.host # "" /\ base.host \notin LoopbackHosts

\* recordResult: the dispatch that a result is for, once its build is accepted.
MatchesDispatch(x, active) ==
  /\ SameDispatchResult(active.request, x)
  /\ x.machine = active.machine
  /\ x.record.build = active.build
  /\ RequiresPublicURL(active.base) => x.publicURL # NoURL
  /\ x.publicURL # NoURL => NormalizeBaseURL(x.publicURL) = NormalizeBaseURL(active.base)

RecordAnswer(x, results, active) ==
  LET r == x.record.id
  IN IF ~ValidResult(x) THEN "invalid"
     ELSE IF r \in DOMAIN results THEN (IF results[r] = x THEN "recorded" ELSE "different")
     ELSE IF r \in DOMAIN active THEN (IF MatchesDispatch(x, active[r]) THEN "new" ELSE "mismatch")
     ELSE "inactive"

\* normalizeLoadedResults
LoadedResults(results) ==
  [r \in {r \in DOMAIN results : r = results[r].record.id /\ ValidResult(results[r])} |-> results[r]]

-----------------------------------------------------------------------------
\* The events that tell a command which build it got: of a new dispatch or a
\* reconnection, and of a recorded result.
AcceptedEvent(active) ==
  [build |-> active.build, job |-> active.request.job, id |-> active.request.id,
   machine |-> active.machine, publicURL |-> active.base]

RecordedEvent(x) ==
  [build |-> x.record.build, job |-> x.record.job, id |-> x.record.id,
   machine |-> x.machine, publicURL |-> x.publicURL]

\* validateAcceptedBuildEvent
ValidAcceptedEvent(e, q) ==
  /\ e.build \in Identifiers
  /\ e.job \in Identifiers /\ e.job = q.job
  /\ e.id \in Identifiers /\ e.id = q.id
  /\ e.machine \in Identifiers /\ q.machine \in {"", e.machine}
  /\ e.publicURL # NoURL /\ ValidBaseURL(e.publicURL)

\* ValidateForRequest, of GET /transwarp/results/{id}.
ValidForRequest(x, q) ==
  /\ {x.record.build, x.record.job, x.record.id, x.machine} \subseteq Identifiers
  /\ x.record.job = q.job /\ x.record.id = q.id
  /\ q.machine \in {"", x.machine}
  /\ SafeCheckout(x.record)
  /\ q.repo \in {"", x.record.repo} /\ q.ref \in {"", x.record.ref}
  /\ q.commit \in {"", x.record.commit}
  /\ x.status \in {"passed", "failed", "canceled"}
  /\ x.publicURL # NoURL => ValidBaseURL(x.publicURL)

=============================================================================
