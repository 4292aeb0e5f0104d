-------------------------- MODULE DispatchedBuild --------------------------
(***************************************************************************)
(* One build that CI dispatches through the coordinator, from the          *)
(* registration of the Mac to the result on record, with what each program *)
(* makes of the data that the others hand it (modules TargetRules and      *)
(* ResultRules) and with the job's processes (module BuildProcess).        *)
(*                                                                         *)
(* Who calls whom when, and what is lost on the way, is the business of the*)
(* modules Coordinator, RunnerBuilds, RunnerRegistration, DispatchClient:  *)
(* here a dispatch is one step, from beginDispatch to the acceptance.      *)
(***************************************************************************)
EXTENDS BuildProcess, ResultRules

CONSTANTS
  Configs,          \* configurations of the runner, with the Mac it runs on
  Dispatches,       \* requests that CI may dispatch
  CoordinatorURL,   \* the coordinator's own -public-url
  TunnelURLs,       \* names that a quick tunnel may get
  Builds,           \* build IDs
  Clocks            \* [ended, elapsed] of a job, by the wall and the monotonic clock

ASSUME DispatchedAssumption ==
  /\ Builds \subseteq Identifiers
  /\ \A clock \in Clocks : clock.ended \in Int \ {0} /\ clock.elapsed \in Nat
  /\ NoURL \notin TunnelURLs

VARIABLES
  config, \* the runner's configuration
  public,  \* Agent.publicURL: the tunnel's name, or that of the configuration
  name,    \* the registrar's copy of it, from when the tunnel was first ready
  targets, active, results, \* what the coordinator keeps
  entry,   \* the build's LedgerRecord, and the time the job took
  report,  \* the payload of reportBuild, once it is made
  answer   \* what the coordinator answered it last

coordinator == <<targets, active, results>>
reporting == <<entry, report, answer>>
dispatchedVars == <<processVars, config, public, name, coordinator, reporting>>

None == [none |-> TRUE]
Empty == [r \in {} |-> None]
Start == 1       \* when the job starts
Now == 1         \* when targets register and the coordinator restarts
Lease == 90

\* The only dispatch on record, accepted or with its result.
Dispatched == DOMAIN active \cup DOMAIN results
TheDispatch == active[CHOOSE r \in DOMAIN active : TRUE]

\* The report_url of a dispatch.
ReportURL == [CoordinatorURL EXCEPT !.path = "/transwarp/result"]

\* RegistrationPayload; an idle runner, which has room.
Registration(url) ==
  [id |-> config.id, listen |-> config.listen, publicURL |-> url, mac |-> config.mac,
   accepting |-> TRUE, active |-> 0, queued |-> 0, limit |-> 25,
   jobs |-> {job.id : job \in config.jobs}, lease |-> Now + Lease]

DispatchedInit ==
  /\ ProcessInit
  /\ config \in {c \in Configs : ValidConfig(c)}
  /\ public \in IF config.publicURL # NoURL THEN {config.publicURL}
                ELSE IF config.mode = "quick" THEN TunnelURLs ELSE {NoURL}
  /\ name = None
  /\ targets = Empty /\ active = Empty /\ results = Empty
  /\ entry = None /\ report = None /\ answer = "none"

-----------------------------------------------------------------------------
\* register, by a registration or a heartbeat.
Register ==
  /\ Dispatched = {} /\ targets = Empty
  /\ name' = IF name = None THEN public ELSE name
  /\ Registrable(Registration(name'))
  /\ targets' = [m \in {config.id} |-> NormalizeLease(Registration(name'), Now)]
  /\ UNCHANGED <<processVars, config, public, active, results, reporting>>

TargetGone ==
  /\ targets # Empty
  /\ targets' = Empty
  /\ UNCHANGED <<processVars, config, public, name, active, results, reporting>>

\* cloudflared tells another name of a quick tunnel.
Renamed ==
  /\ config.mode = "quick" /\ config.publicURL = NoURL
  /\ public' \in TunnelURLs \ {public}
  /\ UNCHANGED <<processVars, config, name, coordinator, reporting>>

\* beginDispatch, dispatchTargets, dispatchToTarget, startBuild.
Dispatch(q, build) ==
  LET b == BuildRequest(q, ReportURL)
  IN /\ at = "queued" /\ Dispatched = {}
     /\ ValidDispatchRequest(q)
     /\ \E t \in DispatchTargets(targets, [m \in DOMAIN targets |-> 0], q, Now) :
          /\ ValidStart(RunnerBaseURL(t), b) /\ Startable(config, b)
          /\ \E job \in config.jobs : job.id = q.job /\ gits = (IF job.checkout THEN 3 ELSE 0)
          /\ active' = [r \in {q.id} |-> [request |-> q, machine |-> t.id,
                                          base |-> RunnerBaseURL(t), build |-> build]]
     /\ UNCHANGED <<processVars, config, public, name, targets, results, reporting>>

\* Mutant of Told: a build canceled in the queue gets no record.
ToldByJob ==
  /\ IF at \notin {"queued", "ended"} /\ at' = "ended"
     THEN \E clock \in Clocks :
            entry' = [record |-> LedgerRecord(TheDispatch.build, BuildRequest(TheDispatch.request, ReportURL),
                                              Start, clock.ended, record'),
                      elapsed |-> clock.elapsed]
     ELSE UNCHANGED entry
  /\ UNCHANGED <<config, public, name, coordinator, report, answer>>

\* setRecord takes what a finished job tells.
Told ==
  /\ IF at # "ended" /\ at' = "ended"
     THEN LET b == BuildRequest(TheDispatch.request, ReportURL)
          IN \E clock \in IF at = "queued" THEN {[ended |-> Start, elapsed |-> 0]} ELSE Clocks :
               entry' = [record |-> LedgerRecord(TheDispatch.build, b, Start, clock.ended, record'),
                         elapsed |-> clock.elapsed]
     ELSE UNCHANGED entry
  /\ UNCHANGED <<config, public, name, coordinator, report, answer>>

\* A step of the job or of its processes.
Runs == Dispatched # {} /\ ProcessNext /\ Told

Reports ==
  /\ entry # None /\ report = None
  /\ report' = Report(config, entry.record, public, entry.elapsed)
  /\ UNCHANGED <<processVars, config, public, name, coordinator, entry, answer>>

\* postBuildReport and recordResult; a lost answer is asked for again.
Delivered ==
  /\ report # None /\ answer \notin {"invalid", "mismatch", "different", "inactive"}
  /\ answer' = RecordAnswer(report, results, active)
  /\ IF answer' = "new"
     THEN /\ results' = [r \in {report.record.id} |-> report]
          /\ active' = Empty
     ELSE UNCHANGED <<active, results>>
  /\ UNCHANGED <<processVars, config, public, name, targets, entry, report>>

\* loadState of what saveStateLocked wrote.
Restarted ==
  /\ targets' = LoadedTargets(targets, Now)
  /\ results' = LoadedResults(results)
  /\ active' = LoadedActive(PersistedActive(active), DOMAIN results')
  /\ UNCHANGED <<processVars, config, public, name, reporting>>

DispatchedNext ==
  \/ Register \/ TargetGone \/ Renamed \/ Runs \/ Reports \/ Delivered \/ Restarted
  \/ \E q \in Dispatches, build \in Builds : Dispatch(q, build)

\* The runner's goroutines go on, its timers run out, signals take effect.  Nothing
\* ends the command or its children but the signals, and nothing git's helpers.
DispatchedSpec ==
  /\ DispatchedInit /\ [][DispatchedNext]_dispatchedVars
  /\ WF_dispatchedVars(Dispatched # {} /\ JobStep /\ Told)
  /\ WF_dispatchedVars(Dispatched # {} /\ GuardStep /\ Told)
  /\ WF_dispatchedVars(Dispatched # {} /\ Interrupts /\ Told)
  /\ WF_dispatchedVars(Dispatched # {} /\ TimesOut /\ Told)
  /\ WF_dispatchedVars(Dispatched # {} /\ GitKilled /\ Told)
  /\ \A p \in Children \cup {Command} : WF_dispatchedVars(Dispatched # {} /\ Obeys(p) /\ Told)

-----------------------------------------------------------------------------
(***************************************************************************)
(* Properties.                                                             *)
(***************************************************************************)
Names == {config.publicURL, NoURL} \cup TunnelURLs

DispatchedTypeOK ==
  /\ ProcessTypeOK
  /\ config \in Configs /\ public \in Names /\ name \in Names \cup {None}
  /\ DOMAIN targets \subseteq {config.id}
  /\ Cardinality(Dispatched) <= 1
  /\ \A r \in DOMAIN active : /\ active[r].request \in Dispatches /\ active[r].request.id = r
                             /\ active[r].machine = config.id /\ active[r].build \in Builds
  /\ entry # None <=> at = "ended"
  /\ report # None => report.record = entry.record
  /\ answer \in {"none", "invalid", "recorded", "different", "new", "mismatch", "inactive"}

\* A dispatched build comes to its end, by its timeout at the latest, whatever the
\* command, its children and git ignore, fork or keep open: unless output is kept open
\* for ever by a process that left the group, which scanLines waits for, or by a helper
\* of a git that has ended, which CombinedOutput waits for.
OutputLetGo == <>[](left \cap holding = {}) /\ []<>(helper => git = "running")
JobEnds == OutputLetGo => (Dispatched # {} ~> at = "ended")

\* The clocks agree on how long the job took, to within what the coordinator allows.
ClocksAgree ==
  LET wall == entry.record.ended - entry.record.started
  IN wall >= 0 /\ Distance(wall, entry.elapsed) <= ResultDurationTolerance

\* The report of a dispatched build is accepted by the coordinator when it comes,
\* through all that reportBuild, dispatchToTarget and recordResult make of the
\* job, the Mac and its URL: unless the wall clock was set while the job ran, or
\* the tunnel has another name than the one that the Mac registered.
ReportRecorded ==
  report # None /\ ClocksAgree /\ report.publicURL \in {name, NoURL}
    => RecordAnswer(report, results, active) \in {"new", "recorded"}

\* What one program tells another is never refused by the other's checks: the
\* status of a build, from memory and from the ledger, passes
\* validateBuildStatusResponse, the event of an accepted build passes
\* validateAcceptedBuildEvent, and a recorded result ValidateForRequest.
Readable ==
  /\ \A r \in DOMAIN active :
       /\ ValidAcceptedEvent(AcceptedEvent(active[r]), active[r].request)
       /\ LET a == active[r]
              b == BuildRequest(a.request, ReportURL)
              told == IF entry = None THEN LedgerRecord(a.build, b, 0, 0, NoRecord) ELSE entry.record
          IN ValidBuildStatus(RunStatus(a.build, b, at # "queued", told))
  /\ entry # None => ValidLedgerRecord(entry.record) /\ ValidBuildStatus(LedgerStatus(entry.record))
  /\ \A r \in DOMAIN results, q \in Dispatches :
       q.id = r /\ SameDispatchResult(q, results[r]) => ValidForRequest(results[r], q)

\* A restart in which no lease runs out keeps every target, every accepted dispatch
\* and every result: what register, dispatchBuild and recordResult let in passes
\* the checks of loadState.
RestartKeeps ==
  [][/\ targets' # targets => targets = Empty \/ targets' = Empty
     /\ DOMAIN active \subseteq DOMAIN active' \cup DOMAIN results'
     /\ \A r \in DOMAIN results : r \in DOMAIN results' /\ results'[r] = results[r]]_coordinator

\* docs/operations.md: "Repeating a dispatch after a result has already been recorded
\* returns the recorded result": the command takes what writeRecordedResult writes.
RepeatReadable ==
  \A r \in DOMAIN results, q \in Dispatches :
    q.id = r /\ SameDispatchResult(q, results[r]) => ValidAcceptedEvent(RecordedEvent(results[r]), q)

=============================================================================
