----------------------- MODULE DispatchedBuildProofs -----------------------
(***************************************************************************)
(* A dispatched build, for any configurations, requests, tunnels, clocks   *)
(* and processes: what one program tells is readable by the next, a restart*)
(* of the coordinator keeps what it let in, and a report is refused for its*)
(* clocks or its tunnel only.                                              *)
(*                                                                         *)
(* None is inductive: that a stored dispatch passes the checks of a     *)
(* restart and of the command rests on the checks that it passed before it *)
(* was stored, and that an outcome is told of the dispatch on record rests *)
(* on the order of the job, its entry, its report and the result.          *)
(***************************************************************************)
EXTENDS DispatchedBuild, RulesProofs, FiniteSetTheorems

\* What came after what: at most one of dispatch and result, no result without
\* a report, no report without an entry, no entry before the job's end.
InOrder ==
  /\ DOMAIN active = {} \/ DOMAIN results = {}
  /\ \A r \in DOMAIN active, s \in DOMAIN active : r = s
  /\ results # Empty => report # None
  /\ report # None => entry # None
  /\ entry # None => at = "ended"
  /\ git # "off" => at = "preparing" /\ workspace = "made"

TargetKept ==
  targets = Empty \/ /\ Registrable(Registration(name))
                     /\ targets = [m \in {config.id} |-> NormalizeLease(Registration(name), Now)]

ActiveKept ==
  \A r \in DOMAIN active : r = active[r].request.id /\ ValidActive(active[r])

\* LedgerRecords of accepted builds.
TellsBuild(x) ==
  /\ {x.build, x.job, x.id} \subseteq Identifiers /\ SafeCheckout(x)
  /\ x.started # 0 /\ x.ended # 0

Of(x, a) == x.build = a.build /\ x.job = a.request.job /\ x.id = a.request.id

EntryKept ==
  /\ entry # None => TellsBuild(entry.record) /\ \A r \in DOMAIN active : Of(entry.record, active[r])
  /\ results = Empty \/ \E r : results = [s \in {r} |-> results[r]]
                             /\ r = results[r].record.id /\ ValidRecorded(results[r])

Kept == InOrder /\ TargetKept /\ ActiveKept /\ EntryKept

LEMMA EmptyDomain == DOMAIN Empty = {}
  BY DEF Empty

LEMMA KeptInit == DispatchedInit => Kept
<1> SUFFICES ASSUME DispatchedInit PROVE Kept
  OBVIOUS
<1>1. /\ targets = Empty /\ active = Empty /\ results = Empty
      /\ entry = None /\ report = None /\ git = "off"
  BY DEF DispatchedInit, ProcessInit
<1>2. InOrder
  BY <1>1, EmptyDomain DEF InOrder
<1>3. TargetKept /\ ActiveKept /\ EntryKept
  BY <1>1, EmptyDomain DEF TargetKept, ActiveKept, EntryKept
<1>4. QED
  BY <1>2, <1>3 DEF Kept

-----------------------------------------------------------------------------
\* A finished job stays finished, and git runs only while the workspace is prepared.
LEMMA JobFinished ==
  ASSUME ProcessNext, git # "off" => at = "preparing" /\ workspace = "made"
  PROVE  /\ git' # "off" => at' = "preparing" /\ workspace' = "made"
         /\ at = "ended" => at' = "ended"
<1>1. CASE JobBegins \/ WorkspaceMade \/ PrepareFails \/ GitStarts \/ StartFails
  BY <1>1 DEF JobBegins, WorkspaceMade, PrepareFails, GitStarts, StartFails, FinishWithError, processes
<1>2. CASE GitReturns
  BY <1>2 DEF GitReturns, FinishWithError
<1>3. CASE CommandStarts \/ CommandWaited \/ GuardsStopped \/ CleanedUp
  BY <1>3 DEF CommandStarts, CommandWaited, GuardsStopped, CleanedUp
<1>4. CASE GuardStep \/ Interrupts \/ PowerEnds
  BY <1>4 DEF GuardStep, GuardSignals, GuardKills, GuardReleased, Interrupts, PowerEnds, jobVars
<1>5. CASE Canceled \/ TimesOut \/ QueuedCanceled
  BY <1>5 DEF Canceled, TimesOut, QueuedCanceled
<1>6. CASE GitEnds \/ GitKilled \/ HelperEnds
  BY <1>6 DEF GitEnds, GitKilled, HelperEnds
<1>7. CASE \E p \in running : Gone(p) \/ ClosesOutput(p) \/ \E c \in Children : Forks(p, c)
  BY <1>7 DEF Gone, ClosesOutput, Forks, jobVars
<1>8. QED
  BY <1>1, <1>2, <1>3, <1>4, <1>5, <1>6, <1>7 DEF ProcessNext, JobStep, ProcessStep

\* The record that Told makes is of the dispatch on record.
LEMMA ToldOfDispatch ==
  ASSUME Kept, Runs
  PROVE  entry' # None => /\ TellsBuild(entry'.record) /\ at' = "ended"
                          /\ \A r \in DOMAIN active : Of(entry'.record, active[r])
<1>1. CASE at = "ended" \/ at' # "ended"
  BY <1>1, JobFinished DEF Runs, Told, Kept, InOrder, EntryKept
<1>2. CASE at # "ended" /\ at' = "ended"
  <2> DEFINE a == TheDispatch
             b == BuildRequest(a.request, ReportURL)
  <2>1. entry = None /\ report = None /\ results = Empty
    BY <1>2 DEF Kept, InOrder
  <2>2. DOMAIN active # {}
    BY <2>1, EmptyDomain DEF Runs, Dispatched
  <2>3. PICK r \in DOMAIN active : a = active[r]
    BY <2>2 DEF TheDispatch
  <2>4. ValidActive(a)
    BY <2>3 DEF Kept, ActiveKept
  <2>5. {a.build, a.request.job, a.request.id} \subseteq Identifiers /\ SafeCheckout(a.request)
    BY <2>4 DEF ValidActive, ValidDispatchRequest, ValidMetadata
  <2>6. PICK clock \in (IF at = "queued" THEN {[ended |-> Start, elapsed |-> 0]} ELSE Clocks) :
          entry' = [record |-> LedgerRecord(a.build, b, Start, clock.ended, record'),
                    elapsed |-> clock.elapsed]
    BY <1>2 DEF Runs, Told
  <2>7. clock.ended # 0
    BY DispatchedAssumption DEF Start
  <2> DEFINE x == LedgerRecord(a.build, b, Start, clock.ended, record')
  <2>8. /\ x.build = a.build /\ x.job = a.request.job /\ x.id = a.request.id
        /\ x.repo = a.request.repo /\ x.ref = a.request.ref /\ x.commit = a.request.commit
        /\ x.started = Start /\ x.ended = clock.ended
    BY DEF LedgerRecord, BuildRequest
  <2>9. entry'.record = x
    BY <2>6
  <2> HIDE DEF x, b
  <2>10. TellsBuild(x)
    <3>1. SafeCheckout(x)
      BY <2>5, <2>8 DEF SafeCheckout
    <3>2. x.started # 0
      BY <2>8 DEF Start
    <3>3. QED
      BY <2>5, <2>7, <2>8, <3>1, <3>2 DEF TellsBuild
  <2>11. \A s \in DOMAIN active : Of(x, active[s])
    BY <2>3, <2>8 DEF Kept, InOrder, Of
  <2>12. QED
    BY <1>2, <2>9, <2>10, <2>11
<1>3. QED
  BY <1>1, <1>2

-----------------------------------------------------------------------------
LEMMA EmptyReloads == LoadedTargets(Empty, Now) = Empty /\ LoadedResults(Empty) = Empty
  BY EmptyDomain DEF LoadedTargets, LoadedResults, Empty

LEMMA LeaseStays ==
  LET l == NormalizedLease(Now + Lease, Now)
  IN l # 0 /\ l >= Now /\ NormalizedLease(l, Now) = l
<1>1. DefaultTargetLease \in Int /\ MaxTargetLease \in Nat
  BY LeaseAssumption
<1>2. QED
  BY <1>1 DEF NormalizedLease, Now, Lease

\* A configuration that Config.Validate lets a runner start with, on a Mac that is
\* supported, never makes a registration that the coordinator refuses.
THEOREM RegistrationWelcome ==
  ASSUME ValidConfig(config), Supported(config.mac),
         NEW url, url # NoURL => ValidBaseURL(url)
  PROVE  Registrable(Registration(url))
<1> DEFINE t == Registration(url)
<1>1. /\ t.id = config.id /\ t.listen = config.listen /\ t.publicURL = url /\ t.mac = config.mac
      /\ t.active = 0 /\ t.queued = 0 /\ t.limit = 25 /\ t.jobs = {job.id : job \in config.jobs}
  BY DEF Registration
<1>2. config.listen # "" /\ ListenIsLoopback(config.listen)
  BY DEF ValidConfig, ListenIsLoopback
<1>3. t.jobs \subseteq Identifiers
  BY <1>1 DEF ValidConfig, ValidJobs
<1> HIDE DEF t
<1>4. t.active >= 0 /\ t.queued >= 0 /\ t.limit >= 0
  BY <1>1
<1>5. /\ t.publicURL # NoURL \/ t.listen # ""
      /\ t.listen # "" => ListenIsLoopback(t.listen)
      /\ t.publicURL # NoURL => ValidBaseURL(t.publicURL)
      /\ Supported(t.mac)
  BY <1>1, <1>2
<1>6. Eligible(t)
  BY <1>3, <1>4, <1>5 DEF Eligible
<1>7. t.id \in Identifiers
  BY <1>1 DEF ValidConfig
<1>8. QED
  BY <1>6, <1>7 DEF Registrable, t

\* A registered target is reloaded as it was.
LEMMA RegisteredReloads ==
  ASSUME NEW url, Registrable(Registration(url)),
         targets = [m \in {config.id} |-> NormalizeLease(Registration(url), Now)]
  PROVE  LoadedTargets(targets, Now) = targets
<1> DEFINE t == Registration(url)
           l == NormalizedLease(Now + Lease, Now)
           n == NormalizeLease(t, Now)
<1>1. t.lease = Now + Lease /\ t.id = config.id
  BY DEF Registration
<1>2. n = [t EXCEPT !.lease = l]
  BY <1>1 DEF NormalizeLease
<1> HIDE DEF l, n
<1>3. n.lease = l /\ n.id = config.id /\ [n EXCEPT !.lease = l] = n
  BY <1>2 DEF Registration
<1>4. Eligible(n)
  <2>1. /\ n.publicURL = t.publicURL /\ n.listen = t.listen /\ n.jobs = t.jobs
        /\ n.active = t.active /\ n.queued = t.queued /\ n.limit = t.limit /\ n.mac = t.mac
    BY <1>2 DEF Registration
  <2>2. Eligible(t)
    BY DEF Registrable
  <2> HIDE DEF t
  <2>3. QED
    BY <2>1, <2>2 DEF Eligible
<1>5. l # 0 /\ l >= Now /\ NormalizedLease(l, Now) = l
  BY LeaseStays DEF l
<1>6. NormalizeLease(n, Now) = n
  BY <1>3, <1>5 DEF NormalizeLease
<1>7. Leased(n, Now)
  BY <1>3, <1>5 DEF Leased
<1>8. config.id # ""
  BY <1>1, NamesAssumption DEF Registrable
<1>9. targets = [m \in {config.id} |-> n]
  BY DEF n
<1> HIDE DEF t
<1>10. DOMAIN targets = {config.id} /\ targets[config.id] = n
  BY <1>9
<1>11. {m \in DOMAIN targets : /\ m # "" /\ m = targets[m].id
                               /\ Leased(targets[m], Now) /\ Eligible(targets[m])} = {config.id}
  BY <1>3, <1>4, <1>7, <1>8, <1>10
<1>12. LoadedTargets(targets, Now) = [m \in {config.id} |-> NormalizeLease(targets[m], Now)]
  BY <1>11 DEF LoadedTargets
<1>13. QED
  BY <1>6, <1>9, <1>10, <1>12

LEMMA TargetsReload == TargetKept => LoadedTargets(targets, Now) = targets
  BY RegisteredReloads, EmptyReloads DEF TargetKept

LEMMA ResultsReload == EntryKept => LoadedResults(results) = results
<1> SUFFICES ASSUME EntryKept, results # Empty PROVE LoadedResults(results) = results
  BY EmptyReloads
<1>1. PICK r : /\ results = [s \in {r} |-> results[r]]
               /\ r = results[r].record.id /\ ValidRecorded(results[r])
  BY DEF EntryKept
<1>2. DOMAIN results = {r}
  BY <1>1
<1>3. {s \in DOMAIN results : s = results[s].record.id /\ ValidResult(results[s])} = {r}
  BY <1>1, <1>2 DEF ValidRecorded
<1>4. QED
  BY <1>1, <1>3 DEF LoadedResults

-----------------------------------------------------------------------------
\* One lemma per action that disturbs a part of Kept.
LEMMA KeptDispatch ==
  ASSUME Kept, NEW q, NEW build \in Builds, Dispatch(q, build)
  PROVE  Kept'
<1> DEFINE b == BuildRequest(q, ReportURL)
<1>1. PICK t \in DispatchTargets(targets, [m \in DOMAIN targets |-> 0], q, Now) :
        /\ ValidStart(RunnerBaseURL(t), b)
        /\ active' = [r \in {q.id} |-> [request |-> q, machine |-> t.id,
                                        base |-> RunnerBaseURL(t), build |-> build]]
  BY DEF Dispatch
<1>2. /\ at = "queued" /\ DOMAIN active = {} /\ DOMAIN results = {} /\ ValidDispatchRequest(q)
      /\ UNCHANGED <<at, git, workspace, config, name, targets, results, entry, report>>
  BY DEF Dispatch, Dispatched, processVars, jobVars, reporting
<1>3. t.id \in Identifiers
  <2>1. PICK m \in DOMAIN targets : t = WithReservations(targets[m], [k \in DOMAIN targets |-> 0])
    BY DEF DispatchTargets, PinnedTargets, UnpinnedTargets, EligibleTargets, Live
  <2>2. targets # Empty
    BY <2>1, EmptyDomain
  <2>3. Registrable(Registration(name)) /\ targets[m] = NormalizeLease(Registration(name), Now)
    BY <2>1, <2>2 DEF Kept, TargetKept
  <2>4. targets[m].id = Registration(name).id
    BY <2>3 DEF NormalizeLease, Registration
  <2>5. t.id = targets[m].id
    BY <2>1, <2>3 DEF WithReservations, NormalizeLease, Registration
  <2>6. QED
    BY <2>3, <2>4, <2>5 DEF Registrable
<1>4. build \in Identifiers
  BY DispatchedAssumption
<1>5. ValidActive(AcceptedBy(q, t, build))
  BY <1>1, <1>2, <1>3, <1>4, AcceptedValid
<1>6. active' = [r \in {q.id} |-> AcceptedBy(q, t, build)] /\ AcceptedBy(q, t, build).request = q
  BY <1>1 DEF AcceptedBy
<1>7. ActiveKept'
  BY <1>5, <1>6 DEF ActiveKept
<1>8. InOrder'
  BY <1>2, <1>6 DEF Kept, InOrder
<1>9. TargetKept' /\ EntryKept'
  BY <1>2 DEF Kept, InOrder, TargetKept, EntryKept, Registration
<1>10. QED
  BY <1>7, <1>8, <1>9 DEF Kept

LEMMA KeptRuns == ASSUME Kept, Runs PROVE Kept'
<1>1. UNCHANGED <<config, name, targets, active, results, report>>
  BY DEF Runs, Told, coordinator
<1>2. entry' # None => /\ TellsBuild(entry'.record) /\ at' = "ended"
                       /\ \A r \in DOMAIN active : Of(entry'.record, active[r])
  BY ToldOfDispatch
<1>3. entry # None => entry' # None
  BY JobFinished DEF Runs, Told, Kept, InOrder
<1>4. git' # "off" => at' = "preparing" /\ workspace' = "made"
  BY JobFinished DEF Runs, Kept, InOrder
<1>5. InOrder'
  BY <1>1, <1>2, <1>3, <1>4 DEF Kept, InOrder
<1>6. TargetKept' /\ ActiveKept' /\ EntryKept'
  BY <1>1, <1>2 DEF Kept, TargetKept, ActiveKept, EntryKept, Registration
<1>7. QED
  BY <1>5, <1>6 DEF Kept

LEMMA KeptDelivered == ASSUME Kept, Delivered PROVE Kept'
<1>1. /\ report # None
      /\ UNCHANGED <<at, git, workspace, config, name, targets, entry, report>>
  BY DEF Delivered, processVars, jobVars
<1>2. TargetKept'
  BY <1>1 DEF Kept, TargetKept, Registration
<1>3. CASE UNCHANGED <<active, results>>
  BY <1>1, <1>2, <1>3 DEF Kept, InOrder, ActiveKept, EntryKept
<1>4. CASE RecordAnswer(report, results, active) = "new"
  <2> DEFINE r == report.record.id
  <2>1. results' = [s \in {r} |-> report] /\ active' = Empty
    BY <1>4 DEF Delivered
  <2>2. r \in DOMAIN active
    BY <1>4 DEF RecordAnswer
  <2>3. ValidRecorded(report)
    BY <1>4, <2>2, RecordedKept DEF Kept, ActiveKept
  <2>4. EntryKept'
    BY <1>1, <2>1, <2>3, EmptyDomain DEF Kept, EntryKept
  <2>5. InOrder' /\ ActiveKept'
    BY <1>1, <2>1, EmptyDomain DEF Kept, InOrder, ActiveKept
  <2>6. QED
    BY <1>2, <2>4, <2>5 DEF Kept
<1>5. QED
  BY <1>3, <1>4 DEF Delivered

LEMMA KeptRestarted == ASSUME Kept, Restarted PROVE Kept'
<1>1. UNCHANGED <<at, git, workspace, config, name, entry, report>>
  BY DEF Restarted, processVars, jobVars, reporting
<1>2. targets' = targets /\ results' = results
  BY TargetsReload, ResultsReload DEF Restarted, Kept
<1>3. /\ DOMAIN active' \subseteq DOMAIN active
      /\ \A r \in DOMAIN active' : active'[r] = active[r]
  BY DEF Restarted, LoadedActive, PersistedActive
<1>4. InOrder'
  BY <1>1, <1>2, <1>3 DEF Kept, InOrder
<1>5. ActiveKept'
  BY <1>3 DEF Kept, ActiveKept
<1>6. TargetKept' /\ EntryKept'
  BY <1>1, <1>2, <1>3 DEF Kept, TargetKept, EntryKept, Registration
<1>7. QED
  BY <1>4, <1>5, <1>6 DEF Kept

LEMMA KeptNext == Kept /\ [DispatchedNext]_dispatchedVars => Kept'
<1> SUFFICES ASSUME Kept, [DispatchedNext]_dispatchedVars PROVE Kept'
  OBVIOUS
<1>1. CASE Register
  <2>1. UNCHANGED <<at, git, workspace, config, active, results, entry, report>>
    BY <1>1 DEF Register, processVars, jobVars, reporting
  <2>2. /\ Registrable(Registration(name'))
        /\ targets' = [m \in {config.id} |-> NormalizeLease(Registration(name'), Now)]
    BY <1>1 DEF Register
  <2>3. Registration(name)' = Registration(name')
    BY <2>1 DEF Registration
  <2>4. TargetKept'
    BY <2>1, <2>2, <2>3 DEF TargetKept
  <2>5. QED
    BY <2>1, <2>4 DEF Kept, InOrder, ActiveKept, EntryKept
<1>2. CASE TargetGone \/ Renamed \/ Reports \/ UNCHANGED dispatchedVars
  <2>1. UNCHANGED <<at, git, workspace, config, name, active, results, entry>>
    BY <1>2 DEF TargetGone, Renamed, Reports, dispatchedVars, processVars, jobVars, coordinator, reporting
  <2>2. targets' \in {targets, Empty} /\ (report' = report \/ (entry # None /\ report = None))
    BY <1>2 DEF TargetGone, Renamed, Reports, dispatchedVars, coordinator, reporting
  <2>3. report # None => report' = report
    BY <2>2
  <2>4. report' # None => entry # None
    BY <2>2 DEF Kept, InOrder
  <2>5. InOrder'
    BY <2>1, <2>3, <2>4 DEF Kept, InOrder
  <2>6. TargetKept' /\ ActiveKept' /\ EntryKept'
    BY <2>1, <2>2 DEF Kept, TargetKept, ActiveKept, EntryKept, Registration
  <2>7. QED
    BY <2>5, <2>6 DEF Kept
<1>3. CASE Runs
  BY <1>3, KeptRuns
<1>4. CASE Delivered
  BY <1>4, KeptDelivered
<1>5. CASE Restarted
  BY <1>5, KeptRestarted
<1>6. CASE \E q \in Dispatches, build \in Builds : Dispatch(q, build)
  BY <1>6, KeptDispatch
<1>7. QED
  BY <1>1, <1>2, <1>3, <1>4, <1>5, <1>6 DEF DispatchedNext

-----------------------------------------------------------------------------
LEMMA ReadableKept == Kept => Readable
<1> SUFFICES ASSUME Kept PROVE Readable
  OBVIOUS
<1>1. ASSUME NEW x, TellsBuild(x)
      PROVE  /\ ValidLedgerRecord(x) /\ ValidBuildStatus(LedgerStatus(x))
             /\ \A started \in BOOLEAN : ValidBuildStatus(RunStatus(x.build, x, started, x))
  BY <1>1, StatusReadable DEF TellsBuild, ValidLedgerRecord
<1>2. ASSUME NEW r \in DOMAIN active
      PROVE  LET a == active[r]
                 b == BuildRequest(a.request, ReportURL)
                 told == IF entry = None THEN LedgerRecord(a.build, b, 0, 0, NoRecord) ELSE entry.record
             IN ValidBuildStatus(RunStatus(a.build, b, at # "queued", told))
  <2> DEFINE a == active[r]
             b == BuildRequest(a.request, ReportURL)
  <2>1. ValidActive(a)
    BY DEF Kept, ActiveKept
  <2>2. {a.build, b.job, b.id} \subseteq Identifiers
    BY <2>1 DEF ValidActive, ValidDispatchRequest, BuildRequest
  <2>3. ASSUME entry = None
        PROVE  ValidBuildStatus(RunStatus(a.build, b, at # "queued",
                                          LedgerRecord(a.build, b, 0, 0, NoRecord)))
    <3>1. ~Terminal(LedgerRecord(a.build, b, 0, 0, NoRecord))
      BY DEF Terminal, LedgerRecord
    <3>2. \A word \in {"queued", "running"} : ValidBuildStatus(BuildStatus(a.build, b, word, NoResult))
      BY <2>2 DEF ValidBuildStatus, BuildStatus
    <3>3. QED
      BY <3>1, <3>2 DEF RunStatus
  <2>4. ASSUME entry # None
        PROVE  ValidBuildStatus(RunStatus(a.build, b, at # "queued", entry.record))
    <3>1. TellsBuild(entry.record) /\ Of(entry.record, a)
      BY <2>4 DEF Kept, EntryKept
    <3>2. b.job = entry.record.job /\ b.id = entry.record.id /\ a.build = entry.record.build
      BY <3>1 DEF Of, BuildRequest
    <3>3. RunStatus(a.build, b, at # "queued", entry.record) = LedgerStatus(entry.record)
      BY <3>1, <3>2 DEF RunStatus, Terminal, TellsBuild, LedgerStatus, BuildStatus
    <3>4. QED
      BY <1>1, <3>1, <3>3
  <2>5. QED
    BY <2>3, <2>4
<1>3. \A r \in DOMAIN active : ValidAcceptedEvent(AcceptedEvent(active[r]), active[r].request)
  BY AcceptedReadable DEF Kept, ActiveKept
<1>4. entry # None => ValidLedgerRecord(entry.record) /\ ValidBuildStatus(LedgerStatus(entry.record))
  BY <1>1 DEF Kept, EntryKept
<1>5. ASSUME NEW r \in DOMAIN results, NEW q \in Dispatches, q.id = r, SameDispatchResult(q, results[r])
      PROVE  ValidForRequest(results[r], q)
  <2>1. results # Empty
    BY EmptyDomain
  <2>2. ValidRecorded(results[r])
    BY <2>1 DEF Kept, EntryKept
  <2>3. QED
    BY <1>5, <2>2, RecordedReadable
<1>6. QED
  BY <1>2, <1>3, <1>4, <1>5 DEF Readable

\* No program ever refuses what another tells it: neither the command the status, the
\* accepted event and the result of its build, nor the runner its own ledger.
THEOREM AlwaysReadable == DispatchedSpec => []Readable
<1>1. DispatchedInit => Kept
  BY KeptInit
<1>2. Kept /\ [DispatchedNext]_dispatchedVars => Kept'
  BY KeptNext
<1>3. QED
  BY <1>1, <1>2, ReadableKept, PTL DEF DispatchedSpec

LEMMA KeptByRestart ==
  ASSUME Kept, [DispatchedNext]_dispatchedVars
  PROVE  /\ targets' # targets => targets = Empty \/ targets' = Empty
         /\ DOMAIN active \subseteq DOMAIN active' \cup DOMAIN results'
         /\ \A r \in DOMAIN results : r \in DOMAIN results' /\ results'[r] = results[r]
<1>1. CASE Register \/ TargetGone \/ Renamed \/ Reports \/ Runs \/ UNCHANGED dispatchedVars
  <2>1. UNCHANGED <<active, results>>
    BY <1>1 DEF Register, TargetGone, Renamed, Reports, Runs, Told, dispatchedVars, coordinator
  <2>2. targets' # targets => targets = Empty \/ targets' = Empty
    BY <1>1 DEF Register, TargetGone, Renamed, Reports, Runs, Told, dispatchedVars, coordinator
  <2>3. QED
    BY <2>1, <2>2
<1>2. CASE \E q \in Dispatches, build \in Builds : Dispatch(q, build)
  BY <1>2 DEF Dispatch, Dispatched
<1>3. CASE Delivered
  <2>1. targets' = targets
    BY <1>3 DEF Delivered
  <2>2. CASE UNCHANGED <<active, results>>
    BY <2>1, <2>2
  <2>3. CASE RecordAnswer(report, results, active) = "new"
    <3>1. report.record.id \in DOMAIN active /\ results' = [s \in {report.record.id} |-> report]
      BY <1>3, <2>3 DEF Delivered, RecordAnswer
    <3>2. DOMAIN results = {} /\ DOMAIN active = {report.record.id}
      BY <3>1 DEF Kept, InOrder
    <3>3. QED
      BY <2>1, <3>1, <3>2
  <2>4. QED
    BY <1>3, <2>2, <2>3 DEF Delivered
<1>4. CASE Restarted
  <2>1. targets' = targets /\ results' = results
    BY <1>4, TargetsReload, ResultsReload DEF Restarted, Kept
  <2>2. active' = LoadedActive(PersistedActive(active), DOMAIN results)
    BY <1>4, <2>1 DEF Restarted
  <2>3. \A r \in DOMAIN active : r = active[r].request.id /\ ValidActive(active[r])
                                 /\ r \notin DOMAIN results
    BY DEF Kept, ActiveKept, InOrder
  <2>4. DOMAIN active \subseteq DOMAIN active'
    BY <2>2, <2>3, ActiveReload
  <2>5. QED
    BY <2>1, <2>4
<1>5. QED
  BY <1>1, <1>2, <1>3, <1>4 DEF DispatchedNext

\* A restart of the coordinator forgets no target, no accepted dispatch and no result.
THEOREM RestartAlwaysKeeps == DispatchedSpec => RestartKeeps
<1>1. DispatchedInit => Kept
  BY KeptInit
<1>2. Kept /\ [DispatchedNext]_dispatchedVars => Kept'
  BY KeptNext
<1>3. Kept /\ [DispatchedNext]_dispatchedVars
        => [/\ targets' # targets => targets = Empty \/ targets' = Empty
            /\ DOMAIN active \subseteq DOMAIN active' \cup DOMAIN results'
            /\ \A r \in DOMAIN results : r \in DOMAIN results' /\ results'[r] = results[r]]_coordinator
  BY KeptByRestart
<1>4. QED
  BY <1>1, <1>2, <1>3, PTL DEF DispatchedSpec, RestartKeeps

-----------------------------------------------------------------------------
(***************************************************************************)
(* What the types and the acceptance of the report rest on.                *)
(***************************************************************************)
\* What the job and its watchers are in, the git commands left, what runs, and
\* the processes: nothing runs before the command is started.
Words ==
  /\ at \in {"queued", "preparing", "starting", "running", "unwinding", "cleaning", "ended"}
  /\ ctx \in {"live", "canceled", "timed out"}
  /\ git \in {"off", "running", "ok", "bad"}
  /\ workspace \in {"none", "made", "removed"}
  /\ exit \in {"none", "zero", "nonzero", "signal"}
  /\ guard \in {"off", "watching", "grace", "over"}
  /\ interrupt \in {"watching", "sent", "denied", "missed"}

GitsLeft == gits \in 0..3 /\ (at = "preparing" => gits >= 1)

Switches == helper \in BOOLEAN /\ power \in BOOLEAN

Groups ==
  /\ running \subseteq forked \cup {Command} /\ forked \subseteq Children
  /\ holding \subseteq running /\ deaf \subseteq running /\ left \subseteq running
  /\ termed \subseteq running
  /\ at \in {"queued", "preparing", "starting"} => running = {}

Outcomes ==
  record \in [exit : {-1, 0, 1},
    error : {"unset", "none", "build canceled", "build timed out", "other"}]

ProcessKept == Words /\ GitsLeft /\ Switches /\ Groups /\ Outcomes

\* The Mac is reached by the name it registered, or where it listens.
Named == name = NoURL <=> public = NoURL

PlaceKept ==
  /\ config \in Configs
  /\ public \in IF config.publicURL # NoURL THEN {config.publicURL}
                ELSE IF config.mode = "quick" THEN TunnelURLs ELSE {NoURL}
  /\ name \in Names \cup {None}
  /\ name # None => Named
  /\ targets # Empty \/ Dispatched # {} => Named /\ Registrable(Registration(name))
  /\ at # "queued" => Dispatched # {}

\* What the coordinator has of the dispatch is what it asked the Mac for.
PlacedAt(a) ==
  /\ a.request \in Dispatches /\ a.build \in Builds
  /\ a.machine = config.id
  /\ a.base = IF name # NoURL THEN name ELSE ListenURL(config.listen)

Placed == \A r \in DOMAIN active : PlacedAt(active[r])

\* The record is that of the dispatch, the report that of the record, and the
\* result that of the report.
EntryOf(a) ==
  entry.record = LedgerRecord(a.build, BuildRequest(a.request, ReportURL),
                              Start, entry.record.ended, entry.record)

EntryTold ==
  /\ at = "ended" => entry # None
  /\ entry # None => /\ entry.elapsed \in Nat /\ entry.record.ended \in Int \ {0}
                     /\ \A r \in DOMAIN active : EntryOf(active[r])

ReportMade ==
  /\ report # None => /\ report = Report(config, entry.record, report.publicURL, entry.elapsed)
                      /\ report.publicURL = NoURL <=> name = NoURL
  /\ results # Empty => results = [s \in {report.record.id} |-> report]
  /\ answer \in {"none", "invalid", "recorded", "different", "new", "mismatch", "inactive"}

Accounted == ProcessKept /\ PlaceKept /\ Placed /\ EntryTold /\ ReportMade

LEMMA ProcessStarts == ProcessInit => ProcessKept
<1> SUFFICES ASSUME ProcessInit PROVE ProcessKept
  OBVIOUS
<1>1. Words
  BY DEF ProcessInit, Words
<1>2. GitsLeft
  BY DEF ProcessInit, GitsLeft
<1>3. Switches
  BY DEF ProcessInit, Switches
<1>4. Groups
  BY DEF ProcessInit, Groups
<1>5. Outcomes
  BY DEF ProcessInit, Outcomes, NoRecord
<1> QED
  BY <1>1, <1>2, <1>3, <1>4, <1>5 DEF ProcessKept

LEMMA WordsKeep == ASSUME Words, ProcessNext PROVE Words'
<1> USE DEF Words
<1>1. CASE Canceled \/ TimesOut \/ QueuedCanceled
  BY <1>1 DEF Canceled, TimesOut, QueuedCanceled, processes, watchers
<1>2. CASE JobBegins \/ WorkspaceMade \/ PrepareFails \/ GitStarts \/ StartFails
  BY <1>2 DEF JobBegins, WorkspaceMade, PrepareFails, GitStarts, StartFails, FinishWithError,
              processes, watchers
<1>3. CASE GitReturns
  BY <1>3 DEF GitReturns, FinishWithError, processes, watchers
<1>4. CASE CommandStarts \/ CommandWaited \/ GuardsStopped \/ CleanedUp
  BY <1>4 DEF CommandStarts, CommandWaited, GuardsStopped, CleanedUp, processes, watchers
<1>5. CASE GuardStep \/ PowerEnds
  BY <1>5 DEF GuardStep, GuardSignals, GuardKills, GuardReleased, PowerEnds, jobVars, processes
<1>6. CASE Interrupts
  <2>1. interrupt' \in {"watching", "sent", "denied", "missed"}
    BY <1>6 DEF Interrupts, Signaled
  <2>2. UNCHANGED <<at, ctx, git, workspace, exit, guard>>
    BY <1>6 DEF Interrupts, jobVars
  <2> QED
    BY <2>1, <2>2
<1>7. CASE \E p \in running : Gone(p) \/ ClosesOutput(p) \/ \E c \in Children : Forks(p, c)
  <2>1. UNCHANGED <<jobVars, watchers>>
    BY <1>7 DEF Gone, ClosesOutput, Forks
  <2>2. exit' \in {"none", "zero", "nonzero", "signal"}
    BY <1>7 DEF Gone, ClosesOutput, Forks
  <2> QED
    BY <2>1, <2>2 DEF jobVars, watchers
<1>8. CASE GitEnds \/ GitKilled \/ HelperEnds
  BY <1>8 DEF GitEnds, GitKilled, HelperEnds, processes, watchers
<1> QED
  BY <1>1, <1>2, <1>3, <1>4, <1>5, <1>6, <1>7, <1>8 DEF ProcessNext, JobStep, ProcessStep

LEMMA GitsLeftKeep ==
  ASSUME GitsLeft, ProcessNext, git # "off" => at = "preparing" /\ workspace = "made"
  PROVE  GitsLeft'
<1> USE DEF GitsLeft
<1>1. CASE Canceled \/ TimesOut \/ QueuedCanceled
  BY <1>1 DEF Canceled, TimesOut, QueuedCanceled
<1>2. CASE JobBegins
  BY <1>2 DEF JobBegins
<1>3. CASE WorkspaceMade \/ PrepareFails \/ GitStarts \/ StartFails
  BY <1>3 DEF WorkspaceMade, PrepareFails, GitStarts, StartFails, FinishWithError
<1>4. CASE GitReturns
  <2>1. CASE git = "bad" /\ FinishWithError("other") /\ UNCHANGED gits
    BY <2>1 DEF FinishWithError
  <2>2. CASE git = "ok" /\ gits' = gits - 1 /\ at' = IF gits = 1 THEN "starting" ELSE at
    <3>1. at = "preparing"
      BY <2>2
    <3> QED
      BY <2>2, <3>1
  <2> QED
    BY <1>4, <2>1, <2>2 DEF GitReturns
<1>5. CASE CommandStarts \/ CommandWaited \/ GuardsStopped \/ CleanedUp
  BY <1>5 DEF CommandStarts, CommandWaited, GuardsStopped, CleanedUp
<1>6. CASE GuardStep \/ PowerEnds \/ Interrupts
  BY <1>6 DEF GuardStep, GuardSignals, GuardKills, GuardReleased, PowerEnds, Interrupts, jobVars
<1>7. CASE \E p \in running : Gone(p) \/ ClosesOutput(p) \/ \E c \in Children : Forks(p, c)
  BY <1>7 DEF Gone, ClosesOutput, Forks, jobVars
<1>8. CASE GitEnds \/ GitKilled \/ HelperEnds
  BY <1>8 DEF GitEnds, GitKilled, HelperEnds
<1> QED
  BY <1>1, <1>2, <1>3, <1>4, <1>5, <1>6, <1>7, <1>8 DEF ProcessNext, JobStep, ProcessStep

LEMMA SwitchesKeep == ASSUME Switches, ProcessNext PROVE Switches'
<1>1. CASE UNCHANGED <<helper, power>>
  BY <1>1 DEF Switches
<1>2. CASE UNCHANGED helper /\ power' \in BOOLEAN
  BY <1>2 DEF Switches
<1>3. CASE UNCHANGED power /\ helper' \in BOOLEAN
  BY <1>3 DEF Switches
<1>4. CASE Canceled \/ TimesOut \/ QueuedCanceled \/ JobBegins \/ WorkspaceMade \/ PrepareFails \/ StartFails
  BY <1>1, <1>4 DEF Canceled, TimesOut, QueuedCanceled, JobBegins, WorkspaceMade, PrepareFails,
                    StartFails, watchers
<1>5. CASE GitStarts \/ HelperEnds
  BY <1>1, <1>3, <1>5 DEF GitStarts, HelperEnds, watchers
<1>6. CASE GitReturns \/ GitEnds \/ GitKilled \/ CommandWaited \/ CleanedUp
  BY <1>1, <1>6 DEF GitReturns, GitEnds, GitKilled, CommandWaited, CleanedUp, watchers
<1>7. CASE CommandStarts \/ GuardsStopped \/ PowerEnds
  BY <1>2, <1>7 DEF CommandStarts, GuardsStopped, PowerEnds, jobVars
<1>8. CASE GuardStep \/ Interrupts
  BY <1>1, <1>8 DEF GuardStep, GuardSignals, GuardKills, GuardReleased, Interrupts, jobVars
<1>9. CASE \E p \in running : Gone(p) \/ ClosesOutput(p) \/ \E c \in Children : Forks(p, c)
  BY <1>1, <1>9 DEF Gone, ClosesOutput, Forks, jobVars, watchers
<1> QED
  BY <1>4, <1>5, <1>6, <1>7, <1>8, <1>9 DEF ProcessNext, JobStep, ProcessStep

LEMMA OutcomesKeep == ASSUME Outcomes, ProcessNext PROVE Outcomes'
<1>1. CASE UNCHANGED record
  BY <1>1 DEF Outcomes
<1>2. ASSUME NEW error \in {"build canceled", "other"}, FinishWithError(error) PROVE Outcomes'
  BY <1>2 DEF FinishWithError, Outcomes
<1>3. CASE CommandWaited
  BY <1>3 DEF CommandWaited, Outcomes
<1>4. CASE QueuedCanceled
  BY <1>4 DEF QueuedCanceled, Outcomes
<1>5. CASE PrepareFails \/ StartFails \/ GitReturns
  BY <1>1, <1>2, <1>5 DEF PrepareFails, StartFails, GitReturns
<1>6. CASE Canceled \/ TimesOut \/ JobBegins \/ WorkspaceMade \/ GitStarts \/ CommandStarts
           \/ GuardsStopped \/ CleanedUp
  BY <1>1, <1>6 DEF Canceled, TimesOut, JobBegins, WorkspaceMade, GitStarts, CommandStarts,
                    GuardsStopped, CleanedUp
<1>7. CASE GuardStep \/ Interrupts \/ PowerEnds \/ GitEnds \/ GitKilled \/ HelperEnds
  BY <1>1, <1>7 DEF GuardStep, GuardSignals, GuardKills, GuardReleased, Interrupts, PowerEnds,
                    GitEnds, GitKilled, HelperEnds, jobVars
<1>8. CASE \E p \in running : Gone(p) \/ ClosesOutput(p) \/ \E c \in Children : Forks(p, c)
  BY <1>1, <1>8 DEF Gone, ClosesOutput, Forks, jobVars
<1> QED
  BY <1>3, <1>4, <1>5, <1>6, <1>7, <1>8 DEF ProcessNext, JobStep, ProcessStep

\* A child is forked by a process that runs, and so after the command is started.
LEMMA GroupsKeep ==
  ASSUME Groups, ProcessNext, git # "off" => at = "preparing" /\ workspace = "made"
  PROVE  Groups'
<1> USE DEF Groups
<1>1. CASE Canceled \/ TimesOut \/ QueuedCanceled
  BY <1>1 DEF Canceled, TimesOut, QueuedCanceled, processes
<1>2. CASE JobBegins \/ WorkspaceMade \/ PrepareFails \/ GitStarts \/ StartFails
  BY <1>2 DEF JobBegins, WorkspaceMade, PrepareFails, GitStarts, StartFails, FinishWithError, processes
<1>3. CASE GitReturns
  BY <1>3 DEF GitReturns, FinishWithError, processes
<1>4. CASE CommandStarts
  <2>1. running = {} /\ left = {} /\ termed = {}
    BY <1>4 DEF CommandStarts
  <2> QED
    BY <1>4, <2>1 DEF CommandStarts
<1>5. CASE CommandWaited \/ GuardsStopped \/ CleanedUp
  BY <1>5 DEF CommandWaited, GuardsStopped, CleanedUp, processes
<1>6. CASE GuardStep \/ PowerEnds
  BY <1>6 DEF GuardStep, GuardSignals, GuardKills, GuardReleased, PowerEnds, InGroup, jobVars, processes
<1>7. CASE Interrupts
  BY <1>7 DEF Interrupts, InGroup, jobVars
<1>8. ASSUME NEW p \in running, Gone(p) \/ ClosesOutput(p) PROVE Groups'
  BY <1>8 DEF Gone, ClosesOutput, jobVars
<1>9. ASSUME NEW p \in running, NEW c \in Children, Forks(p, c) PROVE Groups'
  BY <1>9 DEF Forks, jobVars
<1>10. CASE GitEnds \/ GitKilled \/ HelperEnds
  BY <1>10 DEF GitEnds, GitKilled, HelperEnds, processes
<1> QED
  BY <1>1, <1>2, <1>3, <1>4, <1>5, <1>6, <1>7, <1>8, <1>9, <1>10 DEF ProcessNext, JobStep, ProcessStep

LEMMA ProcessNextKeeps ==
  ASSUME ProcessKept, ProcessNext \/ UNCHANGED processVars,
         git # "off" => at = "preparing" /\ workspace = "made"
  PROVE  ProcessKept'
<1>1. CASE UNCHANGED processVars
  <2>1. UNCHANGED <<at, ctx, gits, git, helper, workspace, record, running, forked, holding, deaf,
                    left, termed, exit, guard, interrupt, power>>
    BY <1>1 DEF processVars, jobVars, processes, watchers
  <2>2. Words'
    BY <2>1 DEF ProcessKept, Words
  <2>3. GitsLeft' /\ Outcomes'
    BY <2>1 DEF ProcessKept, GitsLeft, Outcomes
  <2>4. Switches' /\ Groups'
    BY <2>1 DEF ProcessKept, Switches, Groups
  <2> QED
    BY <2>2, <2>3, <2>4 DEF ProcessKept
<1>2. CASE ProcessNext
  BY <1>2, WordsKeep, GitsLeftKeep, SwitchesKeep, OutcomesKeep, GroupsKeep DEF ProcessKept
<1> QED
  BY <1>1, <1>2

LEMMA ProcessTyped == ProcessKept => ProcessTypeOK
<1> SUFFICES ASSUME ProcessKept PROVE ProcessTypeOK
  OBVIOUS
<1>1. gits \in 0..3
  BY DEF ProcessKept, GitsLeft
<1>2. helper \in BOOLEAN /\ power \in BOOLEAN
  BY DEF ProcessKept, Switches
<1>3. record \in [exit : {-1, 0, 1},
                  error : {"unset", "none", "build canceled", "build timed out", "other"}]
  BY DEF ProcessKept, Outcomes
<1> QED
  BY <1>1, <1>2, <1>3, Zenon DEF ProcessKept, Words, Groups, ProcessTypeOK

\* The URL of a Mac is its own, or that of a tunnel, and never the value None.
LEMMA NotNone == NoURL # None
<1>1. "scheme" \in DOMAIN NoURL /\ "scheme" \notin DOMAIN None
  BY DEF NoURL, None
<1> QED
  BY <1>1

LEMMA AccountedInit == DispatchedInit => Accounted
<1> SUFFICES ASSUME DispatchedInit PROVE Accounted
  OBVIOUS
<1>1. /\ targets = Empty /\ active = Empty /\ results = Empty
      /\ entry = None /\ report = None /\ name = None /\ at = "queued" /\ answer = "none"
  BY DEF DispatchedInit, ProcessInit
<1>2. Dispatched = {}
  BY <1>1, EmptyDomain DEF Dispatched
<1>3. PlaceKept
  BY <1>1, <1>2 DEF DispatchedInit, PlaceKept
<1>4. Placed /\ EntryTold /\ ReportMade
  BY <1>1, EmptyDomain DEF Placed, EntryTold, ReportMade
<1>5. ProcessKept
  BY ProcessStarts DEF DispatchedInit
<1> QED
  BY <1>3, <1>4, <1>5 DEF Accounted

\* The job goes on and ends: its entry is of the dispatch.
LEMMA AccountedRuns == ASSUME Kept, Accounted, Runs PROVE Accounted'
<1>1. UNCHANGED <<config, public, name, targets, active, results, report, answer>>
  BY DEF Runs, Told, coordinator
<1>2. ProcessKept'
  BY ProcessNextKeeps DEF Accounted, Kept, InOrder, Runs
<1>3. Dispatched # {} /\ Dispatched' = Dispatched
  BY <1>1 DEF Runs, Dispatched
<1>4. PlaceKept'
  BY <1>1, <1>3 DEF Accounted, PlaceKept, Names, Named, Registration
<1>5. Placed'
  BY <1>1 DEF Accounted, Placed, PlacedAt
<1>6. at = "ended" => at' = "ended"
  BY JobFinished DEF Runs, Kept, InOrder
<1>7. CASE at = "ended" \/ at' # "ended"
  <2>1. entry' = entry
    BY <1>7 DEF Runs, Told
  <2>2. EntryTold'
    BY <1>1, <1>6, <1>7, <2>1 DEF Accounted, EntryTold, EntryOf
  <2>3. ReportMade'
    BY <1>1, <2>1 DEF Accounted, ReportMade
  <2> QED
    BY <1>2, <1>4, <1>5, <2>2, <2>3 DEF Accounted
<1>8. CASE at # "ended" /\ at' = "ended"
  <2> DEFINE a == TheDispatch
             b == BuildRequest(a.request, ReportURL)
  <2>1. entry = None /\ report = None /\ results = Empty
    BY <1>8 DEF Kept, InOrder
  <2>2. PICK clock \in (IF at = "queued" THEN {[ended |-> Start, elapsed |-> 0]} ELSE Clocks) :
          entry' = [record |-> LedgerRecord(a.build, b, Start, clock.ended, record'),
                    elapsed |-> clock.elapsed]
    BY <1>8 DEF Runs, Told
  <2>3. clock.ended \in Int \ {0} /\ clock.elapsed \in Nat
    BY DispatchedAssumption DEF Start
  <2> DEFINE x == LedgerRecord(a.build, b, Start, clock.ended, record')
  <2>4. entry'.record = x /\ entry'.elapsed = clock.elapsed /\ entry' # None
    <3>1. "record" \in DOMAIN entry' /\ "record" \notin DOMAIN None
      BY <2>2 DEF None
    <3> QED
      BY <2>2, <3>1
  <2>5. x.ended = clock.ended /\ x = LedgerRecord(a.build, b, Start, x.ended, x)
    BY DEF LedgerRecord
  <2>6. \A r \in DOMAIN active : active[r] = a
    BY DEF Kept, InOrder, TheDispatch
  <2>7. ASSUME NEW r \in DOMAIN active PROVE EntryOf(active[r])'
    BY <1>1, <2>4, <2>5, <2>6 DEF EntryOf
  <2>8. entry'.elapsed \in Nat /\ entry'.record.ended \in Int \ {0}
    BY <2>3, <2>4, <2>5
  <2>9. EntryTold'
    BY <1>1, <2>4, <2>7, <2>8 DEF EntryTold
  <2>10. ReportMade'
    BY <1>1, <2>1 DEF Accounted, ReportMade
  <2> QED
    BY <1>2, <1>4, <1>5, <2>9, <2>10 DEF Accounted
<1> QED
  BY <1>7, <1>8

\* A dispatch goes to the Mac that registered, by the name that it registered.
LEMMA AccountedDispatch ==
  ASSUME Kept, Accounted, NEW q \in Dispatches, NEW build \in Builds, Dispatch(q, build)
  PROVE  Accounted'
<1>1. /\ Dispatched = {} /\ at = "queued"
      /\ UNCHANGED <<config, public, name, targets, results, entry, report, answer, processVars>>
  BY DEF Dispatch, reporting
<1>2. at' = at
  BY <1>1 DEF processVars, jobVars
<1>3. PICK t \in DispatchTargets(targets, [m \in DOMAIN targets |-> 0], q, Now) :
        active' = [r \in {q.id} |-> [request |-> q, machine |-> t.id,
                                     base |-> RunnerBaseURL(t), build |-> build]]
  BY DEF Dispatch
<1>4. PICK m \in DOMAIN targets : t = WithReservations(targets[m], [k \in DOMAIN targets |-> 0])
  BY DEF DispatchTargets, PinnedTargets, UnpinnedTargets, EligibleTargets, Live
<1>5. targets # Empty
  BY <1>4, EmptyDomain
<1>6. targets[m] = NormalizeLease(Registration(name), Now)
  BY <1>4, <1>5 DEF Kept, TargetKept
<1>7. t.id = config.id /\ t.publicURL = name /\ t.listen = config.listen
  BY <1>4, <1>6 DEF WithReservations, NormalizeLease, Registration
<1>8. RunnerBaseURL(t) = IF name # NoURL THEN name ELSE ListenURL(config.listen)
  BY <1>7 DEF RunnerBaseURL
<1>9. Placed'
  BY <1>1, <1>3, <1>7, <1>8 DEF Placed, PlacedAt
<1>10. PlaceKept'
  <2>1. Named /\ Registrable(Registration(name))
    BY <1>5 DEF Accounted, PlaceKept
  <2> QED
    BY <1>1, <1>2, <2>1 DEF Accounted, PlaceKept, Names, Named, Registration
<1>11. ProcessKept'
  BY <1>1, ProcessNextKeeps DEF Accounted, Kept, InOrder
<1>12. entry = None
  BY <1>1 DEF Kept, InOrder
<1>13. EntryTold' /\ ReportMade'
  BY <1>1, <1>2, <1>12 DEF Accounted, EntryTold, ReportMade
<1> QED
  BY <1>9, <1>10, <1>11, <1>13 DEF Accounted

LEMMA AnswersGiven ==
  RecordAnswer(report, results, active)
    \in {"invalid", "recorded", "different", "new", "mismatch", "inactive"}
  BY DEF RecordAnswer

LEMMA AccountedDelivered == ASSUME Kept, Accounted, Delivered PROVE Accounted'
<1>1. /\ UNCHANGED <<config, public, name, targets, entry, report, processVars>>
      /\ report # None /\ answer' = RecordAnswer(report, results, active)
  BY DEF Delivered
<1>2. at' = at
  BY <1>1 DEF processVars, jobVars
<1>3. ProcessKept'
  BY <1>1, ProcessNextKeeps DEF Accounted, Kept, InOrder
<1>4. Dispatched # {}
  BY <1>1 DEF Kept, InOrder, Accounted, PlaceKept
<1>5. CASE UNCHANGED <<active, results>>
  <2>1. Dispatched' = Dispatched
    BY <1>5 DEF Dispatched
  <2>2. PlaceKept' /\ Placed'
    BY <1>1, <1>2, <1>5, <2>1 DEF Accounted, PlaceKept, Placed, PlacedAt, Names, Named, Registration
  <2>3. EntryTold' /\ ReportMade'
    BY <1>1, <1>2, <1>5, AnswersGiven DEF Accounted, EntryTold, EntryOf, ReportMade
  <2> QED
    BY <1>3, <2>2, <2>3 DEF Accounted
<1>6. CASE results' = [s \in {report.record.id} |-> report] /\ active' = Empty
  <2>1. DOMAIN results' # {} /\ DOMAIN active' = {}
    BY <1>6, EmptyDomain
  <2>2. Dispatched' # {}
    BY <2>1 DEF Dispatched
  <2>3. PlaceKept' /\ Placed'
    BY <1>1, <1>2, <1>4, <2>1, <2>2 DEF Accounted, PlaceKept, Placed, Names, Named, Registration
  <2>4. EntryTold'
    BY <1>1, <1>2, <2>1 DEF Accounted, EntryTold
  <2>5. ReportMade'
    BY <1>1, <1>6, AnswersGiven DEF Accounted, ReportMade
  <2> QED
    BY <1>3, <2>3, <2>4, <2>5 DEF Accounted
<1> QED
  BY <1>5, <1>6 DEF Delivered

LEMMA AccountedRestarted == ASSUME Kept, Accounted, Restarted PROVE Accounted'
<1>1. UNCHANGED <<config, public, name, entry, report, answer, processVars>>
  BY DEF Restarted, reporting
<1>2. at' = at
  BY <1>1 DEF processVars, jobVars
<1>3. targets' = targets /\ results' = results
  BY TargetsReload, ResultsReload DEF Restarted, Kept
<1>4. \A r \in DOMAIN active' : r \in DOMAIN active /\ active'[r] = active[r]
  BY DEF Restarted, LoadedActive, PersistedActive
<1>5. DOMAIN active \subseteq DOMAIN active' \cup DOMAIN results'
  BY KeptByRestart DEF DispatchedNext
<1>6. Dispatched' = Dispatched
  BY <1>3, <1>4, <1>5 DEF Dispatched
<1>7. ProcessKept'
  BY <1>1, ProcessNextKeeps DEF Accounted, Kept, InOrder
<1>8. PlaceKept' /\ Placed'
  BY <1>1, <1>2, <1>3, <1>4, <1>6
     DEF Accounted, PlaceKept, Placed, PlacedAt, Names, Named, Registration
<1>9. EntryTold' /\ ReportMade'
  BY <1>1, <1>2, <1>3, <1>4 DEF Accounted, EntryTold, EntryOf, ReportMade
<1> QED
  BY <1>7, <1>8, <1>9 DEF Accounted

\* The Mac's own steps outside the job: its name, its registration and its report.
LEMMA AccountedElse ==
  ASSUME Kept, Accounted, Register \/ TargetGone \/ Renamed \/ Reports \/ UNCHANGED dispatchedVars
  PROVE  Accounted'
<1>1. /\ UNCHANGED <<processVars, config, active, results, entry, answer>>
      /\ Dispatched' = Dispatched
  BY DEF Register, TargetGone, Renamed, Reports, dispatchedVars, coordinator, reporting, Dispatched
<1>2. at' = at
  BY <1>1 DEF processVars, jobVars
<1>3. ProcessKept'
  BY <1>1, ProcessNextKeeps DEF Accounted, Kept, InOrder
<1>4. EntryTold'
  BY <1>1, <1>2 DEF Accounted, EntryTold, EntryOf
<1>5. CASE Register
  <2>1. /\ UNCHANGED <<public, report>> /\ Dispatched = {}
        /\ name' = IF name = None THEN public ELSE name
        /\ Registrable(Registration(name'))
    BY <1>5 DEF Register, reporting
  <2>2. Named' /\ name' \in Names \cup {None}
    BY <1>1, <2>1 DEF Accounted, PlaceKept, Named, Names
  <2>3. PlaceKept'
    BY <1>1, <1>2, <2>1, <2>2 DEF Accounted, PlaceKept, Names, Registration
  <2>4. DOMAIN active' = {} /\ report = None
    BY <1>1, <2>1 DEF Dispatched, Kept, InOrder, Accounted, PlaceKept
  <2>5. Placed' /\ ReportMade'
    BY <1>1, <2>1, <2>4 DEF Accounted, Placed, ReportMade
  <2> QED
    BY <1>3, <1>4, <2>3, <2>5 DEF Accounted
<1>6. CASE Renamed
  <2>1. /\ UNCHANGED <<name, targets, report>>
        /\ config.mode = "quick" /\ config.publicURL = NoURL /\ public' \in TunnelURLs
    BY <1>6 DEF Renamed, coordinator, reporting
  <2>2. public # NoURL /\ public' # NoURL
    BY <2>1, DispatchedAssumption DEF Accounted, PlaceKept
  <2>3. Named' = Named
    BY <2>1, <2>2 DEF Named
  <2>4. PlaceKept'
    BY <1>1, <1>2, <2>1, <2>3 DEF Accounted, PlaceKept, Names, Registration
  <2>5. Placed' /\ ReportMade'
    BY <1>1, <2>1 DEF Accounted, Placed, PlacedAt, ReportMade
  <2> QED
    BY <1>3, <1>4, <2>4, <2>5 DEF Accounted
<1>7. CASE TargetGone \/ UNCHANGED dispatchedVars
  <2>1. UNCHANGED <<public, name, report>> /\ targets' \in {targets, Empty}
    BY <1>7 DEF TargetGone, dispatchedVars, coordinator, reporting
  <2>2. PlaceKept'
    BY <1>1, <1>2, <2>1 DEF Accounted, PlaceKept, Names, Named, Registration
  <2>3. Placed' /\ ReportMade'
    BY <1>1, <2>1 DEF Accounted, Placed, PlacedAt, ReportMade
  <2> QED
    BY <1>3, <1>4, <2>2, <2>3 DEF Accounted
<1>8. CASE Reports
  <2>1. /\ UNCHANGED <<public, name, targets>> /\ entry # None /\ report = None
        /\ report' = Report(config, entry.record, public, entry.elapsed)
    BY <1>8 DEF Reports, coordinator
  <2>2. Named
    BY <2>1 DEF Kept, InOrder, Accounted, PlaceKept
  <2>3. results = Empty
    BY <2>1 DEF Kept, InOrder
  <2>4. report'.publicURL = public
    BY <2>1 DEF Report
  <2>5. ReportMade'
    BY <1>1, <2>1, <2>2, <2>3, <2>4 DEF Accounted, ReportMade, Named
  <2>6. PlaceKept' /\ Placed'
    BY <1>1, <1>2, <2>1 DEF Accounted, PlaceKept, Placed, PlacedAt, Names, Named, Registration
  <2> QED
    BY <1>3, <1>4, <2>5, <2>6 DEF Accounted
<1> QED
  BY <1>5, <1>6, <1>7, <1>8

LEMMA AccountedNext == Kept /\ Accounted /\ [DispatchedNext]_dispatchedVars => Accounted'
  BY AccountedRuns, AccountedDispatch, AccountedDelivered, AccountedRestarted, AccountedElse
     DEF DispatchedNext


LEMMA DistanceSymmetric == \A a, b \in Int : Distance(a, b) = Distance(b, a)
  BY DEF Distance

LEMMA ReportNew ==
  ASSUME NEW r \in DOMAIN active, r = active[r].request.id, r \notin DOMAIN results,
         ValidActive(active[r]), config.id = active[r].machine,
         ClocksFit(Start, entry.record.ended, entry.elapsed),
         URLFits(report.publicURL, active[r].base)
  PROVE  RecordAnswer(Report(config, LedgerRecord(active[r].build,
                               BuildRequest(active[r].request, ReportURL), Start,
                               entry.record.ended, entry.record),
                             report.publicURL, entry.elapsed), results, active) = "new"
  BY ReportAccepted

\* A report that is true to the clock and to the name of the tunnel is accepted.
LEMMA AcceptedThen == Kept /\ Accounted => ReportRecorded
<1> SUFFICES ASSUME Kept, Accounted, report # None, ClocksAgree, report.publicURL \in {name, NoURL}
             PROVE  RecordAnswer(report, results, active) \in {"new", "recorded"}
  BY DEF ReportRecorded
<1>1. CASE results # Empty
  <2>1. results = [s \in {report.record.id} |-> report]
    BY <1>1 DEF Accounted, ReportMade
  <2>2. PICK r : results = [s \in {r} |-> results[r]] /\ ValidRecorded(results[r])
    BY <1>1 DEF Kept, EntryKept
  <2>3. DOMAIN results = {report.record.id} /\ DOMAIN results = {r}
    BY <2>1, <2>2
  <2>4. results[report.record.id] = report /\ ValidResult(report)
    BY <2>1, <2>2, <2>3 DEF ValidRecorded
  <2> QED
    BY <2>3, <2>4 DEF RecordAnswer
<1>2. CASE results = Empty
  <2>1. entry # None /\ at = "ended" /\ Dispatched # {}
    BY DEF Kept, InOrder, Accounted, PlaceKept
  <2>2. PICK r \in DOMAIN active : TRUE
    BY <1>2, <2>1, EmptyDomain DEF Dispatched
  <2> DEFINE a == active[r]
             wall == entry.record.ended - entry.record.started
  <2>3. ValidActive(a) /\ r = a.request.id /\ r \notin DOMAIN results
    BY <1>2, EmptyDomain DEF Kept, ActiveKept
  <2>4. PlacedAt(a)
    BY DEF Accounted, Placed
  <2>5. EntryOf(a) /\ entry.elapsed \in Nat /\ entry.record.ended \in Int
    BY <2>1 DEF Accounted, EntryTold
  <2>6. /\ report = Report(config, entry.record, report.publicURL, entry.elapsed)
        /\ report.publicURL = NoURL <=> name = NoURL
    BY DEF Accounted, ReportMade
  <2>7. entry.record.started = Start
    BY <2>5 DEF EntryOf, LedgerRecord
  <2>8. ClocksFit(Start, entry.record.ended, entry.elapsed)
    <3>1. wall >= 0 /\ Distance(wall, entry.elapsed) <= ResultDurationTolerance
      BY DEF ClocksAgree
    <3>2. wall \in Int /\ wall = entry.record.ended - Start
      BY <2>5, <2>7 DEF Start
    <3>3. Distance(entry.elapsed, wall) = Distance(wall, entry.elapsed)
      BY <2>5, <3>2, DistanceSymmetric
    <3>4. entry.record.ended \in Nat \ {0} /\ Start <= entry.record.ended
      BY <2>5, <3>1, <3>2 DEF Start
    <3> QED
      BY <2>5, <3>1, <3>2, <3>3, <3>4 DEF ClocksFit, Start
  <2>9. /\ name # NoURL => ValidBaseURL(name)
        /\ name = NoURL => ListenIsLoopback(config.listen)
    <3>1. Eligible(Registration(name))
      BY <2>1 DEF Accounted, PlaceKept, Registrable
    <3>2. Registration(name).publicURL = name /\ Registration(name).listen = config.listen
      BY DEF Registration
    <3> QED
      BY <3>1, <3>2 DEF Eligible
  <2>10. report.publicURL # NoURL =>
           /\ ValidBaseURL(report.publicURL)
           /\ NormalizeBaseURL(report.publicURL) = NormalizeBaseURL(a.base)
    BY <2>4, <2>9 DEF PlacedAt
  <2>11. RequiresPublicURL(a.base) => report.publicURL # NoURL
    <3>1. SUFFICES ASSUME name = NoURL PROVE ~RequiresPublicURL(a.base)
      BY <2>6
    <3>2. a.base.host = config.listen
      BY <2>4, <3>1 DEF PlacedAt, ListenURL, NoURL
    <3> QED
      BY <2>9, <3>1, <3>2, NamesAssumption DEF ListenIsLoopback, RequiresPublicURL
  <2>12. URLFits(report.publicURL, a.base)
    BY <2>10, <2>11 DEF URLFits
  <2>13. config.id = a.machine
    BY <2>4 DEF PlacedAt
  <2> DEFINE told == LedgerRecord(a.build, BuildRequest(a.request, ReportURL), Start,
                                  entry.record.ended, entry.record)
  <2>14. RecordAnswer(Report(config, told, report.publicURL, entry.elapsed), results, active) = "new"
    BY <2>2, <2>3, <2>8, <2>12, <2>13, ReportNew
  <2>15. entry.record = told
    BY <2>5 DEF EntryOf
  <2> QED
    BY <2>6, <2>14, <2>15
<1> QED
  BY <1>1, <1>2

LEMMA AlwaysAccounted == DispatchedSpec => [](Kept /\ Accounted)
<1>1. DispatchedInit => Kept /\ Accounted
  BY KeptInit, AccountedInit
<1>2. Kept /\ Accounted /\ [DispatchedNext]_dispatchedVars => (Kept /\ Accounted)'
  BY KeptNext, AccountedNext
<1> QED
  BY <1>1, <1>2, PTL DEF DispatchedSpec

\* Whatever the Mac, its configuration and its tunnel, and however its build comes
\* out: the coordinator accepts the report that reportBuild makes, unless the wall
\* clock was set or the tunnel renamed while the job ran.
THEOREM ReportIsRecorded == DispatchedSpec => []ReportRecorded
  BY AlwaysAccounted, AcceptedThen, PTL

\* The state is what the declarations of the three programs say it is, with one
\* dispatch or its result on record at most.
THEOREM DispatchedTypes == DispatchedSpec => []DispatchedTypeOK
<1>1. Kept /\ Accounted => DispatchedTypeOK
  <2> SUFFICES ASSUME Kept, Accounted PROVE DispatchedTypeOK
    OBVIOUS
  <2>1. ProcessTypeOK
    BY ProcessTyped DEF Accounted
  <2>2. config \in Configs /\ public \in Names /\ name \in Names \cup {None}
    BY DEF Accounted, PlaceKept, Names
  <2>3. DOMAIN targets \subseteq {config.id}
    BY EmptyDomain DEF Kept, TargetKept
  <2>4. Cardinality(Dispatched) <= 1
    <3>1. \A r \in Dispatched, s \in Dispatched : r = s
      BY EmptyDomain DEF Kept, InOrder, EntryKept, Dispatched
    <3>2. CASE Dispatched = {}
      BY <3>2, FS_EmptySet
    <3>3. CASE Dispatched # {}
      <4>1. PICK r : Dispatched = {r}
        BY <3>1, <3>3
      <4> QED
        BY <4>1, FS_Singleton
    <3> QED
      BY <3>2, <3>3
  <2>5. \A r \in DOMAIN active : /\ active[r].request \in Dispatches /\ active[r].request.id = r
                                /\ active[r].machine = config.id /\ active[r].build \in Builds
    BY DEF Kept, ActiveKept, Accounted, Placed, PlacedAt
  <2>6. entry # None <=> at = "ended"
    BY DEF Kept, InOrder, Accounted, EntryTold
  <2>7. report # None => report.record = entry.record
    BY DEF Accounted, ReportMade, Report
  <2>8. answer \in {"none", "invalid", "recorded", "different", "new", "mismatch", "inactive"}
    BY DEF Accounted, ReportMade
  <2> QED
    BY <2>1, <2>2, <2>3, <2>4, <2>5, <2>6, <2>7, <2>8 DEF DispatchedTypeOK
<1> QED
  BY <1>1, AlwaysAccounted, PTL

=============================================================================
