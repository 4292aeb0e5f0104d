---------------------------- MODULE RulesProofs ----------------------------
(***************************************************************************)
(* What the rules of the three programs come to when one is applied to what*)
(* another let through: theorems about ResultRules, for any identifiers,   *)
(* repositories, URLs, loads, versions and times.                          *)
(***************************************************************************)
EXTENDS ResultRules, TLAPS

\* What the records may hold.
URLs == [scheme : STRING, host : STRING, user : BOOLEAN, path : STRING, query : BOOLEAN]

TargetRecords ==
  [id : STRING, listen : STRING, publicURL : URLs,
   mac : [os : STRING, arch : STRING, version : Seq(Int), cpus : Int, memory : Int, xcode : Seq(Int)],
   accepting : BOOLEAN, active : Int, queued : Int, limit : Int,
   jobs : SUBSET STRING, lease : Int]

RequestRecords ==
  [machine : STRING, job : STRING, id : STRING, repo : STRING, ref : STRING, commit : STRING,
   minCPUs : Int, minMemory : Int, minXcode : Seq(Int), public : BOOLEAN]

-----------------------------------------------------------------------------
\* dispatchTargets has two ways to a target, by eligibleTargets and by the checks of
\* a pinned request: they agree.  A Mac is tried for a request that is pinned to it
\* exactly if it is among those tried when the request is not pinned.
THEOREM PinnedAgrees ==
  ASSUME NEW targets, NEW reserved, NEW now, NEW q \in RequestRecords, NEW t \in TargetRecords
  PROVE  t \in UnpinnedTargets(targets, reserved, q, now)
           <=> t \in PinnedTargets(targets, reserved, [q EXCEPT !.machine = t.id], now)
<1> DEFINE p == [q EXCEPT !.machine = t.id]
<1>1. /\ p.machine = t.id /\ p.job = q.job /\ p.public = q.public
      /\ p.minCPUs = q.minCPUs /\ p.minMemory = q.minMemory /\ p.minXcode = q.minXcode
  BY DEF RequestRecords
<1>2. Fits(t, p) <=> Fits(t, q)
  BY <1>1 DEF Fits, Satisfies, Reachable
<1>3. Fits(t, q) => Eligible(t) /\ HasCapacity(t)
  BY DEF Fits
<1>4. QED
  BY <1>1, <1>2, <1>3 DEF UnpinnedTargets, PinnedTargets, EligibleTargets

\* sortTargetsByLoad puts any two Macs in one order, whatever order the map of
\* targets is read in: Before is irreflexive, transitive and total.
THEOREM LoadOrder ==
  ASSUME NEW alphabet \in [STRING -> Int],
         NEW t \in TargetRecords, NEW u \in TargetRecords, NEW v \in TargetRecords,
         alphabet[t.id] # alphabet[u.id]
  PROVE  /\ ~Before(t, t, alphabet)
         /\ Before(t, u, alphabet) <=> ~Before(u, t, alphabet)
         /\ Before(t, u, alphabet) /\ Before(u, v, alphabet) => Before(t, v, alphabet)
<1>1. /\ {alphabet[t.id], alphabet[u.id], alphabet[v.id]} \subseteq Int
      /\ {t.active, u.active, v.active, t.queued, u.queued, v.queued} \subseteq Int
  BY DEF TargetRecords
<1>2. QED
  BY <1>1 DEF Before

-----------------------------------------------------------------------------
LEMMA Relet ==
  ASSUME NEW t \in TargetRecords, NEW l \in Int
  PROVE  LET n == [t EXCEPT !.lease = l]
         IN /\ n \in TargetRecords /\ n.lease = l /\ n.id = t.id
            /\ Eligible(t) => Eligible(n)
            /\ l = t.lease => n = t
<1> DEFINE n == [t EXCEPT !.lease = l]
<1>1. n \in TargetRecords /\ n.lease = l /\ n.id = t.id
  BY DEF TargetRecords
<1>2. Eligible(t) => Eligible(n)
  BY DEF TargetRecords, Eligible
<1>3. l = t.lease => n = t
  BY DEF TargetRecords
<1>4. QED
  BY <1>1, <1>2, <1>3

LEMMA Normalized ==
  ASSUME NEW lease \in Int, NEW now \in Int
  PROVE  LET n == NormalizedLease(lease, now)
         IN /\ n \in Int /\ n <= now + MaxTargetLease
            /\ lease # 0 /\ lease <= now + MaxTargetLease => n = lease
<1>1. DefaultTargetLease \in Int /\ MaxTargetLease \in Int /\ DefaultTargetLease <= MaxTargetLease
  BY LeaseAssumption
<1>2. QED
  BY <1>1 DEF NormalizedLease

\* A lease is over in five minutes at the latest, and lasts as long as a Mac asks
\* for, if that is less.
LEMMA LeaseBounded ==
  ASSUME NEW t \in TargetRecords, NEW now \in Int
  PROVE  /\ NormalizeLease(t, now).lease <= now + MaxTargetLease
         /\ t.lease # 0 /\ t.lease <= now + MaxTargetLease => NormalizeLease(t, now) = t
<1> DEFINE l == NormalizedLease(t.lease, now)
<1>1. t.lease \in Int
  BY DEF TargetRecords
<1>2. /\ l \in Int /\ l <= now + MaxTargetLease
      /\ t.lease # 0 /\ t.lease <= now + MaxTargetLease => l = t.lease
  BY <1>1, Normalized
<1>3. NormalizeLease(t, now) = [t EXCEPT !.lease = l]
  BY DEF NormalizeLease
<1> HIDE DEF l
<1>4. NormalizeLease(t, now).lease = l /\ (l = t.lease => NormalizeLease(t, now) = t)
  BY <1>2, <1>3, Relet
<1>5. QED
  BY <1>2, <1>4

\* A Mac that the coordinator let register is still registered, and unchanged, after
\* a restart that its lease outlasts.
THEOREM TargetReloads ==
  ASSUME NEW t \in TargetRecords, NEW then \in Nat, NEW now \in Int, then <= now,
         Registrable(t), now <= NormalizeLease(t, then).lease, NormalizeLease(t, then).lease # 0
  PROVE  LET kept == [m \in {t.id} |-> NormalizeLease(t, then)]
         IN LoadedTargets(kept, now) = kept
<1> DEFINE n == NormalizeLease(t, then)
           kept == [m \in {t.id} |-> n]
<1>1. t.lease \in Int /\ NormalizedLease(t.lease, then) \in Int
  BY Normalized DEF TargetRecords
<1>2. n \in TargetRecords /\ n.id = t.id /\ Eligible(n)
  BY <1>1, Relet DEF NormalizeLease, Registrable
<1>3. n.lease \in Int /\ n.lease <= then + MaxTargetLease
  <2>1. n.lease \in Int
    BY <1>2 DEF TargetRecords
  <2>2. then \in Int
    OBVIOUS
  <2>3. QED
    BY <2>1, <2>2, LeaseBounded
<1>4. n.lease <= now + MaxTargetLease
  BY <1>3, LeaseAssumption
<1>5. NormalizeLease(n, now) = n
  BY <1>2, <1>4, LeaseBounded
<1>6. t.id # ""
  BY NamesAssumption DEF Registrable
<1>7. DOMAIN kept = {t.id} /\ kept[t.id] = n
  OBVIOUS
<1>8. {m \in DOMAIN kept : m # "" /\ m = kept[m].id /\ Leased(kept[m], now) /\ Eligible(kept[m])} = {t.id}
  BY <1>2, <1>3, <1>6, <1>7 DEF Leased
<1>9. QED
  BY <1>5, <1>7, <1>8 DEF LoadedTargets

-----------------------------------------------------------------------------
\* A request that startBuild accepts passes the checks that prepareWorkspace makes
\* again, before git sees any of it: the queue in between cannot hold a build whose
\* workspace is refused for its repository or its ref.
THEOREM StartPreparable ==
  ASSUME NEW config, NEW b, NEW job \in config.jobs,
         ValidConfig(config), Startable(config, b), job.id = b.job
  PROVE  Preparable(b, job)
<1>1. PICK fit \in config.jobs : fit.id = b.job /\ FitsJob(b, fit)
  BY DEF Startable
<1>2. fit = job
  BY <1>1 DEF ValidConfig, ValidJobs
<1>3. SafeCheckout(b)
  BY DEF Startable, ValidBuildRequest, ValidMetadata
<1>4. SUFFICES ASSUME job.checkout
               PROVE  /\ b.repo # "" /\ b.repo \in job.allowed
                      /\ b.ref # "" \/ b.commit # ""
                      /\ {FetchTarget(b), CheckoutTarget(b)} \subseteq CheckoutTargets
  BY DEF Preparable
<1>5. b.repo # "" /\ b.repo \in job.allowed /\ (b.ref # "" \/ b.commit # "")
  BY <1>1, <1>2, <1>4 DEF FitsJob
<1>6. {FetchTarget(b), CheckoutTarget(b)} \subseteq CheckoutTargets
  BY <1>3, <1>5 DEF SafeCheckout, FetchTarget, CheckoutTarget
<1>7. QED
  BY <1>5, <1>6

-----------------------------------------------------------------------------
\* What dispatchToTarget keeps of a dispatch that a Mac accepted.
AcceptedBy(q, t, build) ==
  [request |-> q, machine |-> t.id, base |-> RunnerBaseURL(t), build |-> build]

\* A dispatch as the coordinator may keep one.
ValidActive(a) ==
  /\ ValidDispatchRequest(a.request)
  /\ a.request.id \in Identifiers
  /\ a.machine \in Identifiers
  /\ a.request.machine \in {"", a.machine}
  /\ ValidBaseURL(a.base) /\ a.base # NoURL
  /\ a.build \in Identifiers

LEMMA BaseURLGiven == ASSUME NEW u, ValidBaseURL(u) PROVE u # NoURL
<1>1. NoURL.host = ""
  BY DEF NoURL
<1>2. u.host # ""
  BY DEF ValidBaseURL, ValidReportURL
<1>3. QED
  BY <1>1, <1>2

LEMMA TargetTried ==
  ASSUME NEW targets, NEW reserved, NEW now, NEW q,
         NEW t \in DispatchTargets(targets, reserved, q, now)
  PROVE  q.machine \in {"", t.id} /\ Fits(t, q)
<1>1. CASE q.machine # ""
  BY <1>1 DEF DispatchTargets, PinnedTargets
<1>2. CASE q.machine = ""
  BY <1>2 DEF DispatchTargets, UnpinnedTargets
<1>3. QED
  BY <1>1, <1>2

LEMMA AcceptedValid ==
  ASSUME NEW targets, NEW reserved, NEW now, NEW q,
         NEW t \in DispatchTargets(targets, reserved, q, now), t.id \in Identifiers,
         NEW build \in Identifiers, NEW url,
         ValidDispatchRequest(q), ValidStart(RunnerBaseURL(t), BuildRequest(q, url))
  PROVE  ValidActive(AcceptedBy(q, t, build))
<1> DEFINE a == AcceptedBy(q, t, build)
<1>1. /\ a.request = q /\ a.machine = t.id /\ a.base = RunnerBaseURL(t) /\ a.build = build
  BY DEF AcceptedBy
<1>2. q.id \in Identifiers
  BY DEF ValidDispatchRequest, ValidMetadata
<1>3. q.machine \in {"", t.id}
  BY TargetTried
<1>4. ValidBaseURL(a.base) /\ a.base # NoURL
  BY <1>1, BaseURLGiven DEF ValidStart
<1>5. QED
  BY <1>1, <1>2, <1>3, <1>4 DEF ValidActive

\* The event that tells the command of an accepted build passes the command's own
\* validateAcceptedBuildEvent, which would otherwise exit and leave the build alone.
LEMMA AcceptedReadable ==
  ASSUME NEW a, ValidActive(a)
  PROVE  ValidAcceptedEvent(AcceptedEvent(a), a.request)
<1>1. /\ AcceptedEvent(a).build = a.build /\ AcceptedEvent(a).job = a.request.job
      /\ AcceptedEvent(a).id = a.request.id /\ AcceptedEvent(a).machine = a.machine
      /\ AcceptedEvent(a).publicURL = a.base
  BY DEF AcceptedEvent
<1>2. a.request.job \in Identifiers
  BY DEF ValidActive, ValidDispatchRequest
<1>3. QED
  BY <1>1, <1>2 DEF ValidActive, ValidAcceptedEvent

\* A restart forgets no dispatch that a Mac accepted and whose result is not on record:
\* normalizeLoadedActiveRequests drops none that dispatchToTarget can have stored.
LEMMA ActiveReload ==
  ASSUME NEW active, NEW recorded, NEW r \in DOMAIN active,
         r = active[r].request.id, r \notin recorded, ValidActive(active[r])
  PROVE  LET kept == LoadedActive(PersistedActive(active), recorded)
         IN r \in DOMAIN kept /\ kept[r] = active[r]
<1> DEFINE saved == PersistedActive(active)
           a == active[r]
<1>1. a.build # ""
  BY NamesAssumption DEF ValidActive
<1>2. r \in DOMAIN saved /\ saved[r] = a
  BY <1>1 DEF PersistedActive, Acceptance, ValidActive
<1>3. Acceptance(a)
  BY <1>1 DEF Acceptance, ValidActive
<1>4. QED
  BY <1>2, <1>3 DEF LoadedActive, ValidActive

-----------------------------------------------------------------------------
\* The status that runners tell never contradicts the outcome that they tell with it:
\* statusForRecord and the three checks of an outcome, in the command's status reader,
\* the coordinator and the command's result reader, agree on every exit and error.
LEMMA StatusCoherent ==
  ASSUME NEW record
  PROVE  /\ StatusForRecord(record) \in {"passed", "failed", "canceled"}
         /\ Coherent(StatusForRecord(record), record.exit, record.error)
  BY DEF StatusForRecord, Coherent

\* A record whose checkout values are safe and whose IDs are stable reads as a valid
\* status, before and after the build's end, and again from the ledger once the
\* runner has been restarted.
LEMMA StatusReadable ==
  ASSUME NEW record, NEW started \in BOOLEAN,
         {record.build, record.job, record.id} \subseteq Identifiers, SafeCheckout(record)
  PROVE  /\ ValidBuildStatus(RunStatus(record.build, record, started, record))
         /\ ValidBuildStatus(LedgerStatus(record))
<1> DEFINE status == StatusForRecord(record)
           s == BuildStatus(record.build, record, status, record)
<1>1. ValidBuildStatus(s)
  <2>1. s.build = record.build /\ s.job = record.job /\ s.id = record.id
    BY DEF BuildStatus
  <2>2. s.status = status /\ s.result = record
    BY DEF BuildStatus
  <2>3. status \in {"passed", "failed", "canceled"} /\ Coherent(status, record.exit, record.error)
    BY StatusCoherent
  <2> HIDE DEF s, status
  <2>4. QED
    BY <2>1, <2>2, <2>3 DEF ValidBuildStatus
<1>2. ASSUME NEW word \in {"queued", "running"}
      PROVE  ValidBuildStatus(BuildStatus(record.build, record, word, NoResult))
  BY DEF ValidBuildStatus, BuildStatus
<1>3. ValidBuildStatus(RunStatus(record.build, record, started, record))
  BY <1>1, <1>2 DEF RunStatus
<1>4. QED
  BY <1>1, <1>3 DEF LedgerStatus

\* A result as the coordinator may keep one: RecordedKept, and as any command that asks
\* for the same work can read it back.
ValidRecorded(x) == ValidResult(x) /\ SafeCheckout(x.record)

LEMMA RecordedKept ==
  ASSUME NEW x, NEW results, NEW active,
         RecordAnswer(x, results, active) = "new", ValidActive(active[x.record.id])
  PROVE  ValidRecorded(x)
<1> DEFINE a == active[x.record.id]
<1>1. ValidResult(x) /\ SameDispatchResult(a.request, x)
  BY DEF RecordAnswer, MatchesDispatch
<1>2. SafeCheckout(a.request)
  BY DEF ValidActive, ValidDispatchRequest, ValidMetadata
<1>3. SafeCheckout(x.record)
  BY <1>1, <1>2 DEF SameDispatchResult, SafeCheckout
<1>4. QED
  BY <1>1, <1>3 DEF ValidRecorded

\* The coordinator never records a result that a command cannot read back: what
\* recordResult accepts as new passes ValidateForRequest for every request that asks
\* for the same work.
LEMMA RecordedReadable ==
  ASSUME NEW x, NEW q, ValidRecorded(x), SameDispatchResult(q, x)
  PROVE  ValidForRequest(x, q)
<1>1. /\ x.status \in {"passed", "failed", "canceled"}
      /\ {x.record.build, x.record.job, x.record.id, x.machine} \subseteq Identifiers
      /\ x.publicURL # NoURL => ValidBaseURL(x.publicURL)
      /\ SafeCheckout(x.record)
  BY DEF ValidRecorded, ValidResult, Consistent
<1>2. /\ x.record.job = q.job /\ x.record.id = q.id /\ q.machine \in {"", x.machine}
      /\ q.repo = x.record.repo /\ q.ref = x.record.ref /\ q.commit = x.record.commit
  BY DEF SameDispatchResult
<1>3. QED
  BY <1>1, <1>2 DEF ValidForRequest

\* The two clocks agree to within the tolerance on how long the job took.
ClocksFit(started, ended, elapsed) ==
  /\ started \in Nat \ {0} /\ ended \in Nat \ {0} /\ elapsed \in Nat
  /\ started <= ended /\ Distance(elapsed, ended - started) <= ResultDurationTolerance

\* The URL of a report is the one that the runner was reached by, or none for one
\* that listens on the coordinator's own host.
URLFits(url, base) ==
  /\ url # NoURL => ValidBaseURL(url) /\ NormalizeBaseURL(url) = NormalizeBaseURL(base)
  /\ RequiresPublicURL(base) => url # NoURL

\* A report is never refused for what the build was or how it ended: the coordinator
\* accepts the one that reportBuild makes of an accepted dispatch, if the two clocks
\* agree to within the tolerance and the runner's URL is the one it was reached by.
THEOREM ReportAccepted ==
  ASSUME NEW config, NEW active, NEW results, NEW outcome, NEW url, NEW publicURL,
         NEW started, NEW ended, NEW elapsed, ClocksFit(started, ended, elapsed),
         NEW r \in DOMAIN active, r = active[r].request.id, r \notin DOMAIN results,
         ValidActive(active[r]), config.id = active[r].machine, URLFits(publicURL, active[r].base)
  PROVE  LET b == BuildRequest(active[r].request, url)
             record == LedgerRecord(active[r].build, b, started, ended, outcome)
         IN RecordAnswer(Report(config, record, publicURL, elapsed), results, active) = "new"
<1> DEFINE a == active[r]
           b == BuildRequest(a.request, url)
           record == LedgerRecord(a.build, b, started, ended, outcome)
           x == Report(config, record, publicURL, elapsed)
<1>1. /\ record.build = a.build /\ record.job = a.request.job /\ record.id = r
      /\ record.repo = a.request.repo /\ record.ref = a.request.ref
      /\ record.commit = a.request.commit
      /\ record.started = started /\ record.ended = ended
  BY DEF LedgerRecord, BuildRequest
<1>2. /\ x.record = record /\ x.status = StatusForRecord(record) /\ x.machine = a.machine
      /\ x.publicURL = publicURL /\ x.duration = elapsed
  BY DEF Report
<1>3. {a.build, a.request.job, r, a.machine} \subseteq Identifiers
  BY DEF ValidActive, ValidDispatchRequest
<1>4. a.request.machine \in {"", a.machine}
  BY DEF ValidActive
<1> HIDE DEF x, record, b
<1>5. Consistent(x)
  <2>1. /\ started # 0 /\ ended # 0 /\ ended >= started /\ elapsed >= 0
        /\ Distance(elapsed, ended - started) <= ResultDurationTolerance
    BY DEF ClocksFit
  <2>2. Coherent(x.status, x.record.exit, x.record.error)
    BY <1>2, StatusCoherent
  <2>3. publicURL # NoURL => ValidBaseURL(publicURL)
    BY DEF URLFits
  <2>4. /\ x.record.started # 0 /\ x.record.ended # 0 /\ x.record.ended >= x.record.started
        /\ x.duration >= 0
        /\ Distance(x.duration, x.record.ended - x.record.started) <= ResultDurationTolerance
    BY <1>1, <1>2, <2>1
  <2>5. QED
    BY <1>2, <2>2, <2>3, <2>4 DEF Consistent
<1>6. ValidResult(x)
  BY <1>1, <1>2, <1>3, <1>5, StatusCoherent DEF ValidResult
<1>7. SameDispatchResult(a.request, x)
  BY <1>1, <1>2, <1>4 DEF SameDispatchResult
<1>8. MatchesDispatch(x, a)
  BY <1>1, <1>2, <1>7 DEF MatchesDispatch, URLFits
<1>9. RecordAnswer(x, results, active) = "new"
  BY <1>1, <1>2, <1>6, <1>8 DEF RecordAnswer
<1>10. QED
  BY <1>9 DEF x, record, b

=============================================================================
