---------------------------- MODULE TargetRules ----------------------------
(***************************************************************************)
(* What the coordinator (internal/coordinator/server.go) requires of the   *)
(* Macs that register and of the requests that CI dispatches, which targets*)
(* it tries for a request, and what it keeps of its state file when it is  *)
(* started again; and what a runner requires of its own configuration      *)
(* (internal/agent/config.go) for the parts that it registers.             *)
(*                                                                         *)
(* A URL is a record of what the code reads of one; a text is "" or stands *)
(* for itself, and is acceptable as an ID, a repository or a checkout      *)
(* target when it is in the set of that name; a version is the sequence of *)
(* its numbers.  Times are counted in seconds and 0 is Go's zero time.     *)
(***************************************************************************)
EXTENDS Integers, Sequences, FiniteSets

CONSTANTS
  Identifiers,         \* IDs that validateStableIdentifier accepts
  Repositories,        \* repository URLs that ValidateRepoURL accepts
  CheckoutTargets,     \* refs and commits that ValidateCheckoutTarget accepts
  LoopbackHosts,       \* what IsLoopbackHost accepts
  DefaultTargetLease,
  MaxTargetLease

ASSUME NamesAssumption ==
  /\ "" \notin Identifiers \cup Repositories \cup CheckoutTargets \cup LoopbackHosts
  /\ {"localhost", "127.0.0.1"} \subseteq LoopbackHosts

ASSUME LeaseAssumption ==
  /\ DefaultTargetLease \in Nat \ {0} /\ MaxTargetLease \in Nat
  /\ DefaultTargetLease <= MaxTargetLease

MinimumSupportedMacOSMajor == 14

-----------------------------------------------------------------------------
\* URLs: path is "" or "/" for a base URL, ended by a slash or not.
NoURL == [scheme |-> "", host |-> "", user |-> FALSE, path |-> "", query |-> FALSE]

\* What every endpoint requires, and report_url no more than that.
ValidReportURL(u) ==
  /\ u.scheme \in {"http", "https"}
  /\ u.host # ""
  /\ ~u.user /\ ~u.query
  /\ u.scheme = "http" => u.host \in LoopbackHosts

ValidBaseURL(u) == ValidReportURL(u) /\ u.path \in {"", "/"}

\* strings.TrimRight(url, "/")
NormalizeBaseURL(u) == IF u.path = "/" THEN [u EXCEPT !.path = ""] ELSE u

\* "http://" + listen
ListenURL(listen) == [NoURL EXCEPT !.scheme = "http", !.host = listen]

-----------------------------------------------------------------------------
\* The runner's configuration, as Config.Validate leaves it.
ValidHTTPURL(u) == u = NoURL \/ ValidReportURL(u)

ValidEndpoints(config) ==
  /\ ValidHTTPURL(config.register) /\ ValidHTTPURL(config.heartbeat)
  /\ ValidHTTPURL(config.deregister)
  /\ (config.heartbeat # NoURL \/ config.deregister # NoURL) => config.register # NoURL
  /\ config.register # NoURL => config.deregister # NoURL

ValidOrigins(config) == \A u \in config.origins : ValidBaseURL(u)

ValidTunnel(config) ==
  config.mode = "named" => ValidBaseURL(config.publicURL) /\ config.publicURL.scheme = "https"

ValidJobs(config) ==
  /\ config.jobs # {}
  /\ \A job \in config.jobs :
       /\ job.id \in Identifiers
       /\ job.checkout => job.allowed # {}
       /\ job.allowed \subseteq Repositories
       /\ \A other \in config.jobs : other.id = job.id => other = job

ValidConfig(config) ==
  /\ config.listen \in {"127.0.0.1", "localhost"}
  /\ config.id \in Identifiers
  /\ ValidEndpoints(config) /\ ValidOrigins(config) /\ ValidTunnel(config) /\ ValidJobs(config)

-----------------------------------------------------------------------------
\* targetEligibilityError
ListenIsLoopback(listen) == listen \in {"127.0.0.1", "localhost"}

Supported(mac) ==
  /\ mac.os \in {"macOS", "darwin"}
  /\ mac.arch = "arm64"
  /\ mac.version # <<>>
  /\ mac.version[1] >= MinimumSupportedMacOSMajor

Eligible(t) ==
  /\ t.publicURL # NoURL \/ t.listen # ""
  /\ t.listen # "" => ListenIsLoopback(t.listen)
  /\ t.publicURL # NoURL => ValidBaseURL(t.publicURL)
  /\ t.jobs \subseteq Identifiers
  /\ t.active >= 0 /\ t.queued >= 0 /\ t.limit >= 0
  /\ Supported(t.mac)

\* targetLoadError
HasCapacity(t) == t.accepting /\ (t.limit > 0 => t.queued < t.limit)

\* xcodeVersionAtLeast; a version without a number is the empty sequence.
VersionPart(version, i) == IF i <= Len(version) THEN version[i] ELSE 0

VersionAtLeast(actual, minimum) ==
  /\ actual # <<>>
  /\ \A i \in 1..Len(minimum) :
       \/ VersionPart(actual, i) >= minimum[i]
       \/ \E j \in 1..(i - 1) : VersionPart(actual, j) > minimum[j]

\* targetConstraintError
Satisfies(mac, q) ==
  /\ q.minCPUs > 0 => mac.cpus >= q.minCPUs
  /\ q.minMemory > 0 => mac.memory >= q.minMemory
  /\ q.minXcode # <<>> => VersionAtLeast(mac.xcode, q.minXcode)

\* targetPublicURLError
Reachable(t, q) == q.public => t.publicURL # NoURL

-----------------------------------------------------------------------------
\* A request with machine "" is not pinned to one.
SafeCheckout(q) ==
  /\ q.repo # "" => q.repo \in Repositories
  /\ q.ref # "" => q.ref \in CheckoutTargets
  /\ q.commit # "" => q.commit \in CheckoutTargets

ValidMetadata(q) == q.id \in Identifiers /\ SafeCheckout(q)

ValidDispatchRequest(q) ==
  /\ q.job \in Identifiers
  /\ q.minCPUs >= 0
  /\ q.machine # "" => q.machine \in Identifiers
  /\ ValidMetadata(q)

\* activeTargets: targets maps machine IDs to what they registered, reserved to
\* the queue slots that dispatches hold there.
Leased(t, now) == t.lease = 0 \/ t.lease >= now

WithReservations(t, reserved) == [t EXCEPT !.queued = @ + reserved[t.id]]

Live(targets, reserved, now) ==
  {WithReservations(targets[m], reserved) : m \in {m \in DOMAIN targets : Leased(targets[m], now)}}

EligibleTargets(targets, reserved, now) ==
  {t \in Live(targets, reserved, now) : Eligible(t) /\ HasCapacity(t)}

Fits(t, q) ==
  q.job \in t.jobs /\ Eligible(t) /\ Satisfies(t.mac, q) /\ Reachable(t, q) /\ HasCapacity(t)

PinnedTargets(targets, reserved, q, now) ==
  {t \in Live(targets, reserved, now) : t.id = q.machine /\ Fits(t, q)}

UnpinnedTargets(targets, reserved, q, now) ==
  {t \in EligibleTargets(targets, reserved, now) : Fits(t, q)}

DispatchTargets(targets, reserved, q, now) ==
  IF q.machine # "" THEN PinnedTargets(targets, reserved, q, now)
  ELSE UnpinnedTargets(targets, reserved, q, now)

\* sortTargetsByLoad; IDs are ordered by their place in the alphabet.
Before(t, u, alphabet) ==
  \/ t.active < u.active
  \/ t.active = u.active /\ t.queued < u.queued
  \/ t.active = u.active /\ t.queued = u.queued /\ alphabet[t.id] < alphabet[u.id]

\* The URL that a dispatch uses for a target.
RunnerBaseURL(t) == IF t.publicURL # NoURL THEN t.publicURL ELSE ListenURL(t.listen)

-----------------------------------------------------------------------------
\* A registration, and what a restart makes of the stored ones.
NormalizedLease(lease, now) ==
  IF lease = 0 THEN now + DefaultTargetLease
  ELSE IF lease > now + MaxTargetLease THEN now + MaxTargetLease
  ELSE lease

NormalizeLease(t, now) == [t EXCEPT !.lease = NormalizedLease(t.lease, now)]

Registrable(t) == t.id \in Identifiers /\ Eligible(t)

LoadedTargets(targets, now) ==
  [m \in {m \in DOMAIN targets : /\ m # "" /\ m = targets[m].id
                                 /\ Leased(targets[m], now) /\ Eligible(targets[m])}
     |-> NormalizeLease(targets[m], now)]

\* A dispatch: its request, target, runner URL and build ("" before acceptance).
Acceptance(active) == active.base # NoURL /\ active.build # ""

PersistedActive(active) == [r \in {r \in DOMAIN active : Acceptance(active[r])} |-> active[r]]

\* Mutant of LoadedActive: an unpinned request is taken for one of another target.
LoadedPinned(active, recorded) ==
  [r \in {r \in DOMAIN active : active[r].request.machine = active[r].machine} |-> active[r]]

LoadedActive(active, recorded) ==
  [r \in {r \in DOMAIN active :
            /\ r = active[r].request.id /\ r \notin recorded
            /\ ValidDispatchRequest(active[r].request)
            /\ Acceptance(active[r])
            /\ active[r].machine \in Identifiers
            /\ active[r].request.machine \in {"", active[r].machine}
            /\ ValidBaseURL(active[r].base)
            /\ active[r].build \in Identifiers}
     |-> active[r]]

=============================================================================
