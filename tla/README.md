# Transwarp: models, checks and proofs

Transwarp turns a desk machine into a CI runner.  A Go agent serves an HTTP API
on the machine and runs one build at a time; CI reaches it through a Cloudflare
tunnel; a small reference coordinator picks a runner for a job and waits for its
result; a macOS app starts and stops the agent.  This directory holds TLA+ models
of the parts of that system where goroutines, processes and lost messages meet,
TLC configurations that check them on small instances, and proofs, for every
instance, of all the invariants and action properties and of both refinements that
those configurations check.

Paths below are relative to the repository; `build.go`, `agent.go` and
`registration.go` are in `src/internal/agent/`, `server.go` is
`src/internal/coordinator/server.go`, `client.go` is `src/internal/dispatch/client.go`.

    tlc -config RunnerQueue.cfg MCRunnerBuilds      # any run of the table below
    tlapm RunnerBuildsProofs.tla                    # and the other modules named *Proofs

## 1. Inventory

| component | state | operations | talks to |
|---|---|---|---|
| Build queue and execution (`build.go`) | `builds`, `activeBuildID`, `queuedBuildIDs` under `buildsMu`; each `BuildRun`'s record, report status, context and two channels under its own lock; the ledger `jobs.jsonl` | start, cancel, status, complete, prune, report, shut down | CI over HTTP, the report URL, the ledger file, the registrar by a one-slot channel |
| Event stream (`build.go`, `buildStream`) | up to 5000 retained events and a changed channel per run | write, `eventsAfter`, `writeTo` | the run's goroutine writes, any number of HTTP tails read |
| Registration (`registration.go`, `agent.go`) | `registrationStatus`, the refresh channel | register with retry, heartbeat, deregister | CI or the coordinator; reads the load under `buildsMu` |
| Availability (`http.go`, `agent.go`) | `acceptingBuilds` | pause, resume | the registrar by the refresh channel |
| Coordinator (`server.go`) | `targets` with leases, `active`, `targetReservations`, `results` under one lock; the state file | register, deregister, list, dispatch, reconnect, cancel, record a result, load and save | runners (start, tail, cancel), runners' callbacks, CI |
| Dispatch client (`client.go`) | none that outlives a call | start, tail with reconnection, cancel, retries | runner or coordinator |
| Tunnel (`tunnel.go`) | the cloudflared child, its public URL, whether it is ready | start, wait until ready, stop | agent, registrar |
| Runner process in the app (`RunnerProcess.swift`, `AppModel.swift`) | the child process, the task that escalates its stop | start, stop with escalation, termination callback | the agent process |
| Workspace, process group, power (`workspace.go`, `build_process_unix.go`, `power.go`) | a directory, a process group, a caffeinate child per build | prepare, guard, clean up | git, the build command |
| Configuration, secrets, validation, redaction, capabilities | read once, or pure | load, check, transform | files, Keychain |
| Readiness, audit, diagnosis, the action and scripts | none | sequential checks of receipts and deployments | files, HTTP |
| App views and settings | form state | edit | `AppModel` |

### What is hard in it

* **Interleavings.**  A cancel looks for its build in the queue while another
  build's `completeBuild` is about to start it; `shutdownBuilds` walks a snapshot of
  the runs while handlers still accept work; a target leaves between a
  coordinator's reservation and its runner's answer.
* **Ordering.**  The slot must be kept through the result callback and its
  retries; the refresh token must be asked for after the load has changed; the
  runner's result may reach the coordinator before the coordinator has read the
  answer to its own start call.
* **State used after an unlock.**  `cancelBuild` checks and then calls;
  `dispatchTargets` copies targets that are gone when they are reserved;
  `markActiveDispatchBuild` returns to an entry that may be somebody else's.
* **Crash and partial failure.**  The ledger line, the callback and the second
  ledger line are separate steps, and ledger writes may fail silently; the
  coordinator changes its memory before it saves.
* **Lost and repeated calls.**  A report may have arrived although its answer did
  not; a start may be repeated by the client; a registration post may count as
  failed on one side only.
* **Waiting.**  A queued build waits for a slot, a shutdown for closed channels, a
  dispatch for a result that may never be sent, a job for output pipes that children
  of its command hold open.
* **Copies of a status.**  The tunnel's monitor and the goroutine that registers
  each read the status, look a name up for seconds, and then write what they think.
* **Three sets of checks.**  Runner, coordinator and command each validate the same
  targets, requests, statuses and results by code of their own, and the coordinator
  validates again what it has stored.

`PROJECT.json` lists these one by one, each at its line, with the properties that
would catch it going wrong; those without a property yet say so.

### What makes each part correct

* Queue: one build at a time; no build lost, none started twice or after its
  cancel was accepted from the queue; the slot goes on exactly when the report
  is settled; one verdict, the same in the record, the stream, the ledger and at CI.
* Registration: CI's idea of the load is the runner's, or about to be.
* Coordinator: a reservation per bound dispatch, no more and no less; no dispatch
  without a goroutine that ends it; results of the builds that ended, never lost.
* Log and command: every event once, over any number of connections; exit code 0 only
  for a build that passed; an interrupted command leaves no work behind.
* Runner process: registered once the tunnel is usable, not advertised without it,
  deregistered at the end.
* Job: it ends by its timeout, whatever its processes do.
* Data: what one program lets through, the next does not refuse.

## 2. Modules

| module | what it is |
|---|---|
| `RunnerBuilds` | the build queue: state, one action per handler step, fairness, properties |
| `BuildService` | abstract: what a runner promises about the builds it accepts |
| `RunnerService` | the refinement mapping from `RunnerBuilds` to `BuildService` |
| `RunnerRegistration` | `RunnerBuilds` composed with the registrar |
| `AgentRun` | the runner process: tunnel, registration, heartbeat, shutdown |
| `BuildStream` | one build's event stream, the handler that follows it, the status endpoint |
| `BuildLog` | abstract: what a build's log promises to its reader |
| `DispatchClient` | `BuildStream` composed with the dispatch command in direct mode; implements `BuildLog` |
| `Coordinator` | the coordinator's dispatch state with its runners as parties outside |
| `CoordinatedBuild` | `Coordinator` composed with dispatch commands in coordinator mode and with verdicts |
| `BuildProcess` | one `runJob` with git, the command's processes, the guard and caffeinate |
| `TargetRules` | operators: what a coordinator requires of targets and requests, which targets it tries, what it reloads |
| `ResultRules` | operators: the checks of requests, statuses, reports, results and events in all three programs |
| `DispatchedBuild` | one build through all three programs: `BuildProcess` with the data of the two modules of rules |
| `RunnerInvariant` | the inductive invariants of `RunnerBuilds`, each an extension of the one before |
| `RunnerBuildsProofs` | proofs about the build queue |
| `RunnerReportsProofs` | proofs about what the runner tells: reports, ledger, status, stream |
| `RunnerServiceProofs` | proof of the refinement of `BuildService`, and of what the registrar advertises |
| `AgentRunProofs` | proofs about the runner process |
| `CoordinatorProofs` | proofs about `Coordinator` and its composition `CoordinatedBuild` |
| `DispatchClientProofs`, `RulesProofs`, `DispatchedBuildProofs` | proofs about the modules they are named for |
| `MCRunnerBuilds`, `MCRunnerRegistration`, `MCCoordinator`, `MCCoordinatedBuild`, `MCDispatchedBuild` | symmetry sets, bounds and data for TLC |

A definition whose comment begins "Mutant of" is a variant of the definition after
it with a plausible bug; no behaviour specification uses it.  Every property of
every passing run has one that breaks it.

### RunnerBuilds

| variable | code |
|---|---|
| `builds`, `active`, `queue`, `accepting` | `agent.builds` (its keys), `activeBuildID`, `queuedBuildIDs`, `acceptingBuilds` |
| `refresh` | whether the one-slot `registrationRefresh` channel is full |
| `request`, `withReport` | the build's `request_id`, and whether its payload has a `report_url` |
| `started`, `canceled`, `record`, `reportStatus` | `run.started`, `run.ctx` canceled, `run.record`, `run.reportStatus` |
| `pc`, `result`, `attempt` | the place of the build's goroutine and its locals |
| `stream` | the terminal and report events in `run.Stream` |
| `handler` | the requests in progress, `shutdownBuilds` included |
| `toCancel`, `awaited`, `phase` | `shutdownBuilds`' two loops; whether the process is up, draining or stopped |
| `ledger`, `receipts` | the last line per build in `jobs.jsonl`; reports that reached the report URL |

A critical section of `buildsMu` is one action (`StartBuild`, `CompleteBuild`,
`CancelDequeues`).  Outside it, an action ends wherever another goroutine can see
or change what follows, so `finishBuildRun` is a path through `pc`:

    preparing -> running -> exited -> cleanup -> recorded -> reporting -> settling
      -> noting -> telling -> completing -> closing -> done -> closed

A build canceled while it is queued is "withdrawn" while the canceling handler
publishes its record; its own goroutine then joins at "reporting" (or "closing")
and, as in the code, never calls `completeBuild`.

What a build prints, how long it runs, and the wording of errors are left out.
`finishBuildRun`'s reading of the context is kept: `ctx.Err()` is read once for
the record and once more for the terminal event, so the event of a failed command
may say "canceled" while the record says "failed".  `StreamTellsRecord` states
exactly this exception.

### RunnerRegistration

Adds the registrar goroutine: `RegisterWithRetry`, then `RunHeartbeat` taking a
token or a tick, building a post from `buildLoad`, and posting.  `target` is the
load CI has on record.  A post that fails at the runner may or may not have
reached CI.  With the tunnel off, `AcceptingBuilds` is the pause flag alone; what the
tunnel adds to it is the subject of `AgentRun`.

### AgentRun

| variable | code |
|---|---|
| `mode`, `stopped` | `config.Tunnel.Mode`; whether the context of `Run` is over |
| `main` | where `Agent.Run` is |
| `tunnel`, `child` | `Tunnel.status`; cloudflared, whose exit closes `tunnel.done` |
| `monitor`, `joiner` | `monitorReadiness`; `registerWhenTunnelReady` with `WaitReady`: place, copy of the status, successes |
| `heartbeat`, `post`, `late` | `RunHeartbeat`; the post each goroutine has in flight; posts given up that may still arrive |
| `target`, `revived` | outside: what CI has on record, and whether a late post changed it |
| `resolves` | outside: whether the public name resolves |

Between reading the status and writing it back lies a DNS lookup, so each of the two
goroutines has a step that reads, one that looks up, and a write made from the copy.
The signals by which `Tunnel.Stop` ends cloudflared and the search for its executable
are left out.

### BuildStream and DispatchClient

| variable | code |
|---|---|
| `phase`, `canceled`, `record`, `report`, `remembered` | the build's goroutine at the points that the outside can tell apart, its context, `run.record`, `run.reportStatus`, whether it is in `agent.builds` |
| `events` | every event written; `stream.events` is its last `Retained` |
| `conn` | the handler of `GET .../logs`: its `next`, and the copy it is writing |
| `at`, `from`, `after`, `last`, `heard`, `failure`, `result`, `reportError`, `tries` | the command: its place and the locals of `tailWithResult`, `readEvents` and `doDispatchRequest` |
| `interrupted`, `outcome` | its context; what it exits with |
| `printed`, `heardOut` | history, for `LogKept` and `ReportFailureShown` |

`eventsAfter` copies under the stream's lock and `writeTo` writes the copy without it,
so the build goes on while the copy is sent.  A connection may end cleanly in the
middle, be reset, or go with the runner.  A request may fail before or after the
runner has acted on it, and is repeated on a public base URL.

### CoordinatedBuild

Adds to `Coordinator` the commands (`client`), the responses they read (`call`, one
per command, collected until it ends, since the command looks at it then) and how each
build ended (`verdict`).  It has the reconnection of a repeated dispatch to its
accepted build, cancels forwarded to the runner, recorded results, and the lookup of
the result that decides the exit code.

### BuildProcess and DispatchedBuild

| variable | code |
|---|---|
| `at`, `ctx`, `record` | where `runJob` is, its context, the exit code and error of its `LedgerRecord` |
| `gits`, `git`, `helper`, `workspace` | `prepareWorkspace`: git commands left, the one running, whether a helper of git has its output open, the directory |
| `running`, `forked`, `holding`, `deaf`, `left`, `termed`, `exit` | the command and its children: alive, with the output open, ignoring SIGTERM, outside the group, told to end |
| `guard`, `interrupt`, `power` | `watchBuildProcess`, os/exec's own cancel, caffeinate |
| `config`, `public`, `name` | the configuration; `Agent.publicURL`; the registrar's copy of it |
| `targets`, `active`, `results` | what the coordinator keeps, with the data |
| `entry`, `report`, `answer` | the ledger record, the payload of `reportBuild`, what the coordinator answered |

A process may end, fork, close its output or ignore SIGTERM at any time, and a child
may leave the process group.  In `DispatchedBuild` a dispatch is one step, from
`beginDispatch` to the acceptance: who calls whom when, and what is lost on the way,
is the business of the other modules.  URLs are records of what the code reads of
them, texts are acceptable when they are in a constant set, versions are sequences of
numbers, and the two clocks of a job (wall and monotonic) are constants.

### Coordinator

| variable | code |
|---|---|
| `targets` | `server.targets`: the advertised queue length, and whether the lease runs |
| `active` | `server.active`: the selected target, and whether `RunnerBuildID` is known |
| `reservations`, `results` | `server.targetReservations`, `server.results` |
| `dispatcher` | the goroutines of `dispatchBuild` with their locals |
| `disk` | the file at `-state-path` |
| `fate`, `report` | outside: the build at its runner and the runner's result callback |

Each action is one critical section of `server.mu`, or one exchange with a runner
between two of them.  A build is named by its request and target.  A paused target
is one whose queue is full.  Verdicts, cancels and reconnections change nothing in the
coordinator; they are in `CoordinatedBuild`.

## 3. Runs

Safety runs use symmetry under permutations of IDs and handlers, which no action or
property tells apart.  `CHECK_DEADLOCK FALSE` stands where a runner whose builds are
finished and which nobody calls may rest.

| run | question | instance | distinct states |
|---|---|---|---|
| `RunnerQueue` | does the queue keep its promises when starts, completions, pruning and two cancels meet? | 3 builds, queue of 2, 1 retained, 2 cancel handlers | 640 k |
| `RunnerReports` | do record, stream, ledger and callback agree; does every build close, every shutdown drain? | 2 builds with callbacks, 2 attempts, fair, shutdown and restart | 206 k |
| `RunnerRestart` | what survives a crash at any step and failing ledger writes? | 2 builds with callbacks, pause and resume, crash and restart | 826 k |
| `RunnerRegistration` | is a change of the load ever lost on its way to CI? | 2 builds, pause and resume, failing posts | 1.7 M |
| `AgentRun` | does the runner register, advertise, end and deregister as it should, with stale copies of the tunnel's status? | no tunnel or a quick one, 1 success for 3, 2 reads, 1 change of the name, 1 late post, fair | 248 k |
| `DispatchClient` | is the log printed exactly once, and the exit code right, over broken connections, failed requests, interrupts and a crash? | 2 log lines, 2 events retained, 1 retry, fair | 250 k |
| `CoordinatorDispatch` | do reservations, dispatches and results stay consistent? | 2 requests, 2 targets, 2 goroutines, deregistration | 543 k |
| `CoordinatorLiveness` | does every dispatch end? | 1 request, 2 targets, 2 goroutines, fair, lost answers, restarts without a state file | 220 k |
| `CoordinatedBuild` | is a command's success that of a passed build on record, and what does a restart at any point keep? | 1 request, 2 targets, 2 commands, lost answers, restarts | 108 k |
| `DispatchedBuild` | is any data of a build refused on its way, and does the job end? | 3 configurations, pinned and unpinned requests, 3 clocks, 1 child, fair | 206 k |
| `FailedBuildFails`, `RepeatReadable` | a sentence of the documentation against the code (section 6) | as small as shows it | |

What the properties say:

* `SlotHeld`, `QueueSound`: the slot is exactly the life of one goroutine, from its
  start until its `completeBuild`; queued IDs are distinct, retained, untouched
  builds, and nothing waits while the slot is free.
* `QueuedCancelNeverRuns`: a build taken out of the queue by a cancel is never
  started, by whichever goroutine found it.
* `ReportBeforeNextStart`: nothing starts before the reports of all earlier builds
  are settled.
* `ReportsTrue`: what reached CI is the build's own verdict, and a report
  marked delivered was.
* `StreamTellsRecord`, `LedgerFinal`: stream and ledger tell what the record says.
* `VerdictStaysVisible`, `VerdictNeverChanges`: a verdict the status endpoint has shown
  stays, also when the run is pruned; after a crash it may be unknown, never another.
* `BuildsClose`, `ShutdownDrains`: every accepted build closes; the shutdown's wait ends.
* `ServiceImplemented`: `RunnerBuilds` implements `BuildService` under `RunnerService`'s
  mapping, also with crashes (every build of the dead process is then "lost").
* `AdvertisedLoadCurrent`: CI has the current load, or a post, a token or a request
  for a token is under way.
* `DeregistrationIsLast`, `RunEnds`: nothing that the runner sends comes after its
  deregistration, but a late post that it had given up; `Run` ends after a signal and
  after the tunnel's end.
* `RegistrationComes`, `LossAdvertised`: a tunnel that stays usable is registered
  though its name was slow to resolve; one that is not ready is soon not advertised.
* `LogKept`: command, connections and stream implement `BuildLog`.
* `SuccessGenuine`, `ReportFailureShown`: exit code 0 is that of a passed build,
  wherever the command has it from, and not over a failed report that the log tells.
* `NoWorkLeft`, `CommandEnds`: an interrupted command has canceled what it knew of; a
  command ends.
* `ReservationsExact`, `ActiveOwned`, `ResultGenuine`: see section 1.
* `SuccessOnRecord`: a command of the coordinator mode succeeds only on the result of
  a passed build of its request, which stays on record.
* `ResultKept`, `RestartKeepsDispatches`, `DispatchEnds`: through restarts, when saves
  succeed, results and accepted dispatches are kept; every dispatch ends (of a
  coordinator without a state file: one that is restored from it may not, section 5).
* `JobEnds`: a job ends, unless its output is kept open for ever by a process that left
  the group, or by a helper of a git that has ended.
* `ReportRecorded`: the coordinator refuses a report only if the wall clock was set
  while the job ran, or the tunnel was renamed after the registration.
* `Readable`, `RestartKeeps`: nothing that one program tells is refused by another's
  checks, nor by those of a restart.

### Bounds, and why they are enough

* Two builds are one in the slot and one in the queue; three add the order of the
  queue, a build behind the canceled one, and pruning among several finished runs.
  `MaxQueuedBuilds` (25 in the code) and `MaxRetainedBuilds` (50) are 1 or 2 so that
  both limits are reached; the theorems hold for every value.
* `ReportAttempts` (4 in the code) is 2 where retries matter, 1 elsewhere: first,
  last and a retry are all that the code tells apart.
* Build IDs are never reused (they are random), so a run ends its behaviours when
  the IDs are used up; restarts are not bounded otherwise.
* `RunnerReports` has two constraints.  `InOrder` numbers builds in the order of
  their issue, because TLC cannot use symmetry with liveness.  `QuietDrain` keeps
  clients quiet during a drain; cancels of clients against `completeBuild` are
  `RunnerQueue`'s question.
* In the coordinator, two requests compete for a target, and two targets are the one
  tried and the next.  `QueueLimit` is 1, so the second reservation always meets a
  full target.  `CoordinatorDispatch` leaves restarts and lost answers to the runs
  with one request, where two goroutines can still meet in it: a dispatch whose entry
  was dropped, and its repetition.
* In `CoordinatedBuild` two commands of one request are the first and its repetition,
  by a retry of the CI or by hand; targets stay, since `FailedBuildFails` shows what
  happens otherwise, and saves succeed.  Saves that fail are left to the theorems (section 4).
* In `DispatchClient`, two log lines with the verdict and the report exceed the two
  retained events, so that gaps come before and between connections; reading on
  from event 0 and event 1 has a first connection with and without a gap.
* In `AgentRun`, one success stands for the three in a row, since a success only
  counts; a wait of two reads may time out or see one change.  The named mode is the
  quick one whose name is known from the start, and is left out.
* In `DispatchedBuild`, one child is enough to outlive the command, to hold the
  output, to ignore SIGTERM or to leave the group; one clock is at the tolerance of
  100 ms, one a millisecond within, one set back.  The three configurations are the
  three ways to have a base URL.  The rules are proved for all data (section 4).

### Fairness

`RunnerBuilds`: weak fairness of each build's goroutine, of each handler that has
begun, and of `shutdownBuilds`' loops.  Goroutines that can run are scheduled; the
one step that waits for something outside, the end of the command, comes because
`runJob` runs it under `TimeoutSeconds` and the process guard kills its group; a
report attempt ends because `postBuildReport` gives it 15 seconds.  No fairness of
clients: nobody has to start, cancel or pause.

`Coordinator`: weak fairness of each step of `dispatchBuild` and of a runner's
`BuildEnds`.  `waitForResult` returns by its timer if by nothing else.  Nothing is
assumed of callbacks, registrations, leases or saves, so `DispatchEnds` holds even
when the result never comes.

`AgentRun`: weak fairness of each goroutine, and of a killed child's exit; a post ends
by its timeout.  Strong fairness of posts of registration and heartbeat: CI takes one
at last if it is sent again and again.  Nothing is assumed of cloudflared, DNS or
signals.

`DispatchClient`: weak fairness of the build, which the runner limits, of the handler
and of the command; strong fairness of the case of the done channel, because Go's
select chooses at random among what is ready, and of an answer to a status request
that is made again and again: without it a stream that is cut every time would be
reopened for ever, which the code does.

`DispatchedBuild`: weak fairness of the job, the guard, os/exec's cancel, the timeout
and of a SIGTERM that is not ignored; nothing is assumed of the command and its
children otherwise, and nothing of git's helpers.  `CombinedOutput` waits for whoever
holds git's output and nothing in the code ends a helper, so `JobEnds` has as its premise
(`OutputLetGo`) that no helper stays for ever after its git.

## 4. Proofs

The theorems hold for all values of the constants that satisfy the modules'
assumptions: any number of builds, requests, clients, targets, goroutines, events,
retries.  No assumption is about finiteness but that of the children of a command.  The
assumptions say that the names of nothing, of the shutdown goroutine and of the build's
command are not among the others, that limits are numbers, that there is at least one
report attempt and two retained events, and which texts and URLs are acceptable.  Two of
them are about the model only: `LineAssumption` and the second conjunct of
`CoordinatorAssumption` say that the value for "none" is not one of the records it
stands beside, which TLA+ leaves open.  `DispatchedAssumption` has what is true of Go's
clocks: no job ends at the zero time, and the monotonic clock does not go back.

Some theorems have a hypothesis.  It is the setting of the run that checks the
property, and without it the code does not have the property:

| hypothesis | why it is needed |
|---|---|
| `~LedgerMayFail` | the ledger's errors are logged and dropped: after one, the last line of a build is an older one |
| `Stops = {}` | a crash loses the verdicts that no line tells; a restarted runner registers anew, and the registrar is modelled for one life |
| `~MayRestart` | restored dispatches have neither goroutine nor reservation (section 5) |
| `KeepsRecords` (`Durable \/ ~MayRestart`) | a coordinator without a state file, or whose save failed, forgets results when it restarts |
| `Durable` (`StatePath /\ ~SaveMayFail`) | likewise for accepted dispatches |
| `CIRegistration = TRUE` | without registration there is no registrar |
| `Afters <= 1` | see `FailedReportsShown` below |

### The build queue

`RunnerBuildsProofs`:

| theorem | statement |
|---|---|
| `Invariance` | `Spec => []IInv` |
| `TypeCorrect` | `Spec => []TypeOK` |
| `SlotAlwaysHeld` | `Spec => []SlotHeld` |
| `QueueAlwaysSound` | `Spec => []QueueSound` |
| `CanceledNeverRuns` | `Spec => QueuedCancelNeverRuns` |
| `ReportFirst` | `Spec => ReportBeforeNextStart` |

The invariant is `IInv == TypeOK /\ StepsFit /\ HandlersFit /\ SlotHeld /\ QueueSound`:

* `SlotHeld` alone is not inductive.  A build that leaves the queue must not have
  been started or withdrawn, which is `QueueSound`.
* `QueueSound` needs that a handler about to publish a record is not about to do so
  for a queued build: `HandlersFit` says that its build is "withdrawn", and that it
  is the only handler publishing for it.
* `TypeOK` needs that a goroutine about to publish `result` has a verdict there and
  one about to write the ledger has a record: `StepsFit`, which also says that a
  started build is never withdrawn and an unknown one has no goroutine.
  `ReportFirst` follows from it and `SlotHeld`: a started build that does not hold
  the slot is past "completing", so its report is settled.

Each conjunct has its own preservation lemma (`TypeStep`, `FitsStep`,
`HandlersFitStep`, `SlotHeldStep`, `QueueSoundStep`), one step per action.  Actions
that leave a conjunct's variables alone are dealt with together (`FitsUntouched`,
`HandlersUntouched`, `SlotUntouched`, `QueueUntouched`); `OwnStep` says what the steps
of a goroutine before `completeBuild` have in common; `Handover` is the arithmetic of
`CompleteBuild`; `WithoutEntry` and `Behind` say what is left of a queue when an entry
or a prefix is taken away.  `StepIInv` puts the lemmas together.

### What the runner tells

`RunnerReportsProofs` extends that invariant, each time by what the next property needs:

| theorem | statement | invariant |
|---|---|---|
| `ReportsAreTrue` | `Spec => []ReportsTrue` | `TruthInv` |
| `VerdictKept` | `Spec => VerdictNeverChanges` | `TruthInv` |
| `StreamsTellRecords` | `Spec => []StreamTellsRecord` | `StreamInv` |
| `LedgerIsFinal` | `~LedgerMayFail` proves `Spec => []LedgerFinal` | `LedgerInv` |
| `VerdictVisible` | `~LedgerMayFail`, `Stops = {}` prove `Spec => VerdictStaysVisible` | `LedgerInv` |

* `ReportsTrue` compares receipts and ledger with each other, but they are never written
  together: each is written from the record.  So `TruthInv` says of each that it is what
  the record says, unless the record was lost with its process, and (`RecordDue`) that
  the record is set once: a build between its acceptance and its outcome has none, and
  a withdrawn one can only get "canceled".
* `StreamInv` says of every place of the goroutine what its stream holds there.  The
  verdict it names is the record's or the cancel between the two readings of
  `ctx.Err()` (`Names`).
* `LedgerInv` says from which step on the last line is up to date: "telling" for the
  build's own goroutine, "announcing" for a handler that canceled it in the queue.
  `VerdictVisible` follows, since `completeBuild` prunes builds that are "done".

### The refinement of BuildService

`RunnerServiceProofs` proves `Spec => ServiceImplemented` (`ServiceIsImplemented`)
without hypotheses, with crashes and restarts: every step of `RunnerBuilds` is one of
`BuildService` under the mapping of `RunnerService`, or leaves `Service!service` alone.
The invariant `ServiceInv` adds to `StreamInv` that a build at work is in memory
(`Remembered`) and that a callback is owed from acceptance to settlement (`ReportOwed`).
Then one lemma per step that the service sees says which of its steps it is:
`StartAccepts`, `RecordDecides`, `AttemptTells`, `SettledSettles`, `DequeueWithdraws`,
`CancelDecides`, `HeadStarts` and `CompleteReleases`, `LossForgets`; for all others
`Unseen` holds.  That the head of the queue is started, and nothing else, rests on
`QueueSound` and `SlotHeld`.

### Registration and the life of the runner process

`LoadIsAdvertised` (in `RunnerServiceProofs`) proves `RegSpec => []AdvertisedLoadCurrent`
for `CIRegistration = TRUE` and `Stops = {}`.  The property speaks of an idle registrar
only; `PostFits` is what makes it inductive: the load in a post under way is the current
one, or a token or a handler that owes one is there.

`AgentRunProofs` proves, from `AgentAssumption` alone, `AgentTypes`
(`Spec => []TypeOK`) and `DeregistrationStays` (`Spec => []DeregistrationIsLast`).  The
types rest on `Read`: what the monitor writes back after its lookup is a copy it has
made.  `DeregistrationIsLast` holds because of the order in which `Agent.Run` waits:
`Places` says that registration is over when `Run` serves and the heartbeat has ended
when it deregisters, `Waiting` that each goroutine waits for its own post, and
`Deregisters` that the last post in flight is the deregistration.

### The coordinator

`CoordinatorProofs`:

| theorem | hypothesis | statement |
|---|---|---|
| `CoordinatorTypes` | | `Spec => [](TypeOK /\ FinitelyActive)` |
| `ReservationsAreExact` | `~MayRestart` | `Spec => []ReservationsExact` |
| `ReservationsAreBacked` | | `Spec => []NoPhantomReservation` |
| `ActiveDispatchesAreOwned` | `~MayRestart` | `Spec => []ActiveOwned` |
| `ResultsAreGenuine` | `KeepsRecords` | `Spec => []ResultGenuine` |
| `RecordsAreOfEndedBuilds` | | `Spec => []RecordsEnded` |
| `NoDispatchOfRecorded` | | `Spec => []ActiveUnrecorded` |
| `SavedResultsAreKept` | | `Spec => SavedResultKept` |
| `ResultsAreKept` | `KeepsRecords` | `Spec => ResultKept` |
| `RestartsKeepDispatches` | `Durable` | `Spec => RestartKeepsDispatches` |
| `BuildsAreCoordinated` | | `BuildSpec => Spec` |
| `CoordinatedBuildTypes` | | `BuildSpec => []BuildTypeOK` |
| `SuccessIsOnRecord` | `KeepsRecords` | `BuildSpec => []SuccessOnRecord` |

* Nothing is assumed of the set of requests.  But a target that is dropped releases as
  many reservations as it has unaccepted dispatches, and that this is a number at all
  needs that they are finitely many: `FinitelyActive`, of the memory and of the state file, is
  part of the type invariant, since each step adds one dispatch at most.
* `ReservationsExact` is inductive with the types.  `Rebinding` is its arithmetic: what a
  step that changes one dispatch does to the number bound to a target.  Through restarts
  the equality becomes `<=` (`Counted`): restored dispatches have no reservations, and a
  release that finds none leaves zero, so the count may be too low but never too high.
* `RecordInv` relates the record, the state file and what runners were told: a report is
  sent by a build that ended; memory and file have results of reported builds only; memory
  has every result that the file has (`SavedRecorded`); with saves that succeed the file
  has what memory has.
* The composition adds no step that the coordinator's own specification does not allow
  (`BuildStepsAreSteps`), so that the theorems about `Spec` hold of `BuildSpec`.
  `SuccessOnRecord` then needs that a verdict does not change after the end of its build
  (`VerdictMoves`) and that results stay (`ResultsStay`).

### The log and the command

`DispatchClientProofs` proves `Spec => LogKept` (`LogAlwaysKept`), for any retention of
at least two events, any number of events, connections, retries and interrupts: the
initial states map to those of `BuildLog`, and every step to a step of it or a stutter.
The invariant `LogInv` (`LogInvariance`) says why: while a connection is read, the
handler goes on where the output ends; while it sends, its copy is in the log, and a
notice in it speaks only of events before the retained ones.  A lemma per group of
actions preserves it (`RunnerKeeps`, `OpeningKeeps`, `ReadingKeeps`, `EndingKeeps`,
`RequestsKeep`); `LogStep` maps the steps.

| theorem | statement |
|---|---|
| `CommandTypesKept` | `Spec => []TypeOK` |
| `SuccessIsGenuine` | `Spec => []SuccessGenuine` |
| `NoWorkIsLeft` | `Spec => []NoWorkLeft` |
| `FailedReportsShown` | `Spec => [](ReportFailureShown \/ Skipped)` |
| `FailedReportsAlwaysShown` | `\A a \in Afters : a <= 1` proves `Spec => []ReportFailureShown` |

Their invariant is `CommandInv == BuildInv /\ CommandTypes /\ KnowledgeFits /\ NoWorkLeft /\
ReachFits`: the events of the log against record and report (`BuildInv`); what the
command believes has been told (`KnowledgeFits`); and, if it has reached an event, it
knows what the event says (`ReachFits`).

`ReportFailureShown` does not hold for every `-after`.  A command that is told to
begin after the very event of the failed report does not hear of it from the log, and if
the request for the status fails, it has no other source: it exits with 0.  The proof
attempt showed this, and TLC does with a larger `Afters`; nothing in the documents speaks
against it, since the caller has asked to skip the event.  `Skipped` names this case and
`FailedReportsShown` says that it is the only one; a command that starts its build, or
reads on from the first event, never gets there, as the second event of a log is the
earliest that can be the report's.

### The rules and the dispatched build

`RulesProofs` has theorems about the operators, for any data: the two paths of
`dispatchTargets` agree (`PinnedAgrees`); the order of targets is a strict total one
(`LoadOrder`); what `register` takes, `loadState` keeps (`TargetReloads`); what
`startBuild` takes, `prepareWorkspace` can use (`StartPreparable`); the report of an
accepted build is recorded (`ReportAccepted`, if its clocks agree, `ClocksFit`, and it
has the public URL of the dispatch, `URLFits`).

`DispatchedBuildProofs` uses them and their lemmas for the states that are reached:

| theorem | statement |
|---|---|
| `RegistrationWelcome` | a valid configuration on a supported Mac makes registrations that `register` takes |
| `AlwaysReadable` | `DispatchedSpec => []Readable` |
| `RestartAlwaysKeeps` | `DispatchedSpec => RestartKeeps` |
| `ReportIsRecorded` | `DispatchedSpec => []ReportRecorded` |
| `DispatchedTypes` | `DispatchedSpec => []DispatchedTypeOK` |

That a stored dispatch passes the checks of the command and of a restart rests on the
checks that it passed before it was stored, and that an outcome is told of the right
dispatch on the order of job, entry, report and result.  So the invariant is
`Kept == InOrder /\ TargetKept /\ ActiveKept /\ EntryKept`: what came after what; the
target is a registration that was let in; the dispatch passed its checks; entry and
result are of the dispatch.  `ReportRecorded` and the types need more of the way there,
`Accounted`: the dispatch is on the Mac and by the URL that it has registered (`Placed`),
the entry is what `runJob` made of it with one of the clocks (`EntryTold`), the report
is made of the entry (`ReportMade`).

### Model-checked only

Liveness under fairness is beyond the prover and stays with TLC: `BuildsClose`,
`ShutdownDrains`, `RunEnds`, `RegistrationComes`, `LossAdvertised`, `CommandEnds`,
`DispatchEnds`, `JobEnds`.  So do the two runs that are violated.  Everything else that
a run checks is a theorem.

## 5. Not modelled, and why

* The app's process supervision (`RunnerProcess.swift`): start, interrupt, terminate and
  kill of one child, all on the main actor.  A start that throws leaves the status at
  "starting" (RunnerProcess.swift:72).  Planned, section 7.
* The signals of `Tunnel.Stop`, which are those of the build's guard with other times,
  and the search for cloudflared.
* Bearer tokens, redaction, headers, environment names, the Keychain, the reading of
  the host's capabilities: decided once, or on text only.
* Diagnosis, release readiness and audit, packaging, GitHub action, views: sequential
  tools without state that anything else depends on.

Behaviour met on the way that no document speaks against, kept in the models:

* A cancel that arrives while git prepares the workspace ends the build as failed,
  not canceled: git was killed, and its error is not `context.Canceled`.
* A build accepted after `openBuilds` took its snapshot is neither canceled nor
  awaited; it dies with the process, unreported.
* `waitForAcceptedRunnerBuild` gives up after two seconds with 409, which the runner
  does not retry: the result of a build accepted a moment later is lost and its
  dispatch ends by the timer of `waitForResult`.
* A build whose start was answered to nobody (an interrupt, a lost answer that is not
  retried) is left running by the command, which does not know its ID.
* A runner told to stop while it registers does not deregister, although a post whose
  answer was lost may have registered it (`NotRegistered`, agent.go:94-101): its target
  stays until the lease ends.
* A dispatch restored after a restart has no goroutine: if its report has been given
  up, it stays active, and its `request_id` reconnects to a build that is long over.
* A `runnerTerminalFailure` is recognised by its words (server.go:716); "build canceled",
  from a status rather than from the log, is not among them, and the dispatch then ends
  without waiting for the result.
* When the coordinator's tail of a build breaks, the dispatch ends and is released;
  the result that comes later finds no active dispatch and gets 409.

## 6. Where documents and code disagree

Two of these are runs that TLC finds violated; `PROJECT.json` quotes the lines.

| run | the document says | the code does |
|---|---|---|
| `FailedBuildFails` | the command exits nonzero if its build fails | after a dispatch lost its entry in its start call, its command succeeds on the result of the repetition's build |
| `RepeatReadable` | repeating a recorded dispatch returns its result | for a runner without a public URL, the event that tells it is refused by the command |

The others are behaviours of the models that need no run of their own to be seen:

* `src/docs/operations.md:543`, "Once a command has produced a terminal
  pass/fail/canceled result, later cancel requests are rejected": between the streamed
  terminal event and `setRecord`, workspace cleanup included, `cancelBuild` answers 202
  (build.go:262, 397, 483; `RunnerBuilds`).
* `operations.md:286`, "Repeating the same `request_id` with the same payload returns the
  existing build handle": not once `completeBuild` has pruned the run or the runner has
  been restarted (build.go:342, 845, 1024; `RunnerBuilds`).
* `operations.md:505`, an active dispatch "reserves one queue slot on the selected target":
  the result of a dispatch restored from disk, which has no reservation, releases the one
  of another dispatch on the same target (server.go:685; `Coordinator`).
* `operations.md:505`, repeating a dispatch reconnects or conflicts "instead of starting
  duplicate desktop work": when the target deregisters or its lease runs out during the
  start call, the repetition starts a second build (server.go:631, 676; `Coordinator`).
* `operations.md:505`, the coordinator stores results and "persists them to `-state-path`":
  one whose save failed stays in memory, is acknowledged from there when the runner repeats
  its report, and is gone if the process restarts before the next save that succeeds
  (server.go:814-822, 868; `Coordinator` with `SaveMayFail`).
* `operations.md:543`, a cancel "sends termination to the whole group, so checked-in
  wrapper scripts and build tools do not leave child processes running": a cancel that
  comes when the command has just failed by itself is recorded, but the guard is released
  without a signal; and a child that ignores SIGTERM with its output closed outlives the
  build, because the guard is released before its grace period ends
  (build_process_unix.go:26-46, build.go:462-494; `BuildProcess`).
* `operations.md:545`, "so normal shutdown removes the target": not if the signal comes
  while the first registration is under way (agent.go:91-101; `AgentRun`).

## 7. Plan

Done: everything in section 2; every safety property of the passing runs is proved.
Next, in this order:

1. Theorems without `~MayRestart`: which dispatches have an owner and a reservation
   after a restart, namely those that were not restored.
2. `LoadIsAdvertised` through a crash and restart, with a registrar that starts anew and
   a target that outlives the process.
3. `RunnerProcess`: start, failed start, stop and escalation in the app.
4. Redaction of secrets across the ways an event can leave the runner, if a property of
   it can be stated without the characters.

New questions are asked by widening a run where one of its instances can answer
them, and by a run of its own in place of a smaller one where it cannot.
