---------------------------- MODULE RunnerBuilds ----------------------------
(***************************************************************************)
(* The build queue of one Transwarp runner: internal/agent/build.go with   *)
(* the shutdown path of internal/agent/agent.go.                           *)
(*                                                                         *)
(* POST /v1/builds, POST .../cancel and POST /v1/availability run on the   *)
(* HTTP server's goroutines; every started build has a goroutine of its    *)
(* own (finishBuildRun), every build canceled in the queue has another     *)
(* (the func literal of cancelBuildRun), and Agent.Run runs shutdownBuilds.*)
(* They share the maps guarded by buildsMu, one BuildRun per build guarded *)
(* by its own lock, and the ledger file.  An action is a stretch of code   *)
(* between two points where another goroutine can observe or change what   *)
(* it uses.                                                                *)
(***************************************************************************)
EXTENDS Integers, Sequences, FiniteSets

CONSTANTS
  Builds,            \* build IDs randomBuildID can return; an ID is never returned twice
  Requests,          \* request_id values CI uses
  Clients,           \* concurrent handlers of the cancel and availability endpoints
  Shutdown,          \* the goroutine that runs shutdownBuilds
  None,              \* the empty activeBuildID, and "no build"
  MaxQueuedBuilds,   \* maxQueuedBuilds, 25 in the code
  MaxRetainedBuilds, \* the 50 of completeBuild
  ReportAttempts,    \* 1 + len(reportRetryDelays), 4 in the code
  Callbacks,         \* whether payloads carry a report_url: some do (TRUE), some do not (FALSE)
  CIRegistration,    \* whether ci_registration_url is configured
  LedgerMayFail,     \* whether writeLedger may fail (its caller never learns of it)
  MayPause,          \* whether clients use POST /v1/availability
  Stops              \* how the process may end: "shutdown", "crash"

ASSUME BuildsAssumption ==
  /\ None \notin Builds \cup Requests
  /\ Shutdown \notin Clients
  /\ MaxQueuedBuilds \in Nat
  /\ MaxRetainedBuilds \in Nat
  /\ ReportAttempts \in Nat \ {0}
  /\ Callbacks \subseteq BOOLEAN
  /\ CIRegistration \in BOOLEAN
  /\ LedgerMayFail \in BOOLEAN
  /\ MayPause \in BOOLEAN
  /\ Stops \subseteq {"shutdown", "crash"}

VARIABLES
  phase,        \* of the process: "up", "draining" (shutdownBuilds), "stopped"
  builds,       \* the keys of agent.builds
  active,       \* agent.activeBuildID
  queue,        \* agent.queuedBuildIDs
  accepting,    \* agent.acceptingBuilds
  refresh,      \* a token is in the one-slot channel agent.registrationRefresh
  request,      \* the request_id an issued build was started for
  withReport,   \* issued builds whose payload carries a report_url
  started,      \* run.started
  canceled,     \* runs whose context has been canceled
  pc,           \* where the goroutine of a build is
  result,       \* local variable record of finishBuildRun, before it is published
  record,       \* run.record, by the status it stands for
  reportStatus, \* run.reportStatus
  attempt,      \* local variable attempt of reportBuild: attempts that are over
  stream,       \* the terminal and report events run.Stream has received
  handler,      \* the requests in progress: where, and about which build
  toCancel,     \* local variables of shutdownBuilds: runs still to be canceled
  awaited,      \* ... and runs whose closed channel it waits for
  ledger,       \* jobs.jsonl on disk: the last line of each build
  receipts      \* outside the process: the reports that reached the report_url

memory == <<builds, active, queue, accepting, refresh, started, canceled, pc,
            result, record, reportStatus, attempt, stream, handler, toCancel, awaited>>
issue  == <<request, withReport>>
vars   == <<phase, memory, issue, ledger, receipts>>

-----------------------------------------------------------------------------
Verdicts == {"passed", "failed", "canceled"}
Handlers == Clients \cup {Shutdown}

\* Where the goroutine that owns a build can be.  finishBuildRun goes from
\* "preparing" to "closed"; a build canceled in the queue is "withdrawn" while
\* the canceling handler publishes its record and joins at "reporting".
Steps == {"none", "preparing", "running", "exited", "cleanup", "recorded",
          "withdrawn", "reporting", "settling", "noting", "telling",
          "completing", "closing", "done", "closed"}

\* The steps of finishBuildRun before its completeBuild has run.
BeforeComplete == Steps \ {"none", "withdrawn", "closing", "done", "closed"}

Serving == phase \in {"up", "draining"}

Done(b)              == pc[b] \in {"done", "closed"}
Closed(b)            == pc[b] = "closed"
HasTerminalRecord(b) == record[b] # "none"
Issued               == {b \in Builds : request[b] # None}
InQueue(b)           == \E i \in DOMAIN queue : queue[i] = b

\* BuildRun.Status: what GET /v1/builds/{id} and the recent builds show of a run.
Status(b) ==
  CASE HasTerminalRecord(b)             -> record[b]
    [] ~HasTerminalRecord(b) /\ Done(b) -> "passed" \* statusForRecord of the zero record
    [] OTHER                            -> IF b \in started THEN "running" ELSE "queued"

\* GET /v1/builds/{id}: the run in memory, or else the ledger's last line.
Observed(b) ==
  IF b \in builds THEN Status(b)
  ELSE IF ledger[b] # None THEN ledger[b].verdict ELSE "unknown"

\* append(q[:index], q[index+1:]...) for the index at which b is found.
Without(q, b) ==
  LET k == CHOOSE i \in DOMAIN q : q[i] = b
  IN  [i \in 1..(Len(q) - 1) |-> IF i < k THEN q[i] ELSE q[i + 1]]

\* requestRegistrationRefresh: a send that is dropped when the slot is taken.
RequestRefresh == refresh' = (CIRegistration \/ refresh)

\* writeLedger appends a line; a failure to open is logged, one to write ignored.
WriteLedger(b, verdict, report) ==
  \/ ledger' = [ledger EXCEPT ![b] = [verdict |-> verdict, report |-> report]]
  \/ LedgerMayFail /\ UNCHANGED ledger

Goto(b, step) == pc' = [pc EXCEPT ![b] = step]
Emit(b, message) == stream' = [stream EXCEPT ![b] = Append(@, message)]
At(c, where, b) == handler' = [handler EXCEPT ![c] = [at |-> where, build |-> b]]

-----------------------------------------------------------------------------
Each(value) == [b \in Builds |-> value]
IdleHandlers == [c \in Handlers |-> [at |-> "idle", build |-> None]]

\* New: what a process starts from.
FreshMemory ==
  /\ builds = {} /\ active = None /\ queue = <<>> /\ accepting = TRUE /\ refresh = FALSE
  /\ started = {} /\ canceled = {} /\ toCancel = {} /\ awaited = {}
  /\ pc = Each("none") /\ result = Each("none") /\ record = Each("none")
  /\ reportStatus = Each("none") /\ attempt = Each(0) /\ stream = Each(<<>>)
  /\ handler = IdleHandlers

Init ==
  /\ phase = "up"
  /\ FreshMemory
  /\ request = Each(None)
  /\ withReport = {}
  /\ ledger = Each(None)
  /\ receipts = {}

\* startBuildRun, one critical section of buildsMu.  A request_id that a
\* retained build has, a paused runner and a full queue change nothing: the
\* answer is the existing build, 409 or 503.  startBuildRunLocked starts the
\* goroutine when the slot is free.
StartBuild(r, reports, b) ==
  /\ Serving
  /\ \A x \in builds : request[x] # r
  /\ accepting
  /\ active = None \/ Len(queue) < MaxQueuedBuilds
  /\ b \notin Issued
  /\ builds' = builds \cup {b}
  /\ request' = [request EXCEPT ![b] = r]
  /\ withReport' = IF reports THEN withReport \cup {b} ELSE withReport
  /\ reportStatus' = [reportStatus EXCEPT ![b] = IF reports THEN "pending" ELSE "none"]
  /\ \/ /\ active = None
        /\ active' = b
        /\ started' = started \cup {b}
        /\ Goto(b, "preparing")
        /\ UNCHANGED queue
     \/ /\ active # None
        /\ queue' = Append(queue, b)
        /\ UNCHANGED <<active, started, pc>>
  /\ RequestRefresh
  /\ UNCHANGED <<phase, accepting, canceled, result, record, attempt, stream,
                 handler, toCancel, awaited, ledger, receipts>>

-----------------------------------------------------------------------------
\* finishBuildRun and runJob.

\* What a goroutine of a build leaves alone until completeBuild.
QueueUnchanged ==
  UNCHANGED <<phase, builds, active, queue, accepting, refresh, started, handler,
              toCancel, awaited, issue>>

\* prepareWorkspace fails, or command.Start does: finishWithError.  The record
\* says canceled only when the error is context.Canceled, which Start returns
\* for a context canceled by then; git killed by the cancel is a failure.
PrepareFails(b) ==
  /\ pc[b] = "preparing"
  /\ \E verdict \in {"failed"} \cup (IF b \in canceled THEN {"canceled"} ELSE {}) :
       /\ result' = [result EXCEPT ![b] = verdict]
       /\ Emit(b, verdict)
  /\ Goto(b, "cleanup")
  /\ QueueUnchanged
  /\ UNCHANGED <<canceled, record, reportStatus, attempt, ledger, receipts>>

\* command.Start succeeds; a context already canceled makes it fail instead.
CommandStarts(b) ==
  /\ pc[b] = "preparing"
  /\ b \notin canceled
  /\ Goto(b, "running")
  /\ QueueUnchanged
  /\ UNCHANGED <<canceled, result, record, reportStatus, attempt, stream, ledger, receipts>>

\* command.Wait returns and record.Error is chosen from ctx.Err().  A success
\* may predate the cancel; a timeout that fired before the cancel stays one.
CommandExits(b) ==
  /\ pc[b] = "running"
  /\ \E outcome \in {"passed", "timed out"}
                    \cup (IF b \in canceled THEN {"canceled"} ELSE {"failed"}) :
       result' = [result EXCEPT ![b] = outcome]
  /\ Goto(b, "exited")
  /\ QueueUnchanged
  /\ UNCHANGED <<canceled, record, reportStatus, attempt, stream, ledger, receipts>>

\* Mutant of CommandAnnounced: any ended context makes the event say canceled.
CommandAnnouncedByContext(b) ==
  /\ pc[b] = "exited"
  /\ Emit(b, IF result[b] = "timed out" THEN "canceled" ELSE result[b])
  /\ Goto(b, "cleanup")
  /\ QueueUnchanged
  /\ UNCHANGED <<canceled, result, record, reportStatus, attempt, ledger, receipts>>

\* The terminal event.  For a failed command ctx.Err() is read a second time,
\* so a cancel that arrives after the first reading names the event only.
CommandAnnounced(b) ==
  /\ pc[b] = "exited"
  /\ Emit(b, CASE result[b] = "timed out"                    -> "failed"
               [] result[b] = "failed" /\ b \in canceled     -> "canceled"
               [] OTHER                                      -> result[b])
  /\ Goto(b, "cleanup")
  /\ QueueUnchanged
  /\ UNCHANGED <<canceled, result, record, reportStatus, attempt, ledger, receipts>>

\* The deferred workspace cleanup of runJob has run; setRecord.  (A local that
\* is not read again goes back to its initial value, here and below.)
RecordSet(b) ==
  /\ pc[b] = "cleanup"
  /\ record' = [record EXCEPT ![b] = IF result[b] = "timed out" THEN "failed" ELSE result[b]]
  /\ result' = [result EXCEPT ![b] = "none"]
  /\ Goto(b, "recorded")
  /\ QueueUnchanged
  /\ UNCHANGED <<canceled, reportStatus, attempt, stream, ledger, receipts>>

\* Mutant of RecordWritten: the slot is released without waiting for the report.
RecordWrittenOnly(b) ==
  /\ pc[b] = "recorded"
  /\ WriteLedger(b, record[b], reportStatus[b])
  /\ Goto(b, "completing")
  /\ QueueUnchanged
  /\ UNCHANGED <<canceled, result, record, reportStatus, attempt, stream, receipts>>

\* Mutant of RecordWritten: the ledger forgets that a failure was a cancel.
RecordWrittenAsFailure(b) ==
  /\ pc[b] = "recorded"
  /\ WriteLedger(b, IF record[b] = "canceled" THEN "failed" ELSE record[b], reportStatus[b])
  /\ Goto(b, IF b \in withReport THEN "reporting" ELSE "completing")
  /\ QueueUnchanged
  /\ UNCHANGED <<canceled, result, record, reportStatus, attempt, stream, receipts>>

RecordWritten(b) ==
  /\ pc[b] = "recorded"
  /\ WriteLedger(b, record[b], reportStatus[b])
  /\ Goto(b, IF b \in withReport THEN "reporting" ELSE "completing")
  /\ QueueUnchanged
  /\ UNCHANGED <<canceled, result, record, reportStatus, attempt, stream, receipts>>

-----------------------------------------------------------------------------
\* reportBuild and what follows it, in finishBuildRun and in the goroutine of
\* cancelBuildRun alike.  result keeps the outcome of the report from here on.

ReportEnds(b, outcome) ==
  /\ result' = [result EXCEPT ![b] = outcome]
  /\ attempt' = [attempt EXCEPT ![b] = 0]
  /\ Goto(b, "settling")

\* Mutant of ReportAttempt: one attempt too many.
ReportAttemptTooMany(b) ==
  /\ pc[b] = "reporting"
  /\ \/ /\ receipts' = receipts \cup {<<b, record[b]>>}
        /\ ReportEnds(b, "reported")
     \/ /\ UNCHANGED receipts
        /\ IF attempt[b] + 1 <= ReportAttempts
           THEN /\ attempt' = [attempt EXCEPT ![b] = @ + 1]
                /\ UNCHANGED <<pc, result>>
           ELSE ReportEnds(b, "report failed")
  /\ QueueUnchanged
  /\ UNCHANGED <<canceled, record, reportStatus, stream, ledger>>

\* One attempt: acknowledged, answered with a status that is not retried, or
\* failed in a retryable way, with or without the report having arrived.
ReportAttempt(b) ==
  /\ pc[b] = "reporting"
  /\ \/ /\ receipts' = receipts \cup {<<b, record[b]>>}
        /\ ReportEnds(b, "reported")
     \/ /\ ReportEnds(b, "report failed")
        /\ UNCHANGED receipts
     \/ /\ receipts' \in {receipts, receipts \cup {<<b, record[b]>>}}
        /\ IF attempt[b] + 1 < ReportAttempts
           THEN /\ attempt' = [attempt EXCEPT ![b] = @ + 1]
                /\ UNCHANGED <<pc, result>>
           ELSE ReportEnds(b, "report failed")
  /\ QueueUnchanged
  /\ UNCHANGED <<canceled, record, reportStatus, stream, ledger>>

\* Mutant of ReportSettled: the error of reportBuild is dropped.
ReportSettledBlindly(b) ==
  /\ pc[b] = "settling"
  /\ reportStatus' = [reportStatus EXCEPT ![b] = "reported"]
  /\ Goto(b, "noting")
  /\ QueueUnchanged
  /\ UNCHANGED <<canceled, result, record, attempt, stream, ledger, receipts>>

ReportSettled(b) ==
  /\ pc[b] = "settling"
  /\ reportStatus' = [reportStatus EXCEPT ![b] = IF result[b] = "reported" THEN "reported" ELSE "failed"]
  /\ Goto(b, "noting")
  /\ QueueUnchanged
  /\ UNCHANGED <<canceled, result, record, attempt, stream, ledger, receipts>>

\* Mutant of ReportNoted: the ledger is not written again.
ReportNotNoted(b) ==
  /\ pc[b] = "noting"
  /\ Goto(b, "telling")
  /\ QueueUnchanged
  /\ UNCHANGED <<canceled, result, record, reportStatus, attempt, stream, ledger, receipts>>

\* Mutant of ReportNoted: the line is written as if every report arrived.
ReportNotedAsSent(b) ==
  /\ pc[b] = "noting"
  /\ WriteLedger(b, record[b], "reported")
  /\ Goto(b, "telling")
  /\ QueueUnchanged
  /\ UNCHANGED <<canceled, result, record, reportStatus, attempt, stream, receipts>>

ReportNoted(b) ==
  /\ pc[b] = "noting"
  /\ WriteLedger(b, record[b], reportStatus[b])
  /\ Goto(b, "telling")
  /\ QueueUnchanged
  /\ UNCHANGED <<canceled, result, record, reportStatus, attempt, stream, receipts>>

\* The goroutine of cancelBuildRun closes the run itself: no completeBuild.
ReportTold(b) ==
  /\ pc[b] = "telling"
  /\ Emit(b, result[b])
  /\ result' = [result EXCEPT ![b] = "none"]
  /\ Goto(b, IF b \in started THEN "completing" ELSE "closing")
  /\ QueueUnchanged
  /\ UNCHANGED <<canceled, record, reportStatus, attempt, ledger, receipts>>

-----------------------------------------------------------------------------
\* The queued IDs completeBuild would start, by position.
Startable == {i \in DOMAIN queue : queue[i] \in builds /\ ~Done(queue[i])}

\* Mutant of Pruned: runs that are not finished are deleted as well.
PrunedUnfinished(keep) ==
  LET candidates == {b \in builds : b # keep}
      excess     == Cardinality(builds) - MaxRetainedBuilds
  IN  {gone \in SUBSET candidates :
         \/ excess <= 0 /\ gone = {}
         \/ excess > 0 /\ Cardinality(gone) = excess}

\* What completeBuild deletes: finished runs other than the active one, in
\* map order, until MaxRetainedBuilds are left.
Pruned(keep) ==
  LET candidates == {b \in builds : b # keep /\ Done(b)}
      excess     == Cardinality(builds) - MaxRetainedBuilds
  IN  {gone \in SUBSET candidates :
         \/ excess <= 0 /\ gone = {}
         \/ /\ excess > 0
            /\ Cardinality(gone) <= excess
            /\ Cardinality(gone) < excess => gone = candidates}

\* Mutant of CompleteBuild: activeBuildID is not reset when nothing is queued.
CompleteBuildLeaksSlot(b) ==
  /\ pc[b] = "completing"
  /\ IF Startable = {}
     THEN Goto(b, "closing") /\ queue' = <<>> /\ UNCHANGED <<active, started>>
     ELSE \E i \in Startable :
            /\ \A j \in Startable : i <= j
            /\ active' = queue[i]
            /\ queue' = SubSeq(queue, i + 1, Len(queue))
            /\ started' = started \cup {queue[i]}
            /\ pc' = [pc EXCEPT ![b] = "closing", ![queue[i]] = "preparing"]
  /\ \E gone \in Pruned(active') : builds' = builds \ gone
  /\ RequestRefresh
  /\ UNCHANGED <<phase, accepting, canceled, result, record, reportStatus, attempt,
                 stream, handler, toCancel, awaited, issue, ledger, receipts>>

\* Mutant of CompleteBuild: the newest queued build is started first.
CompleteBuildLastFirst(b) ==
  /\ pc[b] = "completing"
  /\ IF queue = <<>>
     THEN active' = None /\ Goto(b, "closing") /\ UNCHANGED <<queue, started>>
     ELSE LET next == queue[Len(queue)] IN
          /\ active' = next
          /\ queue' = SubSeq(queue, 1, Len(queue) - 1)
          /\ started' = started \cup {next}
          /\ pc' = [pc EXCEPT ![b] = "closing", ![next] = "preparing"]
  /\ \E gone \in Pruned(active') : builds' = builds \ gone
  /\ RequestRefresh
  /\ UNCHANGED <<phase, accepting, canceled, result, record, reportStatus, attempt,
                 stream, handler, toCancel, awaited, issue, ledger, receipts>>

\* Mutant of CompleteBuild: the slot is released and no queued build started.
CompleteBuildStartsNone(b) ==
  /\ pc[b] = "completing"
  /\ active' = None
  /\ Goto(b, "closing")
  /\ \E gone \in Pruned(active') : builds' = builds \ gone
  /\ RequestRefresh
  /\ UNCHANGED <<phase, queue, started, accepting, canceled, result, record, reportStatus,
                 attempt, stream, handler, toCancel, awaited, issue, ledger, receipts>>

\* completeBuild, one critical section of buildsMu: release the slot, start
\* the next queued build, prune, and ask for a registration refresh.
CompleteBuild(b) ==
  /\ pc[b] = "completing"
  /\ \/ /\ active = b /\ Startable = {}
        /\ active' = None
        /\ queue' = <<>>
        /\ Goto(b, "closing")
        /\ UNCHANGED started
     \/ /\ active = b
        /\ \E i \in Startable :
             /\ \A j \in Startable : i <= j
             /\ active' = queue[i]
             /\ queue' = SubSeq(queue, i + 1, Len(queue))
             /\ started' = started \cup {queue[i]}
             /\ pc' = [pc EXCEPT ![b] = "closing", ![queue[i]] = "preparing"]
     \/ /\ active # b
        /\ Goto(b, "closing")
        /\ UNCHANGED <<active, queue, started>>
  /\ \E gone \in Pruned(active') : builds' = builds \ gone
  /\ RequestRefresh
  /\ UNCHANGED <<phase, accepting, canceled, result, record, reportStatus, attempt,
                 stream, handler, toCancel, awaited, issue, ledger, receipts>>

\* close(run.done).
DoneClosed(b) ==
  /\ pc[b] = "closing"
  /\ Goto(b, "done")
  /\ QueueUnchanged
  /\ UNCHANGED <<canceled, result, record, reportStatus, attempt, stream, ledger, receipts>>

\* Mutant of RunClosed: the goroutine of cancelBuildRun only closes run.done.
StartedRunClosed(b) ==
  /\ pc[b] = "done" /\ b \in started
  /\ Goto(b, "closed")
  /\ canceled' = canceled \cup {b}
  /\ QueueUnchanged
  /\ UNCHANGED <<result, record, reportStatus, attempt, stream, ledger, receipts>>

\* close(run.closed); finishBuildRun's deferred run.cancel() ends the context.
RunClosed(b) ==
  /\ pc[b] = "done"
  /\ Goto(b, "closed")
  /\ canceled' = IF b \in started THEN canceled \cup {b} ELSE canceled
  /\ QueueUnchanged
  /\ UNCHANGED <<result, record, reportStatus, attempt, stream, ledger, receipts>>

-----------------------------------------------------------------------------
\* Cancel and availability.

\* What a handler leaves alone outside buildsMu.
RunsUnchanged ==
  UNCHANGED <<phase, builds, active, accepting, started, attempt, toCancel, awaited,
              issue, receipts>>

\* cancelBuild up to the call of cancelBuildRun: 404 for an unknown build, 409
\* for a finished one or one with a terminal record, and on to cancelBuildRun.
CancelAccepted(c, b) ==
  /\ Serving
  /\ handler[c].at = "idle"
  /\ b \in builds
  /\ ~Done(b)
  /\ ~HasTerminalRecord(b)
  /\ At(c, "canceling", b)
  /\ RunsUnchanged
  /\ UNCHANGED <<queue, refresh, canceled, pc, result, record, reportStatus, stream, ledger>>

\* Mutant of CancelDequeues: the ID stays in queuedBuildIDs.
CancelFindsInQueue(c) ==
  LET b == handler[c].build IN
  /\ handler[c].at = "canceling"
  /\ IF InQueue(b)
     THEN Goto(b, "withdrawn") /\ At(c, "recording", b)
     ELSE At(c, "signalling", b) /\ UNCHANGED pc
  /\ RunsUnchanged
  /\ UNCHANGED <<queue, refresh, canceled, result, record, reportStatus, stream, ledger>>

\* cancelBuildRun under buildsMu: take the build out of the queue if it is there.
CancelDequeues(c) ==
  LET b == handler[c].build IN
  /\ handler[c].at = "canceling"
  /\ \/ /\ InQueue(b)
        /\ queue' = Without(queue, b)
        /\ Goto(b, "withdrawn")
        /\ At(c, "recording", b)
     \/ /\ ~InQueue(b)
        /\ At(c, "signalling", b)
        /\ UNCHANGED <<queue, pc>>
  /\ RunsUnchanged
  /\ UNCHANGED <<refresh, canceled, result, record, reportStatus, stream, ledger>>

\* The build was not queued: run.cancel() is all that is done.
CancelSignals(c) ==
  /\ handler[c].at = "signalling"
  /\ canceled' = canceled \cup {handler[c].build}
  /\ At(c, "idle", None)
  /\ RunsUnchanged
  /\ UNCHANGED <<queue, refresh, pc, result, record, reportStatus, stream, ledger>>

\* The build was queued: refresh, run.cancel(), setRecord(canceledQueuedRecord).
CancelRecords(c) ==
  LET b == handler[c].build IN
  /\ handler[c].at = "recording"
  /\ RequestRefresh
  /\ canceled' = canceled \cup {b}
  /\ record' = [record EXCEPT ![b] = "canceled"]
  /\ At(c, "noting", b)
  /\ RunsUnchanged
  /\ UNCHANGED <<queue, pc, result, reportStatus, stream, ledger>>

CancelNotes(c) ==
  LET b == handler[c].build IN
  /\ handler[c].at = "noting"
  /\ WriteLedger(b, record[b], reportStatus[b])
  /\ At(c, "announcing", b)
  /\ RunsUnchanged
  /\ UNCHANGED <<queue, refresh, canceled, pc, result, record, reportStatus, stream>>

\* The terminal event, and the goroutine that reports and closes the run.
CancelAnnounces(c) ==
  LET b == handler[c].build IN
  /\ handler[c].at = "announcing"
  /\ Emit(b, "canceled")
  /\ Goto(b, IF b \in withReport THEN "reporting" ELSE "closing")
  /\ At(c, "idle", None)
  /\ RunsUnchanged
  /\ UNCHANGED <<queue, refresh, canceled, result, record, reportStatus, ledger>>

\* setAcceptingBuilds: the flag under buildsMu, then the refresh request.
SetAccepting(c, value) ==
  /\ MayPause /\ Serving
  /\ handler[c].at = "idle"
  /\ accepting' = value
  /\ At(c, IF CIRegistration THEN "refreshing" ELSE "idle", None)
  /\ UNCHANGED <<phase, builds, active, queue, refresh, started, canceled, pc, result,
                 record, reportStatus, attempt, stream, toCancel, awaited, issue,
                 ledger, receipts>>

AvailabilityRefreshes(c) ==
  /\ handler[c].at = "refreshing"
  /\ RequestRefresh
  /\ At(c, "idle", None)
  /\ RunsUnchanged
  /\ UNCHANGED <<queue, canceled, pc, result, record, reportStatus, stream, ledger>>

-----------------------------------------------------------------------------
\* shutdownBuilds, and the end and restart of the process.

\* Agent.Run leaves its select: openBuilds takes the snapshot.
BeginShutdown ==
  /\ "shutdown" \in Stops
  /\ phase = "up"
  /\ phase' = "draining"
  /\ LET open == {b \in builds : ~Closed(b)} IN toCancel' = open /\ awaited' = open
  /\ UNCHANGED <<builds, active, queue, accepting, refresh, started, canceled, pc, result,
                 record, reportStatus, attempt, stream, handler, issue, ledger, receipts>>

\* The cancel loop: runs with an outcome are skipped, the others canceled one
\* after the other by cancelBuildRun.
ShutdownCancels(b) ==
  /\ b \in toCancel
  /\ handler[Shutdown].at = "idle"
  /\ toCancel' = toCancel \ {b}
  /\ IF Done(b) \/ HasTerminalRecord(b)
     THEN UNCHANGED handler
     ELSE At(Shutdown, "canceling", b)
  /\ UNCHANGED <<phase, builds, active, queue, accepting, refresh, started, canceled, pc,
                 result, record, reportStatus, attempt, stream, awaited, issue, ledger,
                 receipts>>

\* The wait loop takes a closed run off the list.
ShutdownAwaits(b) ==
  /\ phase = "draining" /\ toCancel = {} /\ handler[Shutdown].at = "idle"
  /\ b \in awaited /\ Closed(b)
  /\ awaited' = awaited \ {b}
  /\ UNCHANGED <<phase, builds, active, queue, accepting, refresh, started, canceled, pc,
                 result, record, reportStatus, attempt, stream, handler, toCancel, issue,
                 ledger, receipts>>

\* What lives in the process is gone; the next process starts from FreshMemory.
MemoryLost ==
  /\ phase' = "stopped"
  /\ builds' = {} /\ active' = None /\ queue' = <<>> /\ accepting' = TRUE /\ refresh' = FALSE
  /\ started' = {} /\ canceled' = {} /\ toCancel' = {} /\ awaited' = {}
  /\ pc' = Each("none") /\ result' = Each("none") /\ record' = Each("none")
  /\ reportStatus' = Each("none") /\ attempt' = Each(0) /\ stream' = Each(<<>>)
  /\ handler' = IdleHandlers
  /\ UNCHANGED <<issue, ledger, receipts>>

\* shutdownBuilds has seen every run of its snapshot close, and Run returns.
Exit ==
  /\ phase = "draining" /\ toCancel = {} /\ awaited = {} /\ handler[Shutdown].at = "idle"
  /\ MemoryLost

\* The process dies, or buildShutdownTimeout ends the wait.
Crash == "crash" \in Stops /\ Serving /\ MemoryLost

\* New: the maps are empty, the ledger is what the last process left.
Restart ==
  /\ phase = "stopped"
  /\ phase' = "up"
  /\ UNCHANGED <<memory, issue, ledger, receipts>>

-----------------------------------------------------------------------------
\* The goroutine of build b.
BuildStep(b) ==
  \/ PrepareFails(b) \/ CommandStarts(b) \/ CommandExits(b) \/ CommandAnnounced(b)
  \/ RecordSet(b) \/ RecordWritten(b)
  \/ ReportAttempt(b) \/ ReportSettled(b) \/ ReportNoted(b) \/ ReportTold(b)
  \/ CompleteBuild(b) \/ DoneClosed(b) \/ RunClosed(b)

\* A request in progress; nothing in it waits.
HandlerStep(c) ==
  \/ CancelDequeues(c) \/ CancelSignals(c) \/ CancelRecords(c) \/ CancelNotes(c)
  \/ CancelAnnounces(c) \/ AvailabilityRefreshes(c)

Next ==
  \/ \E r \in Requests, reports \in Callbacks, b \in Builds : StartBuild(r, reports, b)
  \/ \E b \in Builds : BuildStep(b)
  \/ \E c \in Clients, b \in Builds : CancelAccepted(c, b)
  \/ \E c \in Clients, value \in BOOLEAN : SetAccepting(c, value)
  \/ \E c \in Handlers : HandlerStep(c)
  \/ BeginShutdown
  \/ \E b \in Builds : ShutdownCancels(b)
  \/ \E b \in Builds : ShutdownAwaits(b)
  \/ Exit
  \/ Crash
  \/ Restart

Spec == Init /\ [][Next]_vars

\* Goroutines that can run do run; a command ends because runJob gives it
\* TimeoutSeconds and the process guard kills its group; a report attempt ends
\* because postBuildReport gives it 15 seconds.  Nothing is assumed of clients.
Fairness ==
  /\ \A b \in Builds : WF_vars(BuildStep(b))
  /\ \A c \in Handlers : WF_vars(HandlerStep(c))
  /\ \A b \in Builds : WF_vars(ShutdownCancels(b)) /\ WF_vars(ShutdownAwaits(b))

FairSpec == Spec /\ Fairness

-----------------------------------------------------------------------------
(***************************************************************************)
(* Properties.                                                             *)
(***************************************************************************)
ReportStates == {"none", "pending", "reported", "failed"}
Results == Verdicts \cup {"none", "timed out", "reported", "report failed"}
Messages == Verdicts \cup {"reported", "report failed"}
HandlerSteps == {"idle", "canceling", "signalling", "recording", "noting", "announcing", "refreshing"}
HandlerStates == [at : HandlerSteps, build : Builds \cup {None}]
LedgerLines == [verdict : Verdicts, report : ReportStates]

\* The empty entry of the ledger can be told from a line.
ASSUME LineAssumption == None \notin LedgerLines

TypeOK ==
  /\ phase \in {"up", "draining", "stopped"}
  /\ builds \subseteq Issued
  /\ active \in Builds \cup {None}
  /\ queue \in Seq(Builds)
  /\ accepting \in BOOLEAN /\ refresh \in BOOLEAN
  /\ request \in [Builds -> Requests \cup {None}]
  /\ withReport \subseteq Builds /\ started \subseteq Builds /\ canceled \subseteq Builds
  /\ pc \in [Builds -> Steps]
  /\ result \in [Builds -> Results]
  /\ record \in [Builds -> Verdicts \cup {"none"}]
  /\ reportStatus \in [Builds -> ReportStates]
  /\ attempt \in [Builds -> 0..(ReportAttempts - 1)]
  /\ stream \in [Builds -> Seq(Messages)]
  /\ handler \in [Handlers -> HandlerStates]
  /\ toCancel \subseteq Builds /\ awaited \subseteq Builds
  /\ ledger \in [Builds -> LedgerLines \cup {None}]
  /\ receipts \subseteq Builds \X Verdicts

\* The slot is exactly the life of one goroutine: activeBuildID names a build
\* from the moment finishBuildRun is started until its completeBuild has run,
\* so two builds never run at once and the slot is never leaked.
SlotHeld ==
  \A b \in Builds : active = b <=> (b \in started /\ pc[b] \in BeforeComplete)

\* Queued IDs are distinct retained builds nobody has started, canceled with a
\* record or finished, within the limit; nothing waits while the slot is free.
QueueSound ==
  /\ Len(queue) <= MaxQueuedBuilds
  /\ \A i, j \in DOMAIN queue : queue[i] = queue[j] => i = j
  /\ \A i \in DOMAIN queue :
       /\ queue[i] \in builds \ started
       /\ pc[queue[i]] = "none"
       /\ ~HasTerminalRecord(queue[i])
  /\ queue # <<>> => active # None

\* A build that a cancel took out of the queue never runs its command: neither
\* completeBuild nor a second start may pick it up, whatever the interleaving.
QueuedCancelNeverRuns ==
  [][\A b \in Builds : (pc[b] # "none" /\ b \notin started) => b \notin started']_vars

\* A queued build starts only when the report of every build that ran before
\* has been settled: the slot is held through the result callback.
ReportBeforeNextStart ==
  [][started' # started =>
       \A b \in started : pc'[b] # "none" =>
         HasTerminalRecord(b) /\ reportStatus[b] # "pending"]_vars

\* Whatever CI received about a build is the verdict on record, in memory and
\* in the ledger, and "reported" is only ever said of a report that arrived.
ReportsTrue ==
  /\ \A x, y \in receipts : x[1] = y[1] => x = y
  /\ \A x \in receipts :
       /\ HasTerminalRecord(x[1]) => record[x[1]] = x[2]
       /\ ledger[x[1]] # None => ledger[x[1]].verdict = x[2]
  /\ \A b \in Builds :
       /\ reportStatus[b] = "reported" => <<b, record[b]>> \in receipts
       /\ ledger[b] # None /\ ledger[b].report = "reported" =>
            <<b, ledger[b].verdict>> \in receipts

\* The tailed stream of a run holds one terminal event, then the report's
\* outcome if there is a callback, and is complete when done is closed.  The
\* terminal event names the recorded verdict, with one exception: a command
\* that failed just before its build was canceled may be announced as canceled.
StreamTellsRecord ==
  \A b \in Builds :
    LET s == stream[b] IN
    /\ Len(s) >= 1 /\ HasTerminalRecord(b) =>
         s[1] = record[b] \/ (s = <<"canceled">> \o Tail(s) /\ record[b] = "failed" /\ b \in canceled)
    /\ Len(s) >= 2 => /\ b \in withReport
                      /\ s[2] = (IF reportStatus[b] = "reported" THEN "reported" ELSE "report failed")
    /\ Done(b) => Len(s) = (IF b \in withReport THEN 2 ELSE 1)

\* A verdict the status endpoint has shown stays what it shows, also when the
\* run is pruned from memory and the ledger answers for it.
VerdictStaysVisible ==
  [][\A b \in Builds : Observed(b) \in Verdicts => Observed(b)' = Observed(b)]_vars

\* Across a crash or a failed ledger write the verdict may be lost, but the
\* status endpoint never shows a second one.
VerdictNeverChanges ==
  [][\A b \in Builds : Observed(b) \in Verdicts =>
       Observed(b)' \in {Observed(b), "unknown"}]_vars

\* The last ledger line of a finished run is its record and report outcome.
LedgerFinal ==
  \A b \in Builds : Done(b) => ledger[b] = [verdict |-> record[b], report |-> reportStatus[b]]

\* Every accepted build is eventually closed, unless the process ends first: no
\* queued build is forgotten, no report retried for ever, no cancel left halfway.
BuildsClose == \A b \in Builds : (b \in builds) ~> (Closed(b) \/ b \notin builds)

\* shutdownBuilds gets to the end of its wait: every run of its snapshot closes.
ShutdownDrains == (phase = "draining") ~> (awaited = {})

=============================================================================
