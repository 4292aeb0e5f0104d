------------------------ MODULE RunnerReportsProofs -------------------------
(***************************************************************************)
(* What a runner says about a build - in its reports to CI, in the ledger, *)
(* on the status endpoint and in the tailed stream - for any number of     *)
(* builds, clients and report attempts, across crashes and restarts.       *)
(***************************************************************************)
EXTENDS RunnerBuildsProofs

USE BuildsAssumption

\* A step of which build x, what memory holds about it and what others have
\* been told about it, sees nothing; it may be pruned once it is issued.
Untouched(x) ==
  /\ pc'[x] = pc[x] /\ result'[x] = result[x] /\ record'[x] = record[x]
  /\ reportStatus'[x] = reportStatus[x] /\ stream'[x] = stream[x] /\ ledger'[x] = ledger[x]
  /\ \A v \in Verdicts : <<x, v>> \in receipts' <=> <<x, v>> \in receipts
  /\ x \in withReport' <=> x \in withReport
  /\ x \in canceled => x \in canceled'
  /\ x \in Issued => x \in Issued' /\ (x \in builds' => x \in builds)

LEMMA TruthUntouched ==
  ASSUME IInv, NEW x \in Builds, RecordDue(x), Truthful(x), Untouched(x)
  PROVE  RecordDue(x)' /\ Truthful(x)'
<1>1. record[x] \in Verdicts \cup {"none"} /\ receipts \subseteq Builds \X Verdicts
        /\ ledger[x] \in LedgerLines \cup {None}
  BY DEF IInv, TypeOK
<1>2. Lost(x) => Lost(x)'
  BY DEF Lost, Untouched
<1>3. record[x] \notin Verdicts => <<x, record[x]>> \notin receipts
  BY <1>1
<1>4. ledger[x] # None => ledger[x].verdict \in Verdicts
  BY <1>1 DEF LedgerLines
<1> QED
  BY <1>1, <1>2, <1>3, <1>4 DEF Truthful, RecordDue, Untouched

-----------------------------------------------------------------------------
\* A goroutine touches no build but its own, except in completeBuild.
LEMMA OthersUntouched ==
  ASSUME IInv, NEW b \in Builds, BuildStep(b), ~CompleteBuild(b), NEW x \in Builds, x # b
  PROVE  Untouched(x)
<1>1. /\ pc \in [Builds -> Steps] /\ result \in [Builds -> Results]
      /\ record \in [Builds -> Verdicts \cup {"none"}] /\ reportStatus \in [Builds -> ReportStates]
      /\ stream \in [Builds -> Seq(Messages)] /\ ledger \in [Builds -> LedgerLines \cup {None}]
  BY DEF IInv, TypeOK
<1> USE <1>1 DEF Goto, QueueUnchanged, issue, Untouched, Issued
<1>2. CASE PrepareFails(b)
  BY <1>2 DEF PrepareFails, Emit
<1>3. CASE CommandStarts(b) \/ CommandExits(b) \/ CommandAnnounced(b)
  BY <1>3 DEF CommandStarts, CommandExits, CommandAnnounced, Emit
<1>4. CASE RecordSet(b) \/ RecordWritten(b)
  BY <1>4 DEF RecordSet, RecordWritten, WriteLedger
<1>5. CASE ReportAttempt(b)
  BY <1>5 DEF ReportAttempt, ReportEnds
<1>6. CASE ReportSettled(b) \/ ReportNoted(b) \/ ReportTold(b)
  BY <1>6 DEF ReportSettled, ReportNoted, ReportTold, WriteLedger, Emit
<1>7. CASE DoneClosed(b) \/ RunClosed(b)
  BY <1>7 DEF DoneClosed, RunClosed
<1> QED
  BY <1>2, <1>3, <1>4, <1>5, <1>6, <1>7 DEF BuildStep


\* What a goroutine on its way knows: its build is not lost, so whatever was
\* said about the build agrees with its record, and nothing was said without.
LEMMA OnTheWay ==
  ASSUME IInv, NEW b \in Builds, Truthful(b), pc[b] # "none"
  PROVE  /\ \A v \in Verdicts : <<b, v>> \in receipts => record[b] = v
         /\ ledger[b] # None => ledger[b].verdict = record[b]
         /\ record[b] \in Verdicts \cup {"none"}
         /\ record[b] = "none" => /\ \A v \in Verdicts : <<b, v>> \notin receipts
                                  /\ ledger[b] = None /\ reportStatus[b] # "reported"
                                  /\ result[b] # "reported"
         /\ <<b, "none">> \notin receipts
<1>1. /\ record[b] \in Verdicts \cup {"none"} /\ receipts \subseteq Builds \X Verdicts
      /\ ledger[b] \in LedgerLines \cup {None} /\ ~Lost(b)
  BY DEF IInv, TypeOK, Lost
<1>2. ledger[b] # None => ledger[b].verdict \in Verdicts
  BY <1>1 DEF LedgerLines
<1>3. "none" \notin Verdicts
  BY DEF Verdicts
<1> QED
  BY <1>1, <1>2, <1>3 DEF Truthful

\* A goroutine's own step keeps its build truthful.
LEMMA OwnTruth ==
  ASSUME IInv, NEW b \in Builds, BuildStep(b), ~CompleteBuild(b), RecordDue(b), Truthful(b)
  PROVE  RecordDue(b)' /\ Truthful(b)'
<1>1. /\ pc \in [Builds -> Steps] /\ result \in [Builds -> Results]
      /\ record \in [Builds -> Verdicts \cup {"none"}] /\ reportStatus \in [Builds -> ReportStates]
      /\ ledger \in [Builds -> LedgerLines \cup {None}] /\ Fits(b)
  BY DEF IInv, TypeOK, StepsFit
<1>2. pc[b] \notin {"none", "withdrawn"} /\ pc'[b] \notin {"none", "withdrawn"}
  BY OwnStep
<1>3. /\ \A v \in Verdicts : <<b, v>> \in receipts => record[b] = v
      /\ ledger[b] # None => ledger[b].verdict = record[b]
      /\ record[b] = "none" => /\ \A v \in Verdicts : <<b, v>> \notin receipts
                               /\ ledger[b] = None /\ reportStatus[b] # "reported"
                               /\ result[b] # "reported"
      /\ <<b, "none">> \notin receipts
  BY <1>2, OnTheWay
<1> USE <1>1, <1>2, <1>3 DEF Goto, QueueUnchanged
<1>4. CASE PrepareFails(b)
  <2>1. PICK verdict \in Verdicts : result' = [result EXCEPT ![b] = verdict]
    BY <1>4 DEF PrepareFails, Verdicts
  <2> QED
    BY <1>4, <2>1 DEF PrepareFails, RecordDue, Truthful, Verdicts
<1>5. CASE CommandStarts(b)
  BY <1>5 DEF CommandStarts, RecordDue, Truthful
<1>6. CASE CommandExits(b)
  <2>1. PICK outcome \in Verdicts \cup {"timed out"} : result' = [result EXCEPT ![b] = outcome]
    BY <1>6 DEF CommandExits, Verdicts
  <2> QED
    BY <1>6, <2>1 DEF CommandExits, RecordDue, Truthful, Verdicts
<1>7. CASE CommandAnnounced(b)
  BY <1>7 DEF CommandAnnounced, RecordDue, Truthful
<1>8. CASE RecordSet(b)
  <2>1. record[b] = "none"
    BY <1>8 DEF RecordSet, RecordDue
  <2> QED
    BY <1>8, <2>1 DEF RecordSet, RecordDue, Truthful, Verdicts
<1>9. ASSUME WriteLedger(b, record[b], reportStatus[b]), record[b] # "none", pc'[b] \notin {"preparing", "running", "exited", "cleanup"},
             UNCHANGED <<result, record, reportStatus, receipts>>,
             result[b] = "reported" => pc'[b] \in {"settling", "noting", "telling"}
      PROVE  RecordDue(b)' /\ Truthful(b)'
  <2>1. RecordDue(b)'
    BY <1>9 DEF RecordDue
  <2>2. /\ result[b] = "reported" => <<b, record[b]>> \in receipts
        /\ reportStatus[b] = "reported" => <<b, record[b]>> \in receipts
        /\ ledger[b] # None /\ ledger[b].report = "reported" => <<b, ledger[b].verdict>> \in receipts
    BY DEF Truthful
  <2>3. ledger' \in {ledger, [ledger EXCEPT ![b] = [verdict |-> record[b], report |-> reportStatus[b]]]}
    BY <1>9 DEF WriteLedger
  <2>4. ledger'[b] = ledger[b] \/ ledger'[b] = [verdict |-> record[b], report |-> reportStatus[b]]
    BY <2>3
  <2>5. ledger'[b] # None => /\ ledger'[b].verdict = record[b]
                             /\ ledger'[b].report = "reported" => <<b, record[b]>> \in receipts
    BY <2>2, <2>4
  <2> QED
    BY <1>9, <2>1, <2>2, <2>5 DEF Truthful
<1>10. CASE RecordWritten(b)
  BY <1>9, <1>10 DEF RecordWritten, Fits, Decided, Truthful
<1>11. CASE ReportAttempt(b)
  <2>1. /\ record[b] \in Verdicts /\ UNCHANGED <<record, reportStatus, ledger>>
        /\ pc'[b] \in {"reporting", "settling"}
        /\ receipts' \in {receipts, receipts \cup {<<b, record[b]>>}}
        /\ result'[b] = "reported" => <<b, record[b]>> \in receipts' /\ pc'[b] = "settling"
    BY <1>11 DEF ReportAttempt, ReportEnds, Fits, Decided, Truthful
  <2>2. RecordDue(b)'
    BY <2>1 DEF RecordDue
  <2>3. \A v \in Verdicts : <<b, v>> \in receipts' => record[b] = v
    BY <2>1
  <2>4. \A v \in Verdicts : <<b, v>> \in receipts => <<b, v>> \in receipts'
    BY <2>1
  <2> QED
    BY <2>1, <2>2, <2>3, <2>4 DEF Truthful
<1>12. CASE ReportSettled(b)
  BY <1>12 DEF ReportSettled, RecordDue, Truthful
<1>13. CASE ReportNoted(b)
  BY <1>9, <1>13 DEF ReportNoted, Fits, Decided, Truthful
<1>14. CASE ReportTold(b)
  BY <1>14 DEF ReportTold, RecordDue, Truthful
<1>15. CASE DoneClosed(b) \/ RunClosed(b)
  BY <1>15 DEF DoneClosed, RunClosed, RecordDue, Truthful
<1> QED
  BY <1>4, <1>5, <1>6, <1>7, <1>8, <1>10, <1>11, <1>12, <1>13, <1>14, <1>15 DEF BuildStep


\* completeBuild moves its own goroutine on and starts a queued build about
\* which nothing has been said; a run it prunes is not a lost one.
LEMMA CompleteTruth ==
  ASSUME IInv, NEW b \in Builds, CompleteBuild(b), NEW x \in Builds, RecordDue(x), Truthful(x)
  PROVE  RecordDue(x)' /\ Truthful(x)'
<1>1. /\ pc \in [Builds -> Steps] /\ queue \in Seq(Builds)
      /\ \A i \in DOMAIN queue : queue[i] \in Builds /\ queue[i] \in builds /\ pc[queue[i]] = "none"
                                 /\ record[queue[i]] = "none"
      /\ record[x] \in Verdicts \cup {"none"} /\ receipts \subseteq Builds \X Verdicts
      /\ ledger[x] \in LedgerLines \cup {None}
  BY DEF IInv, TypeOK, QueueSound, HasTerminalRecord
<1>2. /\ UNCHANGED <<result, record, reportStatus, stream, ledger, receipts, withReport, request, canceled>>
      /\ builds' \subseteq builds /\ pc[b] = "completing"
      /\ \/ pc' = [pc EXCEPT ![b] = "closing"]
         \/ \E i \in DOMAIN queue : pc' = [pc EXCEPT ![b] = "closing", ![queue[i]] = "preparing"]
  BY Handover DEF CompleteBuild, issue, Goto
<1>3. CASE x = b
  <2>1. pc'[x] = "closing"
    BY <1>1, <1>2, <1>3
  <2> QED
    BY <1>2, <1>3, <2>1 DEF RecordDue, Truthful, Lost
<1>4. ASSUME NEW i \in DOMAIN queue, x = queue[i], x # b PROVE RecordDue(x)' /\ Truthful(x)'
  <2>1. /\ record[x] = "none" /\ x \in builds /\ pc[x] = "none" /\ ~Lost(x)
        /\ pc'[x] \in {"none", "preparing"} /\ pc'[x] # "completing"
    BY <1>1, <1>2, <1>4 DEF Lost
  <2>2. /\ \A v \in Verdicts : <<x, v>> \notin receipts /\ v # "none"
        /\ ledger[x] = None /\ reportStatus[x] # "reported" /\ result[x] # "reported"
    BY <1>1, <2>1 DEF Truthful, LedgerLines, Verdicts
  <2> QED
    BY <1>2, <2>1, <2>2 DEF RecordDue, Truthful
<1>5. CASE x # b /\ \A i \in DOMAIN queue : x # queue[i]
  <2>1. pc'[x] = pc[x]
    BY <1>1, <1>2, <1>5
  <2>2. Untouched(x)
    BY <1>2, <2>1 DEF Untouched, Issued
  <2> QED
    BY <2>2, TruthUntouched
<1> QED
  BY <1>3, <1>4, <1>5


-----------------------------------------------------------------------------
\* A handler touches no build but the one it is about.
LEMMA HandlerOthersUntouched ==
  ASSUME IInv, NEW c \in Handlers, HandlerStep(c), NEW x \in Builds,
         x # handler[c].build \/ CancelSignals(c) \/ AvailabilityRefreshes(c)
  PROVE  Untouched(x)
<1>1. /\ pc \in [Builds -> Steps] /\ record \in [Builds -> Verdicts \cup {"none"}]
      /\ stream \in [Builds -> Seq(Messages)] /\ ledger \in [Builds -> LedgerLines \cup {None}]
  BY DEF IInv, TypeOK
<1> USE <1>1 DEF RunsUnchanged, issue, Untouched, Issued
<1>2. CASE CancelSignals(c) \/ AvailabilityRefreshes(c)
  BY <1>2 DEF CancelSignals, AvailabilityRefreshes
<1>3. CASE CancelDequeues(c) /\ x # handler[c].build
  BY <1>3 DEF CancelDequeues, Goto
<1>4. CASE CancelRecords(c) /\ x # handler[c].build
  BY <1>4 DEF CancelRecords
<1>5. CASE CancelNotes(c) /\ x # handler[c].build
  BY <1>5 DEF CancelNotes, WriteLedger
<1>6. CASE CancelAnnounces(c) /\ x # handler[c].build
  BY <1>6 DEF CancelAnnounces, Goto, Emit
<1> QED
  BY <1>2, <1>3, <1>4, <1>5, <1>6 DEF HandlerStep

\* A handler keeps the build it withdraws truthful.
LEMMA HandlerTruth ==
  ASSUME IInv, RecordingFits, NEW c \in Handlers, HandlerStep(c),
         NEW x \in Builds, RecordDue(x), Truthful(x)
  PROVE  RecordDue(x)' /\ Truthful(x)'
<1>1. CASE x # handler[c].build \/ CancelSignals(c) \/ AvailabilityRefreshes(c)
  BY <1>1, HandlerOthersUntouched, TruthUntouched
<1>2. /\ pc \in [Builds -> Steps] /\ record \in [Builds -> Verdicts \cup {"none"}]
      /\ ledger \in [Builds -> LedgerLines \cup {None}] /\ HandlersFit
      /\ receipts \subseteq Builds \X Verdicts
  BY DEF IInv, TypeOK
<1> USE <1>2 DEF RunsUnchanged
<1>3. CASE CancelDequeues(c) /\ x = handler[c].build
  <2>1. CASE UNCHANGED pc
    <3>1. Untouched(x)
      BY <1>3, <2>1 DEF CancelDequeues, Untouched, issue, Issued
    <3> QED
      BY <3>1, TruthUntouched
  <2>2. CASE InQueue(x) /\ Goto(x, "withdrawn")
    <3>1. record[x] = "none" /\ x \in builds /\ pc'[x] = "withdrawn"
      BY <2>2 DEF IInv, QueueSound, InQueue, HasTerminalRecord, Goto
    <3>2. /\ \A v \in Verdicts : <<x, v>> \notin receipts /\ v # "none"
          /\ ledger[x] = None /\ reportStatus[x] # "reported" /\ result[x] # "reported"
      BY <3>1 DEF Truthful, LedgerLines, Verdicts, Lost
    <3> QED
      BY <1>3, <3>1, <3>2 DEF CancelDequeues, RecordDue, Truthful
  <2> QED
    BY <1>3, <2>1, <2>2 DEF CancelDequeues
<1>4. CASE CancelRecords(c) /\ x = handler[c].build
  <2>1. pc[x] = "withdrawn" /\ record[x] = "none" /\ record'[x] = "canceled"
    BY <1>4 DEF CancelRecords, HandlersFit, Publishing, RecordingFits
  <2>2. /\ \A v \in Verdicts : <<x, v>> \notin receipts
        /\ ledger[x] = None /\ reportStatus[x] # "reported" /\ result[x] # "reported"
    BY <2>1, OnTheWay
  <2> QED
    BY <1>4, <2>1, <2>2 DEF CancelRecords, RecordDue, Truthful
<1>5. CASE CancelNotes(c) /\ x = handler[c].build
  <2>1. pc[x] = "withdrawn" /\ record[x] \in Verdicts
    BY <1>5 DEF CancelNotes, HandlersFit, Publishing
  <2>2. \A v \in Verdicts : <<x, v>> \in receipts => record[x] = v
    BY <2>1, OnTheWay
  <2>3. /\ reportStatus[x] = "reported" => <<x, record[x]>> \in receipts
        /\ result[x] # "reported"
        /\ ledger[x] # None => ledger[x].verdict = record[x]
        /\ ledger[x] # None /\ ledger[x].report = "reported" => <<x, record[x]>> \in receipts
    BY <2>1, OnTheWay DEF Truthful
  <2>4. ledger'[x] = ledger[x] \/ ledger'[x] = [verdict |-> record[x], report |-> reportStatus[x]]
    BY <1>5 DEF CancelNotes, WriteLedger
  <2>5. ledger'[x] # None => /\ ledger'[x].verdict = record[x]
                             /\ ledger'[x].report = "reported" => <<x, record[x]>> \in receipts
    BY <2>3, <2>4
  <2>6. UNCHANGED <<pc, record, result, reportStatus, receipts>>
    BY <1>5 DEF CancelNotes
  <2> QED
    BY <2>1, <2>2, <2>3, <2>5, <2>6 DEF RecordDue, Truthful
<1>6. CASE CancelAnnounces(c) /\ x = handler[c].build
  <2>1. pc[x] = "withdrawn" /\ record[x] \in Verdicts
    BY <1>6 DEF CancelAnnounces, HandlersFit, Publishing
  <2>2. /\ \A v \in Verdicts : <<x, v>> \in receipts => record[x] = v
        /\ ledger[x] # None => ledger[x].verdict = record[x]
    BY <2>1, OnTheWay
  <2>3. pc'[x] \in {"reporting", "closing"} /\ UNCHANGED <<record, result, reportStatus, receipts, ledger>>
    BY <1>6, <2>1 DEF CancelAnnounces, Goto
  <2>4. result[x] # "reported"
    BY <2>1 DEF Truthful
  <2> QED
    BY <2>1, <2>2, <2>3, <2>4 DEF RecordDue, Truthful
<1> QED
  BY <1>1, <1>3, <1>4, <1>5, <1>6 DEF HandlerStep

-----------------------------------------------------------------------------
\* A step that moves a handler to or from a place other than publishing, or
\* moves none, and leaves the records of withdrawn builds alone.
LEMMA RecordingUntouched ==
  ASSUME IInv, RecordingFits,
         \A c \in Handlers : handler'[c] = handler[c] \/ handler'[c].at \notin Publishing,
         \A b \in Builds : pc[b] = "withdrawn" => record'[b] = record[b]
  PROVE  RecordingFits'
BY DEF IInv, HandlersFit, RecordingFits, Publishing

\* A handler about to record the cancel of a build is the first to record it.
LEMMA RecordingStep == IInv /\ RecordingFits /\ [Next]_vars => RecordingFits'
<1> SUFFICES ASSUME IInv, RecordingFits, [Next]_vars PROVE RecordingFits'
  OBVIOUS
<1>1. /\ handler \in [Handlers -> HandlerStates] /\ record \in [Builds -> Verdicts \cup {"none"}]
      /\ HandlersFit /\ RecordingFits
  BY DEF IInv, TypeOK
<1> USE DEF Publishing
<1>2. ASSUME NEW r \in Requests, NEW reports \in Callbacks, NEW b \in Builds, StartBuild(r, reports, b)
      PROVE  RecordingFits'
  BY <1>2, RecordingUntouched DEF StartBuild
<1>3. ASSUME NEW b \in Builds, BuildStep(b) PROVE RecordingFits'
  <2>1. CASE CompleteBuild(b)
    BY <2>1, Handover, RecordingUntouched
  <2>2. CASE ~CompleteBuild(b)
    BY <1>3, <2>2, OwnStep, RecordingUntouched
  <2> QED
    BY <2>1, <2>2
<1>4. ASSUME NEW c \in Handlers, NEW where \in HandlerSteps \ Publishing, NEW b, At(c, where, b),
             UNCHANGED record
      PROVE  RecordingFits'
  BY <1>1, <1>4, RecordingUntouched DEF At
<1>5. ASSUME NEW c \in Handlers, HandlerStep(c) PROVE RecordingFits'
  <2> DEFINE b == handler[c].build
  <2>1. CASE CancelDequeues(c)
    <3>1. InQueue(b) => record[b] = "none"
      BY DEF IInv, QueueSound, InQueue, HasTerminalRecord
    <3>2. CASE InQueue(b) /\ At(c, "recording", b)
      BY <1>1, <2>1, <3>1, <3>2 DEF CancelDequeues, RecordingFits, At
    <3>3. CASE At(c, "signalling", b)
      BY <1>4, <2>1, <3>3 DEF CancelDequeues, HandlerSteps
    <3> QED
      BY <2>1, <3>2, <3>3 DEF CancelDequeues
  <2>2. CASE CancelRecords(c)
    <3>1. b \in Builds /\ \A d \in Handlers : handler[d].at = "recording" /\ d # c => handler[d].build # b
      BY <1>1, <2>2 DEF CancelRecords, HandlersFit
    <3> QED
      BY <1>1, <2>2, <3>1 DEF CancelRecords, At, RecordingFits
  <2>3. CASE CancelNotes(c)
    BY <1>1, <2>3 DEF CancelNotes, At, RecordingFits
  <2>4. CASE CancelSignals(c) \/ CancelAnnounces(c)
    BY <1>4, <2>4 DEF CancelSignals, CancelAnnounces, HandlerSteps
  <2>5. CASE AvailabilityRefreshes(c)
    BY <1>4, <2>5 DEF AvailabilityRefreshes, HandlerSteps
  <2> QED
    BY <1>5, <2>1, <2>2, <2>3, <2>4, <2>5 DEF HandlerStep
<1>6. ASSUME NEW c \in Clients, NEW b \in Builds, CancelAccepted(c, b) PROVE RecordingFits'
  BY <1>4, <1>6 DEF CancelAccepted, Handlers, HandlerSteps
<1>7. ASSUME NEW c \in Clients, NEW value \in BOOLEAN, SetAccepting(c, value) PROVE RecordingFits'
  BY <1>4, <1>7 DEF SetAccepting, Handlers, HandlerSteps
<1>8. ASSUME NEW b \in Builds, ShutdownCancels(b) PROVE RecordingFits'
  BY <1>4, <1>8, RecordingUntouched DEF ShutdownCancels, Handlers, HandlerSteps
<1>9. CASE UNCHANGED <<handler, record>>
  BY <1>9, RecordingUntouched
<1>10. CASE BeginShutdown \/ Restart \/ UNCHANGED vars \/ \E b \in Builds : ShutdownAwaits(b)
  BY <1>9, <1>10 DEF BeginShutdown, Restart, vars, memory, ShutdownAwaits
<1>11. CASE MemoryLost
  BY <1>11 DEF MemoryLost, IdleHandlers, RecordingFits
<1> QED
  BY <1>2, <1>3, <1>5, <1>6, <1>7, <1>8, <1>10, <1>11 DEF Next, Exit, Crash


-----------------------------------------------------------------------------
\* The actions that are neither a step of a goroutine of a build nor one of a
\* handler at work leave every build as it is, but for the first and the last.
LEMMA OtherActions ==
  ASSUME IInv, [Next]_vars
  PROVE  \/ \E b \in Builds : BuildStep(b)
         \/ \E c \in Handlers : HandlerStep(c)
         \/ \E r \in Requests, reports \in Callbacks, b \in Builds : StartBuild(r, reports, b)
         \/ MemoryLost
         \/ /\ \A x \in Builds : Untouched(x)
            /\ \A d \in Handlers :
                 handler'[d] = handler[d] \/ handler'[d].at \in {"idle", "canceling", "refreshing"}
<1> DEFINE Elsewhere == \A d \in Handlers :
             handler'[d] = handler[d] \/ handler'[d].at \in {"idle", "canceling", "refreshing"}
<1>1. UNCHANGED <<pc, result, record, reportStatus, stream, ledger, receipts, withReport,
                  canceled, request, builds>> => \A x \in Builds : Untouched(x)
  BY DEF Untouched, Issued
<1>2. handler \in [Handlers -> HandlerStates]
  BY DEF IInv, TypeOK
<1>3. ASSUME NEW c \in Handlers, NEW where \in {"idle", "canceling", "refreshing"}, NEW y, At(c, where, y)
      PROVE  Elsewhere
  BY <1>2, <1>3 DEF At
<1>4. UNCHANGED handler => Elsewhere
  OBVIOUS
<1> HIDE DEF Elsewhere
<1>5. ASSUME NEW c \in Clients, NEW b \in Builds, CancelAccepted(c, b)
      PROVE  Elsewhere /\ \A x \in Builds : Untouched(x)
  BY <1>1, <1>3, <1>5 DEF CancelAccepted, RunsUnchanged, issue, Handlers
<1>6. ASSUME NEW c \in Clients, NEW value \in BOOLEAN, SetAccepting(c, value)
      PROVE  Elsewhere /\ \A x \in Builds : Untouched(x)
  BY <1>1, <1>3, <1>6 DEF SetAccepting, issue, Handlers
<1>7. CASE BeginShutdown \/ Restart \/ UNCHANGED vars
  BY <1>1, <1>4, <1>7 DEF BeginShutdown, Restart, vars, memory, issue
<1>8. ASSUME NEW b \in Builds, ShutdownCancels(b) \/ ShutdownAwaits(b)
      PROVE  Elsewhere /\ \A x \in Builds : Untouched(x)
  BY <1>1, <1>3, <1>4, <1>8 DEF ShutdownCancels, ShutdownAwaits, issue, Handlers
<1> QED
  BY <1>5, <1>6, <1>7, <1>8 DEF Next, Exit, Crash, Elsewhere

\* Nothing has been said about a build that has not been accepted.
LEMMA UnissuedUnsaid ==
  ASSUME IInv, NEW b \in Builds, b \notin Issued, Truthful(b)
  PROVE  /\ pc[b] = "none" /\ record[b] = "none" /\ result[b] # "reported"
         /\ reportStatus[b] # "reported" /\ ledger[b] = None
         /\ \A v \in Verdicts : <<b, v>> \notin receipts
<1>1. /\ record[b] = "none" /\ pc[b] = "none" /\ ledger[b] \in LedgerLines \cup {None}
      /\ receipts \subseteq Builds \X Verdicts /\ ~Lost(b)
  BY DEF IInv, TypeOK, StepsFit, Fits, Lost
<1>2. "none" \notin Verdicts /\ \A line \in LedgerLines : line.verdict \in Verdicts
  BY DEF Verdicts, LedgerLines
<1> QED
  BY <1>1, <1>2 DEF Truthful

LEMMA TruthStep == TruthInv /\ [Next]_vars => TruthInv'
<1> SUFFICES ASSUME TruthInv, [Next]_vars PROVE TruthInv'
  OBVIOUS
<1>1. IInv /\ RecordingFits /\ \A b \in Builds : RecordDue(b) /\ Truthful(b)
  BY DEF TruthInv
<1>2. IInv' /\ RecordingFits'
  BY <1>1, StepIInv, RecordingStep
<1>3. ASSUME NEW x \in Builds PROVE RecordDue(x)' /\ Truthful(x)'
  <2>1. ASSUME NEW b \in Builds, BuildStep(b) PROVE RecordDue(x)' /\ Truthful(x)'
    BY <1>1, <2>1, CompleteTruth, OwnTruth, OthersUntouched, TruthUntouched
  <2>2. ASSUME NEW c \in Handlers, HandlerStep(c) PROVE RecordDue(x)' /\ Truthful(x)'
    BY <1>1, <2>2, HandlerTruth
  <2>3. ASSUME NEW r \in Requests, NEW reports \in Callbacks, NEW b \in Builds, StartBuild(r, reports, b)
        PROVE  RecordDue(x)' /\ Truthful(x)'
    <3>1. pc \in [Builds -> Steps] /\ reportStatus \in [Builds -> ReportStates] /\ b \notin Issued
      BY <1>1, <2>3 DEF IInv, TypeOK, StartBuild
    <3>2. CASE x = b
      <4>1. /\ pc[x] = "none" /\ record[x] = "none" /\ result[x] # "reported"
            /\ ledger[x] = None /\ \A v \in Verdicts : <<x, v>> \notin receipts
        BY <1>1, <3>1, <3>2, UnissuedUnsaid
      <4>2. /\ pc'[x] \in {"none", "preparing"} /\ reportStatus'[x] # "reported"
            /\ UNCHANGED <<record, result, ledger, receipts>>
        BY <2>3, <3>1, <3>2, <4>1 DEF StartBuild, Goto
      <4> QED
        BY <4>1, <4>2 DEF RecordDue, Truthful
    <3>3. CASE x # b
      <4>1. Untouched(x)
        BY <2>3, <3>1, <3>3 DEF StartBuild, Goto, Untouched, Issued
      <4> QED
        BY <1>1, <4>1, TruthUntouched
    <3> QED
      BY <3>2, <3>3
  <2>4. CASE MemoryLost
    <3>1. /\ pc'[x] = "none" /\ record'[x] = "none" /\ result'[x] = "none" /\ reportStatus'[x] = "none"
          /\ UNCHANGED <<ledger, receipts, request>> /\ builds' = {}
      BY <2>4 DEF MemoryLost, Each, issue
    <3>2. x \in Issued => Lost(x)'
      BY <3>1 DEF Lost, Issued
    <3>3. x \notin Issued => ledger[x] = None /\ \A v \in Verdicts : <<x, v>> \notin receipts
      BY <1>1, UnissuedUnsaid
    <3> QED
      BY <1>1, <3>1, <3>2, <3>3 DEF RecordDue, Truthful
  <2>5. CASE Untouched(x)
    BY <1>1, <2>5, TruthUntouched
  <2> QED
    BY <1>1, <2>1, <2>2, <2>3, <2>4, <2>5, OtherActions
<1> QED
  BY <1>2, <1>3 DEF TruthInv

LEMMA InitTruth == Init => TruthInv
<1> SUFFICES ASSUME Init PROVE TruthInv
  OBVIOUS
<1>1. IInv
  BY InitIInv
<1>2. \A b \in Builds : RecordDue(b) /\ Truthful(b)
  BY DEF Init, FreshMemory, Each, RecordDue, Truthful
<1>3. RecordingFits
  BY DEF Init, FreshMemory, IdleHandlers, RecordingFits
<1> QED
  BY <1>1, <1>2, <1>3 DEF TruthInv

LEMMA TruthAlways == Spec => []TruthInv
BY InitTruth, TruthStep, PTL DEF Spec

\* Whatever CI received about a build and whatever the ledger's line says of it
\* is one verdict, the record's while there is one, across crashes, restarts
\* and failed ledger writes; "reported" is only said of a report that arrived.
THEOREM ReportsAreTrue == Spec => []ReportsTrue
<1>1. TruthInv => ReportsTrue
  <2> SUFFICES ASSUME TruthInv PROVE ReportsTrue
    OBVIOUS
  <2>1. /\ receipts \subseteq Builds \X Verdicts
        /\ \A b \in Builds : Truthful(b) /\ Fits(b)
    BY DEF TruthInv, IInv, TypeOK, StepsFit
  <2>2. ASSUME NEW x \in receipts
        PROVE  /\ x = <<x[1], x[2]>> /\ x[1] \in Builds /\ x[2] \in Verdicts
               /\ HasTerminalRecord(x[1]) => record[x[1]] = x[2]
               /\ ledger[x[1]] # None => ledger[x[1]].verdict = x[2]
    <3>1. x = <<x[1], x[2]>> /\ x[1] \in Builds /\ x[2] \in Verdicts
      BY <2>1
    <3>2. <<x[1], x[2]>> \in receipts
      BY <3>1
    <3> QED
      BY <2>1, <3>1, <3>2 DEF Truthful, Fits, Lost, HasTerminalRecord
  <2>3. \A x, y \in receipts : x[1] = y[1] => x = y
    <3> SUFFICES ASSUME NEW x \in receipts, NEW y \in receipts, x[1] = y[1] PROVE x = y
      OBVIOUS
    <3>1. /\ x = <<x[1], x[2]>> /\ x[1] \in Builds /\ x[2] \in Verdicts
          /\ y = <<y[1], y[2]>> /\ y[2] \in Verdicts
      BY <2>2
    <3>2. <<x[1], x[2]>> \in receipts /\ <<x[1], y[2]>> \in receipts
      BY <3>1
    <3>3. \A b \in Builds : \A v, w \in Verdicts : <<b, v>> \in receipts /\ <<b, w>> \in receipts => v = w
      BY <2>1 DEF Truthful
    <3>4. x[2] = y[2]
      BY <3>1, <3>2, <3>3
    <3> QED
      BY <3>1, <3>4
  <2> QED
    BY <2>1, <2>2, <2>3 DEF ReportsTrue, Truthful
<1> QED
  BY <1>1, TruthAlways, PTL


-----------------------------------------------------------------------------
\* A record once set stays until memory is lost, a ledger line keeps its
\* verdict, and a build that is not in memory any more does not come back.
LEMMA VerdictsKept ==
  ASSUME TruthInv, [Next]_vars, NEW x \in Builds
  PROVE  /\ record[x] # "none" => record'[x] = record[x] \/ MemoryLost
         /\ ledger[x] # None /\ ledger'[x] # None => ledger'[x].verdict = ledger[x].verdict
         /\ x \in Issued => x \in Issued' /\ (x \in builds' => x \in builds)
<1>1. /\ IInv /\ RecordingFits /\ \A b \in Builds : RecordDue(b) /\ Truthful(b)
      /\ pc \in [Builds -> Steps] /\ record \in [Builds -> Verdicts \cup {"none"}]
      /\ ledger \in [Builds -> LedgerLines \cup {None}]
  BY DEF TruthInv, IInv, TypeOK
<1>2. ASSUME NEW b \in Builds, BuildStep(b)
      PROVE  /\ record[x] # "none" => record'[x] = record[x]
             /\ ledger[x] # None /\ ledger'[x] # None => ledger'[x].verdict = ledger[x].verdict
             /\ UNCHANGED request /\ builds' \subseteq builds
  <2>1. CASE CompleteBuild(b)
    BY <1>1, <2>1, Handover DEF CompleteBuild
  <2>2. CASE ~CompleteBuild(b) /\ x # b
    BY <1>1, <1>2, <2>2, OthersUntouched, OwnStep DEF Untouched
  <2>3. CASE ~CompleteBuild(b) /\ x = b
    <3>1. UNCHANGED request /\ builds' \subseteq builds /\ pc[b] # "none"
      BY <1>1, <1>2, <2>3, OwnStep
    <3>2. ledger[b] # None => ledger[b].verdict = record[b]
      BY <1>1, <3>1, OnTheWay
    <3>3. record[b] # "none" => record'[b] = record[b]
      BY <1>1, <1>2, <2>3 DEF BuildStep, PrepareFails, CommandStarts, CommandExits, CommandAnnounced,
         RecordSet, RecordWritten, ReportAttempt, ReportSettled, ReportNoted, ReportTold, DoneClosed,
         RunClosed, RecordDue
    <3>4. ledger' = ledger \/ WriteLedger(b, record[b], reportStatus[b])
      BY <1>2, <2>3 DEF BuildStep, PrepareFails, CommandStarts, CommandExits, CommandAnnounced,
         RecordSet, RecordWritten, ReportAttempt, ReportSettled, ReportNoted, ReportTold, DoneClosed,
         RunClosed
    <3>5. ledger'[b] = ledger[b] \/ ledger'[b].verdict = record[b]
      BY <1>1, <3>4 DEF WriteLedger
    <3> QED
      BY <2>3, <3>1, <3>2, <3>3, <3>5
  <2> QED
    BY <2>1, <2>2, <2>3
<1>3. ASSUME NEW c \in Handlers, HandlerStep(c)
      PROVE  /\ record[x] # "none" => record'[x] = record[x]
             /\ ledger[x] # None /\ ledger'[x] # None => ledger'[x].verdict = ledger[x].verdict
             /\ UNCHANGED <<request, builds>>
  <2>1. UNCHANGED <<request, builds>>
    BY <1>3 DEF HandlerStep, CancelDequeues, CancelSignals, CancelRecords, CancelNotes,
                CancelAnnounces, AvailabilityRefreshes, RunsUnchanged, issue
  <2>2. CASE x # handler[c].build \/ CancelSignals(c) \/ AvailabilityRefreshes(c)
    BY <1>1, <1>3, <2>1, <2>2, HandlerOthersUntouched DEF Untouched
  <2>3. CASE (CancelDequeues(c) \/ CancelAnnounces(c)) /\ x = handler[c].build
    BY <2>1, <2>3 DEF CancelDequeues, CancelAnnounces
  <2>4. CASE CancelRecords(c) /\ x = handler[c].build
    BY <1>1, <2>1, <2>4 DEF CancelRecords, RecordingFits
  <2>5. CASE CancelNotes(c) /\ x = handler[c].build
    <3>1. pc[x] # "none"
      BY <1>1, <2>5 DEF CancelNotes, IInv, HandlersFit, Publishing
    <3>2. ledger[x] # None => ledger[x].verdict = record[x]
      BY <1>1, <3>1, OnTheWay
    <3>3. ledger'[x] = ledger[x] \/ ledger'[x].verdict = record[x]
      BY <1>1, <2>5 DEF CancelNotes, WriteLedger
    <3> QED
      BY <2>1, <2>5, <3>2, <3>3 DEF CancelNotes
  <2> QED
    BY <1>3, <2>2, <2>3, <2>4, <2>5 DEF HandlerStep
<1>4. ASSUME NEW r \in Requests, NEW reports \in Callbacks, NEW b \in Builds, StartBuild(r, reports, b)
      PROVE  /\ UNCHANGED <<record, ledger>> /\ builds' = builds \cup {b} /\ b \notin Issued
             /\ request' = [request EXCEPT ![b] = r]
  BY <1>4 DEF StartBuild
<1>5. CASE MemoryLost
  BY <1>5 DEF MemoryLost, issue, Issued
<1>6. CASE Untouched(x)
  BY <1>6 DEF Untouched
<1>7. request \in [Builds -> Requests \cup {None}]
  BY <1>1 DEF IInv, TypeOK
<1> QED
  BY <1>1, <1>2, <1>3, <1>4, <1>5, <1>6, <1>7, OtherActions DEF Issued

\* What the status endpoint shows of a build is a verdict exactly when there is
\* a record in memory, or a line in the ledger for a run that is not in memory.
LEMMA VerdictShown ==
  TruthInv => \A b \in Builds :
    /\ Observed(b) \in Verdicts <=>
         IF b \in builds THEN record[b] # "none" ELSE ledger[b] # None
    /\ Observed(b) \in Verdicts =>
         Observed(b) = IF b \in builds THEN record[b] ELSE ledger[b].verdict
    /\ Observed(b) \notin Verdicts /\ b \notin builds => Observed(b) = "unknown"
<1> SUFFICES ASSUME TruthInv, NEW b \in Builds
             PROVE  /\ Observed(b) \in Verdicts <=>
                         IF b \in builds THEN record[b] # "none" ELSE ledger[b] # None
                    /\ Observed(b) \in Verdicts =>
                         Observed(b) = IF b \in builds THEN record[b] ELSE ledger[b].verdict
                    /\ Observed(b) \notin Verdicts /\ b \notin builds => Observed(b) = "unknown"
  OBVIOUS
<1>1. /\ record[b] \in Verdicts \cup {"none"} /\ ledger[b] \in LedgerLines \cup {None}
      /\ Done(b) => record[b] # "none"
  BY DEF TruthInv, IInv, TypeOK, StepsFit, Fits, Decided, Done
<1>2. ledger[b] # None => ledger[b].verdict \in Verdicts
  BY <1>1 DEF LedgerLines
<1> QED
  BY <1>1, <1>2 DEF Observed, Status, HasTerminalRecord, Verdicts

\* The status endpoint never shows two verdicts of one build, in whatever order
\* builds end, are canceled and pruned, and whatever a crash or a failed ledger
\* write loses.
THEOREM VerdictKept == Spec => VerdictNeverChanges
<1>1. (TruthInv => \A b \in Builds :
         /\ Observed(b) \in Verdicts <=>
              IF b \in builds THEN record[b] # "none" ELSE ledger[b] # None
         /\ Observed(b) \in Verdicts =>
              Observed(b) = IF b \in builds THEN record[b] ELSE ledger[b].verdict
         /\ Observed(b) \notin Verdicts /\ b \notin builds => Observed(b) = "unknown")'
  BY VerdictShown, PTL
<1>2. TruthInv /\ [Next]_vars =>
        [\A b \in Builds : Observed(b) \in Verdicts => Observed(b)' \in {Observed(b), "unknown"}]_vars
  <2> SUFFICES ASSUME TruthInv, [Next]_vars, NEW b \in Builds, Observed(b) \in Verdicts
               PROVE  Observed(b)' \in {Observed(b), "unknown"}
    OBVIOUS
  <2>1. TruthInv'
    BY TruthStep
  <2>2. b \in Issued
    <3>1. b \in builds => b \in Issued
      BY DEF TruthInv, IInv, TypeOK
    <3>2. ledger[b] # None => b \in Issued
      BY UnissuedUnsaid DEF TruthInv
    <3> QED
      BY <3>1, <3>2, VerdictShown
  <2>3. record[b] # "none" => ~Lost(b)
    BY DEF TruthInv, IInv, StepsFit, Fits, Lost
  <2>4. record'[b] # "none" => ~Lost(b)'
    BY <2>1 DEF TruthInv, IInv, StepsFit, Fits, Lost
  <2>5. ledger[b] # None => record[b] = ledger[b].verdict \/ Lost(b)
    BY DEF TruthInv, Truthful
  <2>6. ledger'[b] # None => record'[b] = ledger'[b].verdict \/ Lost(b)'
    BY <2>1 DEF TruthInv, Truthful
  <2>7. CASE MemoryLost
    <3>1. builds' = {} /\ UNCHANGED ledger
      BY <2>7 DEF MemoryLost
    <3> QED
      BY <1>1, <2>1, <2>3, <2>5, <3>1, VerdictShown
  <2>8. CASE ~MemoryLost
    <3>1. /\ record[b] # "none" => record'[b] = record[b]
          /\ ledger[b] # None /\ ledger'[b] # None => ledger'[b].verdict = ledger[b].verdict
          /\ b \in builds' => b \in builds
      BY <2>2, <2>8, VerdictsKept
    <3> QED
      BY <1>1, <2>1, <2>4, <2>6, <3>1, VerdictShown
  <2> QED
    BY <2>7, <2>8
<1> QED
  BY <1>2, TruthAlways, PTL DEF Spec, VerdictNeverChanges


-----------------------------------------------------------------------------
\* A second entry leaves the first one in place.
LEMMA SecondEntry ==
  ASSUME NEW S, NEW s \in Seq(S), NEW e \in S
  PROVE  Len(s) = 1 => Len(Append(s, e)) = 2 /\ Append(s, e)[1] = s[1] /\ Append(s, e)[2] = e
<1>1. /\ Len(Append(s, e)) = Len(s) + 1 /\ Append(s, e)[Len(s) + 1] = e
      /\ \A i \in 1..Len(s) : Append(s, e)[i] = s[i]
  OBVIOUS
<1>2. 1 + 1 = 2 /\ 1 \in 1..1
  OBVIOUS
<1> QED
  BY <1>1, <1>2, Zenon

\* The stream of a build that a step does not touch.
LEMMA StreamUntouched ==
  ASSUME NEW x \in Builds, StreamFits(x), Untouched(x) PROVE StreamFits(x)'
BY DEF StreamFits, Untouched, Names, ReportEvent, Decided, Reporting, Told

\* A goroutine's own steps append the terminal event before the record is set
\* and the report's outcome, when there is a callback, before they complete.
LEMMA OwnStream ==
  ASSUME TruthInv, NEW b \in Builds, BuildStep(b), ~CompleteBuild(b), StreamFits(b)
  PROVE  StreamFits(b)'
<1>1. /\ pc \in [Builds -> Steps] /\ result \in [Builds -> Results]
      /\ record \in [Builds -> Verdicts \cup {"none"}] /\ reportStatus \in [Builds -> ReportStates]
      /\ stream \in [Builds -> Seq(Messages)] /\ Fits(b)
  BY DEF TruthInv, IInv, TypeOK, StepsFit
<1>2. UNCHANGED withReport
  BY OwnStep DEF TruthInv
<1>3. ASSUME NEW m, Emit(b, m), stream[b] = <<>>
      PROVE  Len(stream'[b]) = 1 /\ stream'[b][1] = m
  BY <1>1, <1>3 DEF Emit
<1> USE <1>1, <1>2 DEF Goto, QueueUnchanged, Decided, Reporting, Told
<1>4. CASE PrepareFails(b)
  <2>1. PICK verdict \in Verdicts : result' = [result EXCEPT ![b] = verdict] /\ Emit(b, verdict)
    BY <1>4 DEF PrepareFails, Verdicts
  <2>2. stream[b] = <<>> /\ pc'[b] = "cleanup" /\ result'[b] = verdict /\ verdict # "timed out"
    BY <1>4, <2>1 DEF PrepareFails, StreamFits, Verdicts
  <2> QED
    BY <1>3, <2>1, <2>2 DEF StreamFits, Names
<1>5. CASE CommandStarts(b) \/ CommandExits(b)
  BY <1>5 DEF CommandStarts, CommandExits, StreamFits
<1>6. CASE CommandAnnounced(b)
  <2>1. PICK m : /\ Emit(b, m)
                 /\ m = CASE result[b] = "timed out"                -> "failed"
                          [] result[b] = "failed" /\ b \in canceled -> "canceled"
                          [] OTHER                                  -> result[b]
    BY <1>6 DEF CommandAnnounced
  <2>2. stream[b] = <<>> /\ pc'[b] = "cleanup" /\ UNCHANGED <<result, canceled>>
    BY <1>6 DEF CommandAnnounced, StreamFits
  <2>3. Names(m, IF result[b] = "timed out" THEN "failed" ELSE result[b], b)
    BY <2>1 DEF Names
  <2> QED
    BY <1>3, <2>1, <2>2, <2>3 DEF StreamFits, Names
<1>7. CASE RecordSet(b)
  <2>1. /\ pc[b] = "cleanup" /\ pc'[b] = "recorded" /\ UNCHANGED <<stream, canceled>>
        /\ record'[b] = IF result[b] = "timed out" THEN "failed" ELSE result[b]
    BY <1>7 DEF RecordSet
  <2> QED
    BY <2>1 DEF StreamFits, Names
<1>8. CASE RecordWritten(b)
  <2>1. /\ pc[b] = "recorded" /\ UNCHANGED <<stream, canceled, record>>
        /\ pc'[b] = IF b \in withReport THEN "reporting" ELSE "completing"
    BY <1>8 DEF RecordWritten
  <2> QED
    BY <2>1 DEF StreamFits, Names
<1>9. CASE ReportAttempt(b)
  <2>1. /\ pc[b] = "reporting" /\ pc'[b] \in {"reporting", "settling"}
        /\ UNCHANGED <<stream, canceled, record>>
    BY <1>9 DEF ReportAttempt, ReportEnds
  <2> QED
    BY <2>1 DEF StreamFits, Names
<1>10. CASE ReportSettled(b)
  <2>1. /\ pc[b] = "settling" /\ pc'[b] = "noting"
        /\ UNCHANGED <<stream, canceled, record, result>>
        /\ reportStatus'[b] = IF result[b] = "reported" THEN "reported" ELSE "failed"
    BY <1>10 DEF ReportSettled
  <2>2. result[b] \in {"reported", "report failed"}
    BY <2>1 DEF Fits
  <2> QED
    BY <2>1, <2>2 DEF StreamFits, Names, ReportEvent
<1>11. CASE ReportNoted(b)
  <2>1. /\ pc[b] = "noting" /\ pc'[b] = "telling"
        /\ UNCHANGED <<stream, canceled, record, result, reportStatus>>
    BY <1>11 DEF ReportNoted
  <2> QED
    BY <2>1 DEF StreamFits, Names, ReportEvent
<1>12. CASE ReportTold(b)
  <2>1. /\ pc[b] = "telling" /\ pc'[b] \in {"completing", "closing"} /\ Emit(b, result[b])
        /\ UNCHANGED <<canceled, record, reportStatus>>
    BY <1>12 DEF ReportTold
  <2>2. Len(stream[b]) = 1 /\ stream[b] \in Seq(Messages) /\ result[b] \in Messages
    BY <2>1 DEF StreamFits, Fits, Messages
  <2>3. stream'[b] = Append(stream[b], result[b])
    BY <2>1 DEF Emit
  <2>4. Len(stream'[b]) = 2 /\ stream'[b][1] = stream[b][1] /\ stream'[b][2] = result[b]
    <3> DEFINE s == stream[b]
               e == result[b]
    <3>1. s \in Seq(Messages) /\ e \in Messages /\ Len(s) = 1
      BY <2>2
    <3>2. stream'[b] = Append(s, e)
      BY <2>3
    <3> HIDE DEF s, e
    <3>3. Len(Append(s, e)) = 2 /\ Append(s, e)[1] = s[1] /\ Append(s, e)[2] = e
      BY <3>1, SecondEntry
    <3> QED
      BY <3>2, <3>3 DEF s, e
  <2> QED
    BY <2>1, <2>4 DEF StreamFits, Names, ReportEvent
<1>13. CASE DoneClosed(b) \/ RunClosed(b)
  <2>1. /\ pc[b] \in Told /\ pc'[b] \in {"done", "closed"} /\ UNCHANGED <<stream, record, reportStatus>>
        /\ b \in canceled => b \in canceled'
    BY <1>13 DEF DoneClosed, RunClosed
  <2> QED
    BY <2>1 DEF StreamFits, Names, ReportEvent
<1> QED
  BY <1>4, <1>5, <1>6, <1>7, <1>8, <1>9, <1>10, <1>11, <1>12, <1>13 DEF BuildStep

\* The stream of a build a handler withdraws gets the one event "canceled".
LEMMA HandlerStream ==
  ASSUME TruthInv, NEW c \in Handlers, HandlerStep(c), NEW x \in Builds, StreamFits(x)
  PROVE  StreamFits(x)'
<1>1. /\ pc \in [Builds -> Steps] /\ record \in [Builds -> Verdicts \cup {"none"}]
      /\ stream \in [Builds -> Seq(Messages)] /\ HandlersFit /\ RecordDue(x) /\ IInv
  BY DEF TruthInv, IInv, TypeOK
<1> USE DEF RunsUnchanged, issue
<1>2. CASE x # handler[c].build \/ CancelSignals(c) \/ AvailabilityRefreshes(c)
  BY <1>1, <1>2, HandlerOthersUntouched, StreamUntouched
<1>3. CASE CancelDequeues(c) /\ x = handler[c].build
  <2>1. pc'[x] = pc[x] \/ (pc[x] = "none" /\ pc'[x] = "withdrawn")
    BY <1>1, <1>3 DEF CancelDequeues, Goto, IInv, QueueSound, InQueue
  <2> QED
    BY <1>3, <2>1 DEF CancelDequeues, StreamFits, Names, ReportEvent, Decided, Reporting, Told
<1>4. CASE (CancelRecords(c) \/ CancelNotes(c)) /\ x = handler[c].build
  <2>1. pc[x] = "withdrawn" /\ UNCHANGED <<pc, stream>>
    BY <1>1, <1>4 DEF CancelRecords, CancelNotes, HandlersFit, Publishing
  <2> QED
    BY <2>1 DEF StreamFits, Decided, Reporting, Told
<1>5. CASE CancelAnnounces(c) /\ x = handler[c].build
  <2>1. /\ pc[x] = "withdrawn" /\ record[x] = "canceled" /\ UNCHANGED <<record, withReport>>
        /\ pc'[x] = IF x \in withReport THEN "reporting" ELSE "closing"
        /\ Emit(x, "canceled")
    BY <1>1, <1>5 DEF CancelAnnounces, HandlersFit, Publishing, RecordDue, Goto
  <2>2. stream[x] = <<>>
    BY <2>1 DEF StreamFits
  <2>3. Len(stream'[x]) = 1 /\ stream'[x][1] = "canceled"
    BY <1>1, <2>1, <2>2 DEF Emit
  <2> QED
    BY <2>1, <2>3 DEF StreamFits, Names, Decided, Reporting, Told
<1> QED
  BY <1>2, <1>3, <1>4, <1>5 DEF HandlerStep

LEMMA StreamStep == StreamInv /\ [Next]_vars => StreamInv'
<1> SUFFICES ASSUME StreamInv, [Next]_vars, NEW x \in Builds PROVE StreamFits(x)'
  BY TruthStep DEF StreamInv
<1>1. TruthInv /\ IInv /\ StreamFits(x) /\ pc \in [Builds -> Steps]
  BY DEF StreamInv, TruthInv, IInv, TypeOK
<1>2. ASSUME NEW b \in Builds, BuildStep(b), ~CompleteBuild(b) PROVE StreamFits(x)'
  BY <1>1, <1>2, OwnStream, OthersUntouched, StreamUntouched
<1>3. ASSUME NEW b \in Builds, CompleteBuild(b) PROVE StreamFits(x)'
  <2>1. /\ UNCHANGED <<result, record, reportStatus, stream, withReport, canceled>>
        /\ pc[b] = "completing"
    BY <1>1, <1>3, Handover DEF CompleteBuild, issue
  <2>2. \A i \in DOMAIN queue : pc[queue[i]] = "none" /\ queue[i] \in Builds
    BY <1>1 DEF IInv, QueueSound, TypeOK
  <2>3. \/ pc' = [pc EXCEPT ![b] = "closing"]
        \/ \E i \in DOMAIN queue : pc' = [pc EXCEPT ![b] = "closing", ![queue[i]] = "preparing"]
    BY <1>1, <1>3, Handover DEF Goto
  <2>4. \/ pc'[x] = pc[x]
        \/ pc[x] = "completing" /\ pc'[x] = "closing"
        \/ pc[x] = "none" /\ pc'[x] = "preparing"
    BY <1>1, <2>1, <2>2, <2>3
  <2> QED
    BY <1>1, <2>1, <2>4 DEF StreamFits, Names, ReportEvent, Decided, Reporting, Told
<1>4. ASSUME NEW c \in Handlers, HandlerStep(c) PROVE StreamFits(x)'
  BY <1>1, <1>4, HandlerStream
<1>5. ASSUME NEW r \in Requests, NEW reports \in Callbacks, NEW b \in Builds, StartBuild(r, reports, b)
      PROVE  StreamFits(x)'
  <2>1. CASE x # b
    <3>1. Untouched(x)
      BY <1>1, <1>5, <2>1 DEF StartBuild, Goto, Untouched, Issued, IInv, TypeOK
    <3> QED
      BY <1>1, <3>1, StreamUntouched
  <2>2. CASE x = b
    <3>1. pc[x] = "none" /\ pc'[x] \in {"none", "preparing"} /\ UNCHANGED stream
      BY <1>1, <1>5, <2>2 DEF StartBuild, Goto, IInv, StepsFit, Fits
    <3> QED
      BY <1>1, <3>1 DEF StreamFits, Decided, Reporting, Told
  <2> QED
    BY <2>1, <2>2
<1>6. CASE MemoryLost
  BY <1>6 DEF MemoryLost, Each, StreamFits, Decided, Reporting, Told
<1>7. CASE Untouched(x)
  BY <1>1, <1>7, StreamUntouched
<1> QED
  BY <1>1, <1>2, <1>3, <1>4, <1>5, <1>6, <1>7, OtherActions

\* A sequence is its first element and the rest.
LEMMA FirstAndRest ==
  ASSUME NEW S, NEW s \in Seq(S), Len(s) >= 1 PROVE s = <<s[1]>> \o Tail(s)
<1>1. s[1] \in S /\ Tail(s) \in Seq(S) /\ <<s[1]>> \in Seq(S)
  OBVIOUS
<1>2. Len(<<s[1]>> \o Tail(s)) = Len(s) /\ <<s[1]>> \o Tail(s) \in Seq(S)
  BY <1>1
<1>3. \A i \in 1..Len(s) : (<<s[1]>> \o Tail(s))[i] = s[i]
  BY <1>1
<1> QED
  BY <1>2, <1>3

\* The stream CI tails holds one terminal event, which names the recorded
\* verdict or the cancel that came between the two readings of the context,
\* then the report's outcome if there is a callback, and nothing is missing
\* when the run's done channel is closed.
THEOREM StreamsTellRecords == Spec => []StreamTellsRecord
<1>1. Init => StreamInv
  <2> SUFFICES ASSUME Init PROVE StreamInv
    OBVIOUS
  <2>1. \A b \in Builds : StreamFits(b)
    BY DEF Init, FreshMemory, Each, StreamFits, Decided, Reporting, Told
  <2> QED
    BY <2>1, InitTruth DEF StreamInv
<1>2. StreamInv => StreamTellsRecord
  <2> SUFFICES ASSUME StreamInv, NEW b \in Builds
               PROVE  LET s == stream[b] IN
                      /\ Len(s) >= 1 /\ HasTerminalRecord(b) =>
                           \/ s[1] = record[b]
                           \/ s = <<"canceled">> \o Tail(s) /\ record[b] = "failed" /\ b \in canceled
                      /\ Len(s) >= 2 => /\ b \in withReport
                                        /\ s[2] = (IF reportStatus[b] = "reported" THEN "reported" ELSE "report failed")
                      /\ Done(b) => Len(s) = (IF b \in withReport THEN 2 ELSE 1)
    BY DEF StreamTellsRecord
  <2>1. /\ stream[b] \in Seq(Messages) /\ pc[b] \in Steps /\ StreamFits(b) /\ RecordDue(b) /\ Fits(b)
    BY DEF StreamInv, TruthInv, IInv, TypeOK, StepsFit
  <2>2. Len(stream[b]) >= 1 /\ HasTerminalRecord(b) => Names(stream[b][1], record[b], b)
    <3>1. stream[b] = <<>> => Len(stream[b]) = 0
      OBVIOUS
    <3>2. \/ pc[b] \in {"none", "preparing", "running", "exited", "withdrawn"}
          \/ pc[b] = "cleanup" \/ pc[b] \in Decided
      BY <2>1 DEF Steps, Decided
    <3>3. pc[b] = "cleanup" => ~HasTerminalRecord(b)
      BY <2>1 DEF RecordDue, HasTerminalRecord
    <3>4. pc[b] \in {"none", "preparing", "running", "exited", "withdrawn"} => stream[b] = <<>>
      BY <2>1 DEF StreamFits
    <3>5. pc[b] \in Decided => Names(stream[b][1], record[b], b)
      BY <2>1 DEF StreamFits
    <3> QED
      BY <3>1, <3>2, <3>3, <3>4, <3>5
  <2>3. Len(stream[b]) >= 1 /\ stream[b][1] = "canceled" => stream[b] = <<"canceled">> \o Tail(stream[b])
    BY <2>1, FirstAndRest
  <2>4. Len(stream[b]) >= 2 => pc[b] \in Told
    <3>1. stream[b] = <<>> => Len(stream[b]) = 0
      OBVIOUS
    <3>2. \/ pc[b] \in {"none", "preparing", "running", "exited", "withdrawn"}
          \/ pc[b] = "cleanup" \/ pc[b] \in Reporting \cup {"recorded"} \/ pc[b] \in Told
      BY <2>1 DEF Steps, Reporting, Told
    <3>3. pc[b] \in {"none", "preparing", "running", "exited", "withdrawn"} => stream[b] = <<>>
      BY <2>1 DEF StreamFits
    <3>4. pc[b] = "cleanup" \/ pc[b] \in Reporting \cup {"recorded"} => Len(stream[b]) = 1
      BY <2>1 DEF StreamFits
    <3>5. ~(0 >= 2) /\ ~(1 >= 2)
      OBVIOUS
    <3> QED
      BY <3>1, <3>2, <3>3, <3>4, <3>5
  <2>5. pc[b] \in Told => IF b \in withReport
                          THEN Len(stream[b]) = 2 /\ stream[b][2] = ReportEvent(b)
                          ELSE Len(stream[b]) = 1
    BY <2>1 DEF StreamFits
  <2>6. Done(b) => pc[b] \in Told
    BY DEF Done, Told
  <2>7. Len(stream[b]) >= 1 /\ HasTerminalRecord(b) =>
          \/ stream[b][1] = record[b]
          \/ stream[b] = <<"canceled">> \o Tail(stream[b]) /\ record[b] = "failed" /\ b \in canceled
    BY <2>2, <2>3 DEF Names
  <2>8. Len(stream[b]) >= 2 => b \in withReport /\ stream[b][2] = ReportEvent(b)
    <3>1. ~(1 >= 2)
      OBVIOUS
    <3> QED
      BY <2>4, <2>5, <3>1
  <2>9. Done(b) => Len(stream[b]) = (IF b \in withReport THEN 2 ELSE 1)
    BY <2>5, <2>6
  <2> QED
    BY <2>7, <2>8, <2>9 DEF ReportEvent
<1> QED
  BY <1>1, <1>2, StreamStep, PTL DEF Spec


-----------------------------------------------------------------------------
\* With a ledger whose writes do not fail: a goroutine's own steps.
LEMMA OwnLedger ==
  ASSUME ~LedgerMayFail, LedgerInv, NEW b \in Builds, BuildStep(b), ~CompleteBuild(b),
         pc'[b] \in {"telling"} \cup Told
  PROVE  ledger'[b] = Line(b)'
<1>1. /\ pc \in [Builds -> Steps] /\ ledger \in [Builds -> LedgerLines \cup {None}]
      /\ pc[b] \in {"telling"} \cup Told => ledger[b] = Line(b)
  BY DEF LedgerInv, TruthInv, IInv, TypeOK
<1> USE <1>1 DEF Goto, Told, Line
<1>2. CASE PrepareFails(b) \/ CommandStarts(b) \/ CommandExits(b) \/ CommandAnnounced(b) \/ RecordSet(b)
  BY <1>2 DEF PrepareFails, CommandStarts, CommandExits, CommandAnnounced, RecordSet
<1>3. CASE RecordWritten(b) \/ ReportNoted(b)
  BY <1>3 DEF RecordWritten, ReportNoted, WriteLedger
<1>4. CASE ReportAttempt(b) \/ ReportSettled(b)
  BY <1>4 DEF ReportAttempt, ReportEnds, ReportSettled
<1>5. CASE ReportTold(b) \/ DoneClosed(b) \/ RunClosed(b)
  BY <1>5 DEF ReportTold, DoneClosed, RunClosed
<1> QED
  BY <1>2, <1>3, <1>4, <1>5 DEF BuildStep

\* The same for a handler: what it announces it has noted.
LEMMA HandlerLedger ==
  ASSUME ~LedgerMayFail, LedgerInv, NEW c \in Handlers, HandlerStep(c)
  PROVE  /\ \A b \in Builds : pc'[b] \in {"telling"} \cup Told => ledger'[b] = Line(b)'
         /\ \A d \in Handlers : handler'[d].at = "announcing" =>
              ledger'[handler'[d].build] = Line(handler[d].build)' /\ handler'[d].build = handler[d].build
<1>1. /\ pc \in [Builds -> Steps] /\ ledger \in [Builds -> LedgerLines \cup {None}]
      /\ handler \in [Handlers -> HandlerStates] /\ record \in [Builds -> Verdicts \cup {"none"}]
      /\ IInv /\ HandlersFit
      /\ \A b \in Builds : pc[b] \in {"telling"} \cup Told => ledger[b] = Line(b)
      /\ \A d \in Handlers : handler[d].at = "announcing" =>
           ledger[handler[d].build] = Line(handler[d].build) /\ handler[d].build \in Builds
  BY DEF LedgerInv, TruthInv, IInv, TypeOK, HandlersFit, Publishing
<1>2. ASSUME NEW where, NEW y, At(c, where, y)
      PROVE  /\ handler'[c].at = where /\ handler'[c].build = y
             /\ \A d \in Handlers : d # c => handler'[d] = handler[d]
  BY <1>1, <1>2 DEF At
<1> DEFINE b == handler[c].build
<1> USE DEF Told, Line
<1>3. CASE CancelDequeues(c)
  <2>1. /\ UNCHANGED <<ledger, record, reportStatus>>
        /\ \A x \in Builds : pc'[x] = pc[x] \/ pc'[x] = "withdrawn"
    BY <1>1, <1>3 DEF CancelDequeues, Goto
  <2>2. At(c, "recording", b) \/ At(c, "signalling", b)
    BY <1>3 DEF CancelDequeues
  <2> QED
    BY <1>1, <1>2, <2>1, <2>2
<1>4. CASE CancelSignals(c) \/ AvailabilityRefreshes(c)
  <2>1. UNCHANGED <<pc, ledger, record, reportStatus>> /\ At(c, "idle", None)
    BY <1>4 DEF CancelSignals, AvailabilityRefreshes
  <2> QED
    BY <1>1, <1>2, <2>1
<1>5. CASE CancelRecords(c)
  <2>1. /\ b \in Builds /\ pc[b] = "withdrawn" /\ UNCHANGED <<pc, ledger, reportStatus>>
        /\ \A x \in Builds : x # b => record'[x] = record[x]
        /\ At(c, "noting", b)
    BY <1>1, <1>5 DEF CancelRecords, HandlersFit, Publishing
  <2>2. \A d \in Handlers : handler[d].at = "announcing" => handler[d].build # b
    BY <1>1, <1>5 DEF CancelRecords, HandlersFit, Publishing
  <2>3. \A x \in Builds : x # b => Line(x)' = Line(x)
    BY <2>1
  <2>4. \A x \in Builds : pc'[x] \in {"telling"} \cup Told => ledger'[x] = Line(x)'
    BY <1>1, <2>1, <2>3
  <2>5. handler'[c].at # "announcing" /\ \A d \in Handlers : d # c => handler'[d] = handler[d]
    BY <1>2, <2>1
  <2> HIDE DEF Line
  <2> QED
    BY <1>1, <2>1, <2>2, <2>3, <2>4, <2>5
<1>6. CASE CancelNotes(c)
  <2>1. /\ b \in Builds /\ pc[b] = "withdrawn" /\ UNCHANGED <<pc, record, reportStatus>>
        /\ ledger' = [ledger EXCEPT ![b] = Line(b)]
        /\ At(c, "announcing", b)
    BY <1>1, <1>6 DEF CancelNotes, HandlersFit, Publishing, WriteLedger
  <2>2. \A x \in Builds : Line(x)' = Line(x)
    BY <2>1
  <2> HIDE DEF Line
  <2>3. ledger'[b] = Line(b) /\ \A x \in Builds : x # b => ledger'[x] = ledger[x]
    BY <1>1, <2>1
  <2>4. \A x \in Builds : pc'[x] \in {"telling"} \cup Told => ledger'[x] = Line(x)'
    BY <1>1, <2>1, <2>2, <2>3
  <2>5. handler'[c].build = b /\ \A d \in Handlers : d # c => handler'[d] = handler[d]
    BY <1>2, <2>1
  <2>6. ASSUME NEW d \in Handlers, handler'[d].at = "announcing"
        PROVE  ledger'[handler'[d].build] = Line(handler'[d].build) /\ handler'[d].build = handler[d].build
               /\ handler'[d].build \in Builds
    BY <1>1, <2>1, <2>3, <2>5, <2>6
  <2>7. ASSUME NEW d \in Handlers, handler'[d].at = "announcing"
        PROVE  ledger'[handler'[d].build] = Line(handler[d].build)'
    BY <2>2, <2>6, <2>7 DEF Line
  <2> QED
    BY <2>4, <2>6, <2>7
<1>7. CASE CancelAnnounces(c)
  <2>1. /\ b \in Builds /\ UNCHANGED <<ledger, record, reportStatus>> /\ ledger[b] = Line(b)
        /\ \A x \in Builds : x # b => pc'[x] = pc[x]
        /\ At(c, "idle", None)
    BY <1>1, <1>7 DEF CancelAnnounces, Goto
  <2> QED
    BY <1>1, <1>2, <2>1
<1> QED
  BY <1>3, <1>4, <1>5, <1>6, <1>7 DEF HandlerStep

LEMMA LedgerStep ==
  ASSUME ~LedgerMayFail PROVE LedgerInv /\ [Next]_vars => LedgerInv'
<1> SUFFICES ASSUME LedgerInv, [Next]_vars PROVE LedgerInv'
  OBVIOUS
<1> DEFINE Announced(d) == handler[d].at = "announcing" => ledger[handler[d].build] = Line(handler[d].build)
           Noted(x) == pc[x] \in {"telling"} \cup Told => ledger[x] = Line(x)
<1>1. /\ TruthInv /\ IInv /\ HandlersFit /\ pc \in [Builds -> Steps]
      /\ handler \in [Handlers -> HandlerStates]
      /\ \A x \in Builds : Noted(x) /\ (x \notin Issued => pc[x] = "none")
      /\ \A d \in Handlers : /\ Announced(d)
                             /\ handler[d].at = "announcing" =>
                                  handler[d].build \in Builds /\ pc[handler[d].build] = "withdrawn"
  BY DEF LedgerInv, TruthInv, IInv, TypeOK, HandlersFit, Publishing, StepsFit, Fits
<1>2. ASSUME \A x \in Builds : Noted(x)', \A d \in Handlers : Announced(d)' PROVE LedgerInv'
  BY <1>1, <1>2, TruthStep DEF LedgerInv
<1>3. ASSUME NEW x \in Builds, Untouched(x) PROVE Noted(x)'
  BY <1>1, <1>3 DEF Untouched, Line
<1>4. ASSUME NEW d \in Handlers,
             handler'[d].at # "announcing" \/ (handler'[d] = handler[d] /\ Untouched(handler[d].build))
      PROVE  Announced(d)'
  BY <1>1, <1>4 DEF Untouched, Line
<1> HIDE DEF Announced, Noted
<1>5. ASSUME NEW b \in Builds, BuildStep(b), ~CompleteBuild(b) PROVE LedgerInv'
  <2>1. \A x \in Builds : Noted(x)'
    BY <1>1, <1>3, <1>5, OwnLedger, OthersUntouched DEF Noted
  <2>2. UNCHANGED handler /\ pc[b] # "withdrawn"
    BY <1>1, <1>5, OwnStep
  <2>3. \A d \in Handlers : Announced(d)'
    BY <1>1, <1>4, <1>5, <2>2, OthersUntouched
  <2> QED
    BY <1>2, <2>1, <2>3
<1>6. ASSUME NEW b \in Builds, CompleteBuild(b) PROVE LedgerInv'
  <2>1. UNCHANGED <<handler, record, reportStatus, ledger>> /\ pc[b] = "completing"
    BY <1>1, <1>6, Handover DEF CompleteBuild
  <2>2. \A i \in DOMAIN queue : queue[i] \in Builds
    BY <1>1 DEF IInv, TypeOK
  <2>3. \/ pc' = [pc EXCEPT ![b] = "closing"]
        \/ \E i \in DOMAIN queue : pc' = [pc EXCEPT ![b] = "closing", ![queue[i]] = "preparing"]
    BY <1>1, <1>6, Handover DEF Goto
  <2>4. \A x \in Builds : pc'[x] = pc[x] \/ x = b \/ pc'[x] = "preparing"
    BY <1>1, <2>2, <2>3
  <2>5. \A x \in Builds : Noted(x)'
    BY <1>1, <2>1, <2>4 DEF Noted, Line, Told
  <2>6. \A d \in Handlers : Announced(d)'
    BY <1>1, <2>1 DEF Announced, Line
  <2> QED
    BY <1>2, <2>5, <2>6
<1>7. ASSUME NEW c \in Handlers, HandlerStep(c) PROVE LedgerInv'
  <2>1. \A x \in Builds : Noted(x)'
    BY <1>7, HandlerLedger DEF Noted
  <2>2. \A d \in Handlers : Announced(d)'
    BY <1>7, HandlerLedger DEF Announced, Line
  <2> QED
    BY <1>2, <2>1, <2>2
<1>8. ASSUME NEW r \in Requests, NEW reports \in Callbacks, NEW b \in Builds, StartBuild(r, reports, b)
      PROVE  LedgerInv'
  <2>1. b \notin Issued /\ pc[b] = "none" /\ UNCHANGED handler
    BY <1>1, <1>8 DEF StartBuild
  <2>2. \A x \in Builds : x # b => Untouched(x)
    BY <1>1, <1>8 DEF StartBuild, Goto, Untouched, Issued, IInv, TypeOK
  <2>3. pc'[b] \in {"none", "preparing"}
    BY <1>1, <1>8, <2>1 DEF StartBuild, Goto
  <2>4. \A x \in Builds : Noted(x)'
    BY <1>3, <2>2, <2>3 DEF Noted, Told
  <2>5. \A d \in Handlers : Announced(d)'
    BY <1>1, <1>4, <2>1, <2>2
  <2> QED
    BY <1>2, <2>4, <2>5
<1>9. CASE MemoryLost
  <2>1. \A x \in Builds : Noted(x)'
    BY <1>9 DEF MemoryLost, Each, Noted, Told
  <2>2. \A d \in Handlers : Announced(d)'
    BY <1>9 DEF MemoryLost, IdleHandlers, Announced
  <2> QED
    BY <1>2, <2>1, <2>2
<1>10. ASSUME \A x \in Builds : Untouched(x),
              \A d \in Handlers :
                handler'[d] = handler[d] \/ handler'[d].at \in {"idle", "canceling", "refreshing"}
       PROVE  LedgerInv'
  <2>1. \A d \in Handlers : Announced(d)'
    BY <1>1, <1>4, <1>10
  <2> QED
    BY <1>2, <1>3, <1>10, <2>1
<1> QED
  BY <1>1, <1>5, <1>6, <1>7, <1>8, <1>9, <1>10, OtherActions


LEMMA LedgerAlways ==
  ASSUME ~LedgerMayFail PROVE Spec => []LedgerInv
<1>1. Init => LedgerInv
  <2> SUFFICES ASSUME Init PROVE LedgerInv
    OBVIOUS
  <2>1. \A b \in Builds : pc[b] \notin {"telling"} \cup Told
    BY DEF Init, FreshMemory, Each, Told
  <2>2. \A c \in Handlers : handler[c].at # "announcing"
    BY DEF Init, FreshMemory, IdleHandlers
  <2> QED
    BY <2>1, <2>2, InitTruth DEF LedgerInv
<1> QED
  BY <1>1, LedgerStep, PTL DEF Spec

\* With a ledger whose writes do not fail, the last line of a finished build is
\* its record and its report's outcome, also for a build canceled in the queue.
THEOREM LedgerIsFinal ==
  ASSUME ~LedgerMayFail PROVE Spec => []LedgerFinal
<1>1. LedgerInv => LedgerFinal
  BY DEF LedgerInv, LedgerFinal, Done, Told, Line
<1> QED
  BY <1>1, LedgerAlways, PTL

-----------------------------------------------------------------------------
\* A line once in the ledger is replaced by another line at most.
LEMMA LinesKept ==
  ASSUME TruthInv, [Next]_vars, NEW x \in Builds, ledger[x] # None PROVE ledger'[x] # None
<1>1. /\ IInv /\ \A b \in Builds : Truthful(b)
      /\ record \in [Builds -> Verdicts \cup {"none"}] /\ reportStatus \in [Builds -> ReportStates]
      /\ ledger \in [Builds -> LedgerLines \cup {None}]
  BY DEF TruthInv, IInv, TypeOK
<1>2. ASSUME pc[x] # "none", WriteLedger(x, record[x], reportStatus[x]) PROVE ledger'[x] # None
  <2>1. ledger[x].verdict = record[x] /\ ledger[x].verdict \in Verdicts
    BY <1>1, <1>2, OnTheWay DEF LedgerLines
  <2>2. [verdict |-> record[x], report |-> reportStatus[x]] \in LedgerLines
    BY <1>1, <2>1 DEF LedgerLines
  <2> QED
    BY <1>1, <1>2, <2>2, LineAssumption DEF WriteLedger
<1>3. ASSUME NEW b \in Builds, BuildStep(b) PROVE ledger'[x] # None
  <2>1. CASE CompleteBuild(b)
    BY <2>1 DEF CompleteBuild
  <2>2. CASE ~CompleteBuild(b) /\ x # b
    BY <1>1, <1>3, <2>2, OthersUntouched DEF Untouched
  <2>3. CASE ~CompleteBuild(b) /\ x = b
    <3>1. pc[x] # "none"
      BY <1>1, <1>3, <2>3, OwnStep
    <3>2. ledger' = ledger \/ WriteLedger(x, record[x], reportStatus[x])
      BY <1>3, <2>3 DEF BuildStep, PrepareFails, CommandStarts, CommandExits, CommandAnnounced,
         RecordSet, RecordWritten, ReportAttempt, ReportSettled, ReportNoted, ReportTold, DoneClosed,
         RunClosed
    <3> QED
      BY <1>2, <3>1, <3>2
  <2> QED
    BY <2>1, <2>2, <2>3
<1>4. ASSUME NEW c \in Handlers, HandlerStep(c) PROVE ledger'[x] # None
  <2>1. CASE x # handler[c].build
    BY <1>1, <1>4, <2>1, HandlerOthersUntouched DEF Untouched
  <2>2. CASE CancelNotes(c) /\ x = handler[c].build
    BY <1>1, <1>2, <2>2 DEF CancelNotes, IInv, HandlersFit, Publishing
  <2>3. CASE ~CancelNotes(c)
    BY <1>4, <2>3 DEF HandlerStep, CancelDequeues, CancelSignals, CancelRecords,
                      CancelAnnounces, AvailabilityRefreshes, RunsUnchanged
  <2> QED
    BY <2>1, <2>2, <2>3
<1>5. CASE \E r \in Requests, reports \in Callbacks, b \in Builds : StartBuild(r, reports, b)
  BY <1>5 DEF StartBuild
<1>6. CASE MemoryLost
  BY <1>6 DEF MemoryLost
<1>7. CASE Untouched(x)
  BY <1>7 DEF Untouched
<1> QED
  BY <1>1, <1>3, <1>4, <1>5, <1>6, <1>7, OtherActions

\* Only finished builds leave a memory that is not lost.
LEMMA OnlyFinishedPruned ==
  ASSUME TruthInv, [Next]_vars, ~MemoryLost, NEW x \in builds, x \notin builds'
  PROVE  Done(x) /\ UNCHANGED ledger
<1>1. ASSUME NEW b \in Builds, BuildStep(b) PROVE Done(x) /\ UNCHANGED ledger
  <2>1. CompleteBuild(b)
    BY <1>1, OwnStep DEF TruthInv
  <2> QED
    BY <2>1 DEF CompleteBuild, Pruned
<1>2. UNCHANGED builds => FALSE
  OBVIOUS
<1>3. CASE \E c \in Handlers : HandlerStep(c)
  BY <1>2, <1>3 DEF HandlerStep, CancelDequeues, CancelSignals, CancelRecords, CancelNotes,
                    CancelAnnounces, AvailabilityRefreshes, RunsUnchanged
<1>4. CASE \E r \in Requests, reports \in Callbacks, b \in Builds : StartBuild(r, reports, b)
  BY <1>4 DEF StartBuild
<1>5. CASE (\E c \in Clients, b \in Builds : CancelAccepted(c, b))
             \/ (\E c \in Clients, value \in BOOLEAN : SetAccepting(c, value))
  BY <1>2, <1>5 DEF CancelAccepted, SetAccepting, RunsUnchanged
<1>6. CASE BeginShutdown \/ Restart \/ UNCHANGED vars
  BY <1>2, <1>6 DEF BeginShutdown, Restart, vars, memory
<1>7. CASE \E b \in Builds : ShutdownCancels(b) \/ ShutdownAwaits(b)
  BY <1>2, <1>7 DEF ShutdownCancels, ShutdownAwaits
<1> QED
  BY <1>1, <1>3, <1>4, <1>5, <1>6, <1>7 DEF Next, Exit, Crash

\* While the process lives and its ledger can be written, a verdict the status
\* endpoint has shown is what it shows ever after: the run that is pruned from
\* memory is one whose line in the ledger says the same.
THEOREM VerdictVisible ==
  ASSUME ~LedgerMayFail, Stops = {} PROVE Spec => VerdictStaysVisible
<1>1. (TruthInv => \A b \in Builds :
         /\ Observed(b) \in Verdicts <=>
              IF b \in builds THEN record[b] # "none" ELSE ledger[b] # None
         /\ Observed(b) \in Verdicts =>
              Observed(b) = IF b \in builds THEN record[b] ELSE ledger[b].verdict
         /\ Observed(b) \notin Verdicts /\ b \notin builds => Observed(b) = "unknown")'
  BY VerdictShown, PTL
<1>2. Init => phase = "up"
  BY DEF Init
<1>3. phase = "up" /\ [Next]_vars => (phase = "up")' /\ ~MemoryLost
  <2> SUFFICES ASSUME phase = "up", [Next]_vars PROVE phase' = "up"
    BY DEF MemoryLost
  <2>1. ~Exit /\ ~Crash /\ ~BeginShutdown /\ ~Restart
    BY DEF Exit, Crash, BeginShutdown, Restart
  <2> QED
    BY <2>1 DEF Next, StartBuild, BuildStep, PrepareFails, CommandStarts, CommandExits, CommandAnnounced,
       RecordSet, RecordWritten, ReportAttempt, ReportSettled, ReportNoted, ReportTold, CompleteBuild,
       DoneClosed, RunClosed, QueueUnchanged, HandlerStep, CancelDequeues, CancelSignals, CancelRecords,
       CancelNotes, CancelAnnounces, AvailabilityRefreshes, RunsUnchanged, CancelAccepted, SetAccepting,
       ShutdownCancels, ShutdownAwaits, vars
<1>4. TruthInv /\ LedgerInv /\ phase = "up" /\ [Next]_vars =>
        [\A b \in Builds : Observed(b) \in Verdicts => Observed(b)' = Observed(b)]_vars
  <2> SUFFICES ASSUME TruthInv, LedgerInv, phase = "up", [Next]_vars,
                      NEW b \in Builds, Observed(b) \in Verdicts
               PROVE  Observed(b)' = Observed(b)
    OBVIOUS
  <2>0. ~MemoryLost
    BY <1>3
  <2>1. TruthInv'
    BY TruthStep
  <2>2. b \in Issued
    <3>1. b \in builds => b \in Issued
      BY DEF TruthInv, IInv, TypeOK
    <3>2. ledger[b] # None => b \in Issued
      BY UnissuedUnsaid DEF TruthInv
    <3> QED
      BY <3>1, <3>2, VerdictShown
  <2>3. /\ record[b] # "none" => record'[b] = record[b]
        /\ ledger[b] # None => ledger'[b] # None /\ ledger'[b].verdict = ledger[b].verdict
        /\ b \in builds' => b \in builds
    BY <2>0, <2>2, VerdictsKept, LinesKept
  <2>4. CASE b \in builds'
    <3>1. record[b] # "none" /\ record'[b] # "none"
      BY <2>3, <2>4, VerdictShown
    <3> QED
      BY <1>1, <2>1, <2>3, <2>4, <3>1, VerdictShown
  <2>5. CASE b \notin builds /\ b \notin builds'
    BY <1>1, <2>1, <2>3, <2>5, VerdictShown
  <2>6. CASE b \in builds /\ b \notin builds'
    <3>1. record[b] # "none" /\ Observed(b) = record[b]
      BY <2>6, VerdictShown
    <3>2. Done(b) /\ UNCHANGED ledger
      BY <2>0, <2>6, OnlyFinishedPruned
    <3>3. ledger[b] = Line(b) /\ Line(b) \in LedgerLines
      BY <3>1, <3>2 DEF LedgerInv, TruthInv, IInv, TypeOK, Done, Told, Line, LedgerLines
    <3>4. ledger'[b] # None /\ ledger'[b].verdict = record[b]
      BY <3>2, <3>3, LineAssumption DEF Line
    <3> QED
      BY <1>1, <2>1, <2>6, <3>1, <3>4
  <2> QED
    BY <2>4, <2>5, <2>6
<1>5. Spec => []LedgerInv
  BY LedgerAlways
<1> QED
  BY <1>2, <1>3, <1>4, <1>5, TruthAlways, PTL DEF Spec, VerdictStaysVisible

=============================================================================
