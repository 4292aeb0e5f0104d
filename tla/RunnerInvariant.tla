-------------------------- MODULE RunnerInvariant --------------------------
(***************************************************************************)
(* The inductive invariant of RunnerBuilds: what every goroutine relies on *)
(* when it takes its next step, whatever the others have done in between.  *)
(***************************************************************************)
EXTENDS RunnerBuilds

\* Steps at which the outcome of the command is on record, and at which the
\* outcome of its report is.
Decided == {"recorded", "reporting", "settling", "noting", "telling", "completing",
            "closing", "done", "closed"}
Settled == {"noting", "telling", "completing", "closing", "done", "closed"}

\* Steps only finishBuildRun takes: a build canceled in the queue never does.
OnlyStarted == {"preparing", "running", "exited", "cleanup", "recorded", "completing"}

\* What the place of a build's goroutine says about the build's data.
Fits(b) ==
  /\ pc[b] \in {"exited", "cleanup"} => result[b] \in Verdicts \cup {"timed out"}
  /\ pc[b] \in {"settling", "noting", "telling"} => result[b] \in {"reported", "report failed"}
  /\ pc[b] \in Decided => record[b] # "none"
  /\ pc[b] \in Settled => reportStatus[b] # "pending"
  /\ reportStatus[b] = "pending" => b \in withReport
  /\ pc[b] \in OnlyStarted => b \in started
  /\ b \in started => pc[b] \notin {"none", "withdrawn"}
  /\ record[b] # "none" => pc[b] # "none"
  /\ b \notin Issued => pc[b] = "none"

StepsFit == \A b \in Builds : Fits(b)

\* A handler that publishes the record of a build it took out of the queue.
Publishing == {"recording", "noting", "announcing"}

\* What the place of a handler says about its build: it is alone in publishing
\* the record of a withdrawn build.
HandlersFit ==
  \A c \in Handlers :
    /\ handler[c].at \in {"canceling", "signalling"} \cup Publishing => handler[c].build \in Builds
    /\ handler[c].at \in Publishing => pc[handler[c].build] = "withdrawn"
    /\ handler[c].at \in {"noting", "announcing"} => record[handler[c].build] # "none"
    /\ \A d \in Handlers :
         handler[c].at \in Publishing /\ handler[d].at \in Publishing
           /\ handler[c].build = handler[d].build => c = d

IInv == TypeOK /\ StepsFit /\ HandlersFit /\ SlotHeld /\ QueueSound


-----------------------------------------------------------------------------
\* A build whose process has ended: accepted, and no longer in memory.
Lost(b) == b \in Issued /\ b \notin builds /\ pc[b] = "none"

\* The record of a build is set once: not before its command's outcome is
\* known, and by the canceling handler alone for a build it has withdrawn.
RecordDue(b) ==
  /\ pc[b] \in {"preparing", "running", "exited", "cleanup"} => record[b] = "none"
  /\ pc[b] = "withdrawn" => record[b] \in {"none", "canceled"}

\* What CI and the ledger know of a build is what its record says, unless the
\* record was lost with its process; "reported" is said of reports received.
Truthful(b) ==
  /\ \A v \in Verdicts : <<b, v>> \in receipts => record[b] = v \/ Lost(b)
  /\ \A v, w \in Verdicts : <<b, v>> \in receipts /\ <<b, w>> \in receipts => v = w
  /\ ledger[b] # None => record[b] = ledger[b].verdict \/ Lost(b)
  /\ ledger[b] # None => \A v \in Verdicts : <<b, v>> \in receipts => v = ledger[b].verdict
  /\ ledger[b] # None /\ ledger[b].report = "reported" => <<b, ledger[b].verdict>> \in receipts
  /\ result[b] = "reported" => pc[b] \in {"settling", "noting", "telling"} /\ <<b, record[b]>> \in receipts
  /\ reportStatus[b] = "reported" => <<b, record[b]>> \in receipts

RecordingFits == \A c \in Handlers : handler[c].at = "recording" => record[handler[c].build] = "none"

TruthInv ==
  /\ IInv
  /\ \A b \in Builds : RecordDue(b) /\ Truthful(b)
  /\ RecordingFits

-----------------------------------------------------------------------------
\* The terminal event m names the verdict v of build b, or it is the cancel
\* that arrived between the two readings of the context.
Names(m, v, b) == m = v \/ (m = "canceled" /\ v = "failed" /\ b \in canceled)

\* The outcome of the report as the stream words it.
ReportEvent(b) == IF reportStatus[b] = "reported" THEN "reported" ELSE "report failed"

Reporting == {"reporting", "settling", "noting", "telling"}
Told == {"completing", "closing", "done", "closed"}

\* What the stream of a build holds, by the place of its goroutine.
StreamFits(b) ==
  /\ pc[b] \in {"none", "preparing", "running", "exited", "withdrawn"} => stream[b] = <<>>
  /\ pc[b] = "cleanup" =>
       /\ Len(stream[b]) = 1
       /\ Names(stream[b][1], IF result[b] = "timed out" THEN "failed" ELSE result[b], b)
  /\ pc[b] \in Decided => Names(stream[b][1], record[b], b)
  /\ pc[b] \in Reporting \cup {"recorded"} => Len(stream[b]) = 1
  /\ pc[b] \in Reporting => b \in withReport
  /\ pc[b] \in {"noting", "telling"} => result[b] = ReportEvent(b)
  /\ pc[b] \in Told => IF b \in withReport
                       THEN Len(stream[b]) = 2 /\ stream[b][2] = ReportEvent(b)
                       ELSE Len(stream[b]) = 1

StreamInv == TruthInv /\ \A b \in Builds : StreamFits(b)

\* The ledger line that says what memory says.
Line(b) == [verdict |-> record[b], report |-> reportStatus[b]]

\* With writes that do not fail, the line is up to date once the outcome of the
\* report is noted, and before a canceling handler announces its record.
LedgerInv ==
  /\ TruthInv
  /\ \A b \in Builds : pc[b] \in {"telling"} \cup Told => ledger[b] = Line(b)
  /\ \A c \in Handlers : handler[c].at = "announcing" =>
       ledger[handler[c].build] = Line(handler[c].build)

-----------------------------------------------------------------------------
\* A build whose goroutine, or whose canceling handler, is at work is retained.
Remembered(b) == pc[b] \notin {"none", "done", "closed"} => b \in builds

\* A callback is owed from the acceptance of a build until its outcome is settled.
ReportOwed(b) ==
  b \in withReport /\ b \in builds /\ pc[b] \notin Settled => reportStatus[b] = "pending"

ServiceInv ==
  /\ StreamInv
  /\ withReport \subseteq Issued
  /\ \A b \in Builds : Remembered(b) /\ ReportOwed(b)

=============================================================================
