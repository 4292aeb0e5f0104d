----------------------------- MODULE BuildStream -----------------------------
(***************************************************************************)
(* One build as the outside sees it: its event stream (buildStream in      *)
(* internal/agent/build.go), the handler of GET .../logs that follows the  *)
(* stream, and the status endpoint.                                        *)
(*                                                                         *)
(* The goroutine of the build is that of RunnerBuilds, told by the points  *)
(* at which the stream, the record or the report status change.  The       *)
(* handler copies events under the stream's lock and writes the copy after *)
(* it, while the build goes on writing.                                    *)
(***************************************************************************)
EXTENDS Integers, Sequences

CONSTANTS
  Retained,   \* maxRetainedBuildEvents, 5000 in the code
  MaxLogs,    \* bound: the events other than verdict and report of a build
  Callbacks,  \* whether builds have a report_url: some do (TRUE), some do not (FALSE)
  MayCrash,   \* whether the runner may die
  MayBreak    \* how a connection may go: "cut" by something between, or "reset"

ASSUME StreamAssumption ==
  /\ Retained \in Nat /\ Retained >= 2
  /\ MaxLogs \in Nat
  /\ Callbacks \subseteq BOOLEAN
  /\ MayCrash \in BOOLEAN
  /\ MayBreak \subseteq {"cut", "reset"}

VARIABLES
  phase,       \* of the build: "absent", "queued", "withdrawn", "running", "exited",
               \* "reporting", "settled", "noted", "done" (the channel is closed), "lost" (in a crash)
  events,      \* every event ever written, by kind; stream.events is its end
  withReport,  \* whether the build has a report_url
  canceled,    \* whether the build's context has been canceled
  record,      \* run.record by its verdict, or "none"; also what the ledger says
  report,      \* run.reportStatus, also what the ledger says
  remembered,  \* whether the run is in agent.builds
  conn         \* the handler that follows the stream, and its locals

build == <<phase, events, withReport, canceled, record, report, remembered>>
stream == <<build, conn>>

Verdicts == {"passed", "failed", "canceled"}
Kinds == {"log", "reported", "report failed"} \cup Verdicts

-----------------------------------------------------------------------------
\* buildStream.

Written == Len(events)

\* The sequence number of stream.events[0].
First == IF Written > Retained THEN Written - Retained + 1 ELSE 1

Emit(kind) == events' = Append(events, kind)

ConnStates == {"closed", "looking", "sending", "draining", "over", "cut", "reset"}
Following == conn.at \in {"looking", "sending", "draining"}
Closed == [at |-> "closed", next |-> 0, notice |-> 0, upto |-> 0]

\* eventsAfter: the events next+1..Written, or what is left of them after the
\* notice (notice > 0) that all before are gone.
Copy(c, where) ==
  [at |-> where, next |-> c.next, upto |-> Written,
   notice |-> IF Written > 0 /\ c.next < First - 1 THEN First - 1 ELSE 0]

StreamInit ==
  /\ phase = "absent" /\ events = <<>> /\ canceled = FALSE
  /\ withReport \in Callbacks
  /\ record = "none" /\ report = "none" /\ remembered = FALSE
  /\ conn = Closed

-----------------------------------------------------------------------------
\* The build.

\* startBuildRun, with the slot free or taken; a repeated request finds the run.
Accepted ==
  IF phase = "absent"
  THEN /\ phase' \in {"queued", "running"}
       /\ remembered' = TRUE
       /\ report' = IF withReport THEN "pending" ELSE "none"
       /\ UNCHANGED <<events, withReport, canceled, record>>
  ELSE UNCHANGED build

\* completeBuild of another build starts this one.
LeaveQueue ==
  /\ phase = "queued"
  /\ phase' = "running"
  /\ UNCHANGED <<events, withReport, canceled, record, report, remembered, conn>>

WriteLog ==
  /\ phase \in {"queued", "running", "exited"}
  /\ Written < MaxLogs
  /\ Emit("log")
  /\ UNCHANGED <<phase, withReport, canceled, record, report, remembered, conn>>

\* runJob writes the terminal event and returns the record.
Exit(verdict) ==
  /\ phase = "running"
  /\ verdict = "canceled" => canceled
  /\ Emit(verdict)
  /\ phase' = "exited"
  /\ UNCHANGED <<withReport, canceled, record, report, remembered, conn>>

LastVerdict == CHOOSE v \in Verdicts : \E i \in 1..Written : events[i] = v
HasVerdict == \E i \in 1..Written : events[i] \in Verdicts

\* finishBuildRun publishes the record.  The terminal event and the record read
\* the context at different times, so a failed command may be "canceled" in one.
Recorded ==
  /\ phase = "exited"
  /\ record' \in {LastVerdict} \cup (IF LastVerdict = "canceled" THEN {"failed"} ELSE {})
  /\ phase' = IF withReport THEN "reporting" ELSE "noted"
  /\ UNCHANGED <<events, withReport, canceled, report, remembered, conn>>

\* reportBuild is over: setReportStatus, and the second line of the ledger.
ReportSettled(ok) ==
  /\ phase = "reporting"
  /\ report' = IF ok THEN "reported" ELSE "failed"
  /\ phase' = "settled"
  /\ UNCHANGED <<events, withReport, canceled, record, remembered, conn>>

ReportNoted ==
  /\ phase = "settled"
  /\ Emit(IF report = "failed" THEN "report failed" ELSE "reported")
  /\ phase' = "noted"
  /\ UNCHANGED <<withReport, canceled, record, report, remembered, conn>>

\* close(run.done)
Close ==
  /\ phase = "noted"
  /\ phase' = "done"
  /\ UNCHANGED <<events, withReport, canceled, record, report, remembered, conn>>

\* completeBuild of another build deletes this one.
Prune ==
  /\ phase = "done" /\ remembered
  /\ remembered' = FALSE
  /\ UNCHANGED <<phase, events, withReport, canceled, record, report, conn>>

\* The runner dies; another one knows the ledger only.
Crash ==
  /\ MayCrash
  /\ remembered \/ Following
  /\ phase' = IF phase = "done" THEN "done" ELSE "lost"
  /\ remembered' = FALSE
  /\ conn' = IF Following THEN [conn EXCEPT !.at = "reset"] ELSE conn
  /\ UNCHANGED <<events, withReport, canceled, record, report>>

\* cancelBuild: of a build in the queue it publishes the record, then the event;
\* one with a record is not canceled any more.
CancelCall ==
  IF ~remembered \/ record # "none" THEN UNCHANGED build
  ELSE /\ canceled' = TRUE
       /\ IF phase = "queued"
          THEN /\ record' = "canceled"
               /\ phase' = "withdrawn"
          ELSE UNCHANGED <<phase, record>>
       /\ UNCHANGED <<events, withReport, report, remembered>>

\* Somebody else cancels: the app, another client or the runner's shutdown.
CanceledElsewhere == CancelCall /\ UNCHANGED conn

WithdrawalTold ==
  /\ phase = "withdrawn"
  /\ Emit("canceled")
  /\ phase' = IF withReport THEN "reporting" ELSE "noted"
  /\ UNCHANGED <<withReport, canceled, record, report, remembered, conn>>

BuildNext ==
  \/ LeaveQueue \/ WriteLog \/ Recorded \/ ReportNoted \/ Close \/ WithdrawalTold
  \/ \E v \in Verdicts : Exit(v)
  \/ \E ok \in BOOLEAN : ReportSettled(ok)

-----------------------------------------------------------------------------
\* tailBuildLogs and writeTo.  What it writes is taken to be read at once: what
\* is on the way when a connection goes is as if it had not been written.
\* Keepalives have no sequence number and change nothing.

Opened(after) == [Closed EXCEPT !.at = "looking", !.next = after]

Look ==
  /\ conn.at = "looking"
  /\ conn' = Copy(conn, "sending")
  /\ UNCHANGED build

\* The copy is written; the select waits for the ticker or the done channel.
CopyWritten == conn.notice = 0 /\ conn.next >= conn.upto

Ticked ==
  /\ conn.at = "sending" /\ CopyWritten
  /\ conn' = [conn EXCEPT !.at = "looking"]
  /\ UNCHANGED build

\* Mutant of DoneSeen: it returns without looking once more.
DoneSeenAndReturned ==
  /\ conn.at = "sending" /\ CopyWritten
  /\ phase = "done"
  /\ conn' = [conn EXCEPT !.at = "over"]
  /\ UNCHANGED build

DoneSeen ==
  /\ conn.at = "sending" /\ CopyWritten
  /\ phase = "done"
  /\ conn' = Copy(conn, "draining")
  /\ UNCHANGED build

Drained ==
  /\ conn.at = "draining" /\ CopyWritten
  /\ conn' = [conn EXCEPT !.at = "over"]
  /\ UNCHANGED build

\* A proxy ends the response early, cleanly or not.
ConnectionGoes(how) ==
  /\ how \in MayBreak
  /\ Following
  /\ conn' = [conn EXCEPT !.at = how]
  /\ UNCHANGED build

HandlerNext == Look \/ Ticked \/ DoneSeen \/ Drained

\* What the handler writes next, if anything, and where that leaves it.
Sending == conn.at \in {"sending", "draining"}
Item == IF conn.notice > 0 THEN [seq |-> conn.notice, gap |-> TRUE]
        ELSE [seq |-> conn.next + 1, gap |-> FALSE]
ItemSent == conn' = [conn EXCEPT !.next = Item.seq, !.notice = 0]

StreamTypeOK ==
  /\ phase \in {"absent", "queued", "withdrawn", "running", "exited", "reporting",
                "settled", "noted", "done", "lost"}
  /\ events \in Seq(Kinds)
  /\ {withReport, canceled, remembered} \subseteq BOOLEAN
  /\ record \in Verdicts \cup {"none"}
  /\ report \in {"none", "pending", "reported", "failed"}
  /\ conn \in [at : ConnStates, next : Nat, notice : Nat, upto : Nat]

=============================================================================
