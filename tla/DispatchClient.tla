--------------------------- MODULE DispatchClient ---------------------------
(***************************************************************************)
(* The dispatch command of CI in direct mode (internal/dispatch/client.go, *)
(* cmd/transwarp-dispatch) beside the runner it talks to: start a build or *)
(* take an existing one, follow its log over as many connections as it     *)
(* takes, and end with an exit code.                                       *)
(*                                                                         *)
(* Any request may fail on its way there or back; doDispatchRequest then   *)
(* repeats it if the base URL is public.  The interrupt stands for SIGINT, *)
(* SIGTERM and the timeout alike: they end the command's context.          *)
(***************************************************************************)
EXTENDS BuildStream

CONSTANTS
  Modes,       \* what the command is run for: to "start" a build, to "tail" one
  Afters,      \* values of -after, when tailing
  Retries,     \* len(dispatchRetryDelays), 3 in the code; 0 without a public base URL
  MayFail,     \* whether requests may fail
  MayInterrupt \* whether the command may be interrupted

ASSUME ClientAssumption ==
  /\ Modes \subseteq {"start", "tail"}
  /\ Afters \subseteq Nat
  /\ Retries \in Nat
  /\ {MayFail, MayInterrupt} \subseteq BOOLEAN

VARIABLES
  at,           \* where the command is
  from,         \* request.AfterSequence
  after,        \* local variable of tailWithResult
  last,         \* readEvents: lastSequence
  heard,        \* readEvents: the verdict of this connection, or "none"
  failure,      \* readEvents: whether this connection told of a failed report
  result,       \* tailWithResult: result.Status, or "none"
  reportError,  \* tailWithResult: whether result.Error tells of a failed report
  tries,        \* doDispatchRequest: attempts that failed
  interrupted,  \* whether the context has ended
  outcome,      \* what the command exits with, or "none"
  printed,      \* history: what it printed, in order
  heardOut      \* history: whether the last connection was read to the handler's end

client == <<at, from, after, last, heard, failure, result, reportError, tries,
            interrupted, outcome, printed, heardOut>>
local == <<after, last, heard, failure, result, reportError>>
vars == <<stream, client>>

-----------------------------------------------------------------------------
Max2(a, b) == IF a >= b THEN a ELSE b

\* terminalRunResult
Terminal(r, e) == r # "none" \/ e

\* Mutant of Verdict: a canceled build has no case of its own.
VerdictOrNil(r, e) == IF e THEN "report failed" ELSE IF r = "canceled" THEN "passed" ELSE r

\* runResultError: exit code 0 for "passed" only.
Verdict(r, e) == IF e THEN "report failed" ELSE r

Ends(o) == at' = "done" /\ outcome' = o
GoesTo(where) == at' = where /\ UNCHANGED outcome

Init ==
  /\ StreamInit
  /\ \E mode \in Modes :
       IF mode = "start" THEN at = "starting" /\ from = 0
       ELSE at = "preflight" /\ from \in Afters
  /\ after = from
  /\ last = 0 /\ heard = "none" /\ failure = FALSE
  /\ result = "none" /\ reportError = FALSE
  /\ tries = 0 /\ interrupted = FALSE /\ outcome = "none"
  /\ printed = <<>> /\ heardOut = FALSE

\* SIGINT, SIGTERM or the timeout.
Interrupt ==
  /\ MayInterrupt
  /\ at # "done"
  /\ interrupted' = TRUE
  /\ UNCHANGED <<stream, at, from, local, tries, outcome, printed, heardOut>>

-----------------------------------------------------------------------------
\* Requests.  One that fails is repeated until Retries are used up; the last
\* failure is the caller's.

Request(where) == at = where /\ tries' = 0
History == UNCHANGED <<from, interrupted, printed, heardOut>>

\* shouldRetryDispatchAttempt and shouldRetryDispatchResponse.  The request may
\* have reached the runner; only starting a build changes anything there.
RequestRepeated ==
  /\ MayFail
  /\ ~interrupted \/ at = "canceling"
  /\ at \in {"starting", "preflight", "asking", "checking", "canceling"}
  /\ tries < Retries
  /\ tries' = tries + 1
  /\ \/ UNCHANGED stream
     \/ at = "starting" /\ Accepted /\ UNCHANGED conn
     \/ at = "canceling" /\ CancelCall /\ UNCHANGED conn
  /\ UNCHANGED <<at, local, outcome>>
  /\ History

\* The last attempt fails too, or the context has ended.
Fails == (MayFail /\ tries >= Retries) \/ interrupted

\* Start: the runner answers 202 with the build ID.
Started ==
  /\ Request("starting")
  /\ Accepted
  /\ GoesTo("asking")
  /\ UNCHANGED <<conn, local>>
  /\ History

\* Start fails; the build may have been accepted all the same.
StartFails ==
  /\ Request("starting")
  /\ Fails
  /\ UNCHANGED stream \/ (Accepted /\ UNCHANGED conn)
  /\ Ends("start failed")
  /\ UNCHANGED local
  /\ History

\* The build another command started.
ElsewhereStarted ==
  /\ phase = "absent" /\ at = "preflight"
  /\ Accepted
  /\ UNCHANGED <<conn, client>>

\* What follows GetStatus: a preflight goes on to the log, a check returns if the
\* result is terminal.
Checked(r, e) ==
  /\ result' = r /\ reportError' = e
  /\ IF at = "checking" /\ Terminal(r, e) THEN Ends(Verdict(r, e)) ELSE GoesTo("asking")

\* Mutant of StatusAnswered: a build that still runs has a result too.
StatusTaken ==
  /\ at \in {"preflight", "checking"} /\ tries' = 0
  /\ phase # "absent"
  /\ Checked(IF record # "none" THEN record ELSE "running", report = "failed")
  /\ UNCHANGED <<stream, after, last, heard, failure>>
  /\ History

\* Mutant of StatusAnswered: a connection without a verdict is always followed by
\* another one.
StatusIgnored ==
  /\ at \in {"preflight", "checking"} /\ tries' = 0
  /\ phase # "absent"
  /\ GoesTo("asking")
  /\ UNCHANGED <<stream, after, last, heard, failure, result, reportError>>
  /\ History

\* mergeStatusResult: only a terminal status counts.  It comes from the run in
\* memory or from the ledger; without either the answer is 404.
StatusAnswered ==
  /\ at \in {"preflight", "checking"} /\ tries' = 0
  /\ phase # "absent"
  /\ IF record # "none"
     THEN Checked(record, report = "failed")
     ELSE Checked(result, reportError)
  /\ UNCHANGED <<stream, after, last, heard, failure>>
  /\ History

StatusFails ==
  /\ at \in {"preflight", "checking"} /\ tries' = 0
  /\ Fails
  /\ Checked(result, reportError)
  /\ UNCHANGED <<stream, after, last, heard, failure>>
  /\ History

\* GET .../logs: the runner has the run and the stream begins, ...
LogOpened ==
  /\ Request("asking")
  /\ remembered
  /\ conn' = Opened(after)
  /\ GoesTo("reading")
  /\ last' = 0 /\ heard' = "none" /\ failure' = FALSE
  /\ UNCHANGED <<build, after, result, reportError>>
  /\ History

\* ... or it answers 404, and what is known already has to do, ...
LogRefused ==
  /\ Request("asking")
  /\ ~remembered
  /\ Ends(IF Terminal(result, reportError) THEN Verdict(result, reportError) ELSE "tail failed")
  /\ UNCHANGED <<stream, local>>
  /\ History

\* ... or the request fails, with an error or with a 5xx answer.
LogFails ==
  /\ Request("asking")
  /\ Fails
  /\ \/ IF interrupted THEN GoesTo("canceling") ELSE Ends("tail failed")
     \/ ~interrupted /\ Terminal(result, reportError) /\ Ends(Verdict(result, reportError))
  /\ UNCHANGED <<stream, local>>
  /\ History

\* Mutant of Canceled: the request is made with the context that has ended.
CanceledInContext ==
  /\ Request("canceling")
  /\ UNCHANGED stream
  /\ Ends("interrupted")
  /\ UNCHANGED local
  /\ History

\* Cancel with a context of its own, whatever comes of it.
Canceled ==
  /\ Request("canceling")
  /\ \/ CancelCall /\ UNCHANGED conn /\ Ends("interrupted")
     \/ MayFail /\ tries >= Retries /\ UNCHANGED stream /\ Ends("cancel failed")
  /\ UNCHANGED local
  /\ History

-----------------------------------------------------------------------------
\* readEvents.

\* Mutant of ItemRead: the sequence number of a notice is not kept.
ItemReadSkippingNotices ==
  /\ at = "reading" /\ Sending /\ ~CopyWritten
  /\ ItemSent
  /\ last' = IF Item.gap THEN last ELSE Max2(last, Item.seq)
  /\ LET kind == IF Item.gap THEN "info" ELSE events[Item.seq] IN
       /\ heard' = IF kind \in Verdicts THEN kind ELSE heard
       /\ failure' = (failure \/ kind = "report failed")
  /\ printed' = Append(printed, Item)
  /\ UNCHANGED <<build, at, from, after, result, reportError, tries, interrupted, outcome, heardOut>>

ItemRead ==
  /\ at = "reading" /\ Sending /\ ~CopyWritten
  /\ ItemSent
  /\ last' = Max2(last, Item.seq)
  /\ LET kind == IF Item.gap THEN "info" ELSE events[Item.seq] IN
       /\ heard' = IF kind \in Verdicts THEN kind ELSE heard
       /\ failure' = (failure \/ kind = "report failed")
  /\ printed' = Append(printed, Item)
  /\ UNCHANGED <<build, at, from, after, result, reportError, tries, interrupted, outcome, heardOut>>

\* mergeTailResult, and after = lastSequence.
Merged ==
  /\ after' = Max2(after, last)
  /\ result' = IF heard # "none" THEN heard ELSE result
  /\ reportError' = IF heard # "none" THEN failure ELSE reportError
  /\ UNCHANGED <<last, heard, failure>>

\* The response ends, by the handler or by something between: the verdict, if
\* this connection told one; without one the status is asked for.
StreamEnds ==
  /\ at = "reading"
  /\ conn.at \in {"over", "cut"}
  /\ conn' = Closed
  /\ Merged
  /\ IF ~failure /\ heard = "passed" THEN Ends("passed")
     ELSE IF interrupted THEN GoesTo("canceling")
     ELSE IF failure \/ heard # "none" THEN Ends(Verdict(heard, failure))
     ELSE GoesTo("checking")
  /\ heardOut' = (conn.at = "over")
  /\ UNCHANGED <<build, from, tries, interrupted, printed>>

\* The scanner reports an error: a broken connection, or the context's end.
ReadFails ==
  /\ at = "reading"
  /\ interrupted \/ conn.at = "reset"
  /\ conn' = Closed
  /\ after' = Max2(after, last)
  /\ result' = IF heard # "none" THEN heard ELSE result
  /\ IF interrupted THEN GoesTo("canceling") ELSE Ends("tail failed")
  /\ UNCHANGED <<build, from, last, heard, failure, reportError, tries, interrupted, printed, heardOut>>

-----------------------------------------------------------------------------
ClientNext ==
  \/ Started \/ StartFails \/ StatusAnswered \/ StatusFails
  \/ LogOpened \/ LogRefused \/ LogFails \/ Canceled
  \/ ItemRead \/ StreamEnds \/ ReadFails

RunnerNext ==
  \/ BuildNext \/ CanceledElsewhere \/ Prune \/ Crash
  \/ HandlerNext \/ \E how \in {"cut", "reset"} : ConnectionGoes(how)

Next ==
  \/ RunnerNext /\ UNCHANGED client
  \/ ElsewhereStarted \/ Interrupt \/ RequestRepeated \/ ClientNext

Spec == Init /\ [][Next]_vars

\* Goroutines that can run do.  A build ends, because the runner limits it and
\* empties its queue.  writeTo's select takes the done channel once it is closed,
\* however often the ticker fires, because it chooses among what is ready at
\* random.  A status request that is made again and again is answered at last.
Fairness ==
  /\ WF_vars(BuildNext /\ UNCHANGED client)
  /\ WF_vars(HandlerNext /\ UNCHANGED client)
  /\ SF_vars(DoneSeen /\ UNCHANGED client)
  /\ WF_vars(ElsewhereStarted)
  /\ WF_vars(ClientNext)
  /\ SF_vars(StatusAnswered)

FairSpec == Spec /\ Fairness

-----------------------------------------------------------------------------
(***************************************************************************)
(* Properties.                                                             *)
(***************************************************************************)
Outcomes == {"none", "start failed", "tail failed", "report failed", "interrupted",
             "cancel failed"} \cup Verdicts

TypeOK ==
  /\ StreamTypeOK
  /\ at \in {"starting", "preflight", "asking", "reading", "checking", "canceling", "done"}
  /\ {from, after, last, tries} \subseteq Nat
  /\ {heard, result} \subseteq Verdicts \cup {"none"}
  /\ {failure, reportError, interrupted, heardOut} \subseteq BOOLEAN
  /\ outcome \in Outcomes
  /\ printed \in Seq([seq : Nat, gap : BOOLEAN])

\* The command prints what the log promises: over all its connections, every
\* event once and in order, but for announced gaps before the retained events.
Promised == INSTANCE BuildLog WITH written <- Written, output <- printed
LogKept == Promised!Spec

\* Why LogKept holds: the connection goes on where the output ends, and what it
\* has still to write is in the log, a notice only before the retained events.
LogInv ==
  /\ events \in Seq(Kinds)
  /\ printed \in Seq([seq : Nat, gap : BOOLEAN])
  /\ from \in Nat /\ after \in Nat /\ last \in Nat
  /\ conn \in [at : ConnStates, next : Nat, notice : Nat, upto : Nat]
  /\ IF at = "reading"
     THEN /\ Max2(after, last) = Promised!Position
          /\ Following => conn.next = Promised!Position
     ELSE after = Promised!Position /\ ~Following
  /\ Sending =>
       /\ conn.upto <= Written
       /\ conn.notice > 0 => conn.next < conn.notice /\ conn.notice <= Written - Retained

\* Exit code 0 means that the build passed, whichever of the stream, the status
\* of the run and the ledger the command has it from.
SuccessGenuine ==
  outcome = "passed" =>
    /\ record \in {"none", "passed"}
    /\ \E i \in 1..Written : events[i] = "passed"

\* A command that has read the log to its end does not succeed over a report
\* that failed: the report's outcome is in the stream before the stream ends.
ReportFailureShown == outcome = "passed" /\ heardOut => report # "failed"

\* An interrupted command leaves no work behind that nobody has canceled, unless
\* it was interrupted before it knew the build, or could not reach the runner.
NoWorkLeft ==
  at = "done" /\ interrupted /\ outcome \notin {"start failed", "cancel failed"}
    => canceled \/ phase \notin {"queued", "running"}

\* The command ends, whatever becomes of connections, requests and runner.
CommandEnds == <>(at = "done")

=============================================================================
