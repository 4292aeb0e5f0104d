------------------------ MODULE DispatchClientProofs ------------------------
(***************************************************************************)
(* The command prints the log as BuildLog promises it, succeeds only for a *)
(* build that passed, shows a report that failed and leaves no work behind,*)
(* for any number of events, connections and retries and any number of     *)
(* retained events.                                                        *)
(***************************************************************************)
EXTENDS DispatchClient, SequenceTheorems, TLAPS

USE StreamAssumption, ClientAssumption

Entries == [seq : Nat, gap : BOOLEAN]

-----------------------------------------------------------------------------
\* Printing an entry moves the position to it.
LEMMA PositionMoves ==
  ASSUME LogInv, NEW item \in Entries, printed' = Append(printed, item), from' = from
  PROVE  printed' \in Seq(Entries) /\ Promised!Position' = item.seq
<1>1. Len(printed') = Len(printed) + 1 /\ printed'[Len(printed) + 1] = item /\ printed' # <<>>
  BY DEF LogInv, Entries
<1> QED
  BY <1>1 DEF LogInv, Promised!Position, Entries

LEMMA PositionStays ==
  ASSUME printed' = printed, from' = from
  PROVE  Promised!Position' = Promised!Position
  BY DEF Promised!Position

LEMMA PositionType == LogInv => Promised!Position \in Nat
<1> SUFFICES ASSUME LogInv, printed # <<>> PROVE printed[Len(printed)].seq \in Nat
  BY DEF Promised!Position, LogInv
<1>1. Len(printed) \in 1..Len(printed)
  BY EmptySeq, LenProperties DEF LogInv
<1>2. printed[Len(printed)] \in Entries
  BY <1>1, ElementOfSeq DEF LogInv, Entries
<1> QED
  BY <1>2 DEF Entries

\* A step that leaves command and connection alone and can only add to the log.
LEMMA LogGrows ==
  ASSUME LogInv, events' \in Seq(Kinds), Written' >= Written,
         conn' = conn, UNCHANGED <<at, from, after, last, printed>>
  PROVE  LogInv'
<1>1. Written \in Nat /\ Written' \in Nat
  BY DEF LogInv, Written
<1>2. Promised!Position' = Promised!Position
  BY PositionStays
<1> QED
  BY <1>1, <1>2 DEF LogInv, Following, Sending, Written, Max2

\* The build's own steps either leave the log alone or write one event.
LEMMA BuildWrites ==
  ASSUME LogInv, BuildNext \/ CanceledElsewhere \/ Prune
  PROVE  /\ events' \in Seq(Kinds)
         /\ Written' = Written \/ Written' = Written + 1
         /\ conn' = conn
<1>1. \A kind \in Kinds : Emit(kind) => events' \in Seq(Kinds) /\ Written' = Written + 1
  BY DEF LogInv, Emit, Written
<1>2. UNCHANGED events => events' \in Seq(Kinds) /\ Written' = Written
  BY DEF LogInv, Written
<1> QED
  BY <1>1, <1>2 DEF BuildNext, LeaveQueue, WriteLog, Recorded, ReportNoted, Close, WithdrawalTold, Exit,
     ReportSettled, CanceledElsewhere, CancelCall, Prune, build, Kinds, Verdicts

-----------------------------------------------------------------------------
\* A connection with nothing to do for the log: what it copies is the log's end.
LEMMA CopyFits ==
  ASSUME LogInv, NEW where \in {"sending", "draining"}, at = "reading", Following,
         conn' = Copy(conn, where), UNCHANGED <<events, at, from, after, last, printed>>
  PROVE  LogInv'
<1>1. Written \in Nat /\ Written' = Written
  BY DEF LogInv, Written
<1>2. conn.next \in Nat /\ conn' = [at |-> where, next |-> conn.next, upto |-> Written,
         notice |-> IF Written > 0 /\ conn.next < First - 1 THEN First - 1 ELSE 0]
  BY DEF LogInv, Copy
<1>3. First \in Nat /\ (First - 1 > 0 => First - 1 = Written - Retained)
  BY <1>1 DEF First
<1>4. conn'.at = where /\ conn'.next = conn.next /\ conn'.upto = Written
      /\ (conn'.notice > 0 => conn'.next < conn'.notice /\ conn'.notice = Written - Retained)
      /\ conn' \in [at : ConnStates, next : Nat, notice : Nat, upto : Nat]
  BY <1>1, <1>2, <1>3 DEF ConnStates
<1>5. Promised!Position' = Promised!Position
  BY PositionStays
<1> QED
  BY <1>1, <1>4, <1>5 DEF LogInv, Following, Sending, Max2, Written

\* A connection that stays where it is in the log, or stops following it.
LEMMA ConnMoves ==
  ASSUME LogInv, NEW where \in ConnStates, at = "reading", Following,
         conn' = [conn EXCEPT !.at = where], where \notin {"sending", "draining"},
         UNCHANGED <<events, at, from, after, last, printed>>
  PROVE  LogInv'
<1>1. conn' \in [at : ConnStates, next : Nat, notice : Nat, upto : Nat]
      /\ conn'.at = where /\ conn'.next = conn.next
  BY DEF LogInv
<1>2. Promised!Position' = Promised!Position
  BY PositionStays
<1> QED
  BY <1>1, <1>2 DEF LogInv, Following, Sending, Max2

LEMMA FollowingReads == LogInv /\ Following => at = "reading"
  BY DEF LogInv

\* The runner's steps.
LEMMA RunnerKeeps == LogInv /\ RunnerNext /\ UNCHANGED client => LogInv'
<1> SUFFICES ASSUME LogInv, RunnerNext, UNCHANGED client PROVE LogInv'
  OBVIOUS
<1> USE DEF client, local
<1>1. CASE BuildNext \/ CanceledElsewhere \/ Prune
  <2>1. Written \in Nat
    BY DEF LogInv, Written
  <2> QED
    BY <1>1, <2>1, BuildWrites, LogGrows
<1>2. CASE Crash /\ Following
  BY <1>2, ConnMoves, FollowingReads DEF Crash, ConnStates
<1>3. CASE Crash /\ ~Following
  <2>1. UNCHANGED <<events, conn>> /\ Written' = Written /\ Written \in Nat
    BY <1>3 DEF Crash, Written, LogInv
  <2> QED
    BY <2>1, LogGrows DEF LogInv
<1>4. CASE Look
  BY <1>4, CopyFits, FollowingReads DEF Look, Following, build
<1>5. CASE Ticked
  BY <1>5, ConnMoves, FollowingReads DEF Ticked, Following, build, ConnStates
<1>6. CASE DoneSeen
  BY <1>6, CopyFits, FollowingReads DEF DoneSeen, Following, build
<1>7. CASE Drained
  BY <1>7, ConnMoves, FollowingReads DEF Drained, Following, build, ConnStates
<1>8. ASSUME NEW how \in {"cut", "reset"}, ConnectionGoes(how) PROVE LogInv'
  BY <1>8, ConnMoves, FollowingReads DEF ConnectionGoes, build, ConnStates
<1> QED
  BY <1>1, <1>2, <1>3, <1>4, <1>5, <1>6, <1>7, <1>8 DEF RunnerNext, HandlerNext

-----------------------------------------------------------------------------
\* The command's steps while it does not read: position and connection stay.
LEMMA RestKeeps ==
  ASSUME LogInv, at # "reading", at' # "reading", UNCHANGED <<conn, from, after, last, printed>>,
         events' = events
  PROVE  LogInv'
<1>1. Promised!Position' = Promised!Position /\ Written' = Written
  BY PositionStays DEF Written
<1> QED
  BY <1>1 DEF LogInv, Following, Sending

\* The command opens a log where its output ends.
LEMMA OpeningKeeps == LogInv /\ LogOpened => LogInv'
<1> SUFFICES ASSUME LogInv, LogOpened PROVE LogInv'
  OBVIOUS
<1>1. /\ at = "asking" /\ at' = "reading" /\ last' = 0
      /\ conn' = [at |-> "looking", next |-> after, notice |-> 0, upto |-> 0]
      /\ UNCHANGED <<events, from, after, printed>>
  BY DEF LogOpened, Request, Opened, Closed, GoesTo, History, build
<1>2. Promised!Position' = Promised!Position /\ Promised!Position \in Nat
  BY <1>1, PositionStays, PositionType
<1> QED
  BY <1>1, <1>2 DEF LogInv, Following, Sending, Max2, ConnStates

\* It prints the entry that comes next, and remembers its number.
LEMMA ReadingKeeps == LogInv /\ ItemRead => LogInv'
<1> SUFFICES ASSUME LogInv, ItemRead PROVE LogInv'
  OBVIOUS
<1>1. /\ at = "reading" /\ Following /\ Sending
      /\ UNCHANGED <<at, events, from, after>>
      /\ last' = Max2(last, Item.seq)
      /\ printed' = Append(printed, Item)
      /\ conn' = [conn EXCEPT !.next = Item.seq, !.notice = 0]
  BY DEF ItemRead, ItemSent, Sending, Following, build
<1>2. Item \in Entries /\ Item.seq > conn.next /\ conn.next \in Nat
  BY <1>1 DEF Item, LogInv, Entries
<1>3. printed' \in Seq(Entries) /\ Promised!Position' = Item.seq
  BY <1>1, <1>2, PositionMoves
<1>4. conn' \in [at : ConnStates, next : Nat, notice : Nat, upto : Nat]
      /\ conn'.at = conn.at /\ conn'.next = Item.seq /\ conn'.notice = 0 /\ conn'.upto = conn.upto
  BY <1>1, <1>2 DEF LogInv, Entries
<1>5. Max2(after, last') = Item.seq /\ last' \in Nat
  BY <1>1, <1>2 DEF LogInv, Max2, Entries
<1> QED
  BY <1>1, <1>3, <1>4, <1>5 DEF LogInv, Following, Sending, Written, Entries, Max2

\* A connection ends: what it has shown is where the next one starts.
LEMMA EndingKeeps == LogInv /\ (StreamEnds \/ ReadFails) => LogInv'
<1> SUFFICES ASSUME LogInv, StreamEnds \/ ReadFails PROVE LogInv'
  OBVIOUS
<1>1. /\ at = "reading" /\ at' # "reading"
      /\ conn' = [at |-> "closed", next |-> 0, notice |-> 0, upto |-> 0]
      /\ after' = Max2(after, last)
      /\ UNCHANGED <<events, from, last, printed>>
  BY DEF StreamEnds, ReadFails, Merged, Ends, GoesTo, Closed, build
<1>2. Promised!Position' = Promised!Position
  BY <1>1, PositionStays
<1> QED
  BY <1>1, <1>2 DEF LogInv, Following, Sending, Max2, ConnStates

\* What requests do to the build leaves its log alone.
LEMMA RequestsKeep ==
  ASSUME LogInv, Started \/ StartFails \/ StatusAnswered \/ StatusFails \/ LogRefused \/ LogFails
                 \/ Canceled \/ ElsewhereStarted \/ RequestRepeated
  PROVE  LogInv' /\ events' = events /\ from' = from /\ printed' = printed
<1>1. /\ at # "reading" /\ at' # "reading"
      /\ UNCHANGED <<conn, from, after, last, printed, events>>
  BY DEF Started, StartFails, StatusAnswered, StatusFails, LogRefused, LogFails, Canceled, ElsewhereStarted,
     RequestRepeated, Request, Accepted, CancelCall, Checked, Ends, GoesTo, History, stream, build, local, client
<1> QED
  BY <1>1, RestKeeps

-----------------------------------------------------------------------------
LEMMA LogStarts == Init => LogInv
<1> SUFFICES ASSUME Init PROVE LogInv
  OBVIOUS
<1>0. from \in Nat /\ at # "reading"
  <2>1. PICK mode \in Modes : IF mode = "start" THEN at = "starting" /\ from = 0
                              ELSE at = "preflight" /\ from \in Afters
    BY DEF Init
  <2>2. CASE mode = "start"
    BY <2>1, <2>2
  <2>3. CASE mode # "start"
    <3>1. at = "preflight" /\ from \in Afters
      BY <2>1, <2>3
    <3>2. Afters \subseteq Nat
      BY DEF ClientAssumption
    <3> QED
      BY <3>1, <3>2
  <2> QED
    BY <2>2, <2>3
<1>1. from \in Nat /\ after = from /\ last = 0 /\ events = <<>> /\ printed = <<>> /\ at # "reading"
  BY <1>0 DEF Init, StreamInit
<1>2. conn = [at |-> "closed", next |-> 0, notice |-> 0, upto |-> 0]
  BY DEF Init, StreamInit, Closed
<1>3. events \in Seq(Kinds) /\ printed \in Seq([seq : Nat, gap : BOOLEAN])
  BY <1>1, EmptySeq
<1> QED
  BY <1>1, <1>2, <1>3 DEF LogInv, Promised!Position, Following, Sending, ConnStates

\* Each step either keeps the log and the output, or is a step of BuildLog.
LEMMA LogStep ==
  ASSUME LogInv, [Next]_vars
  PROVE  LogInv' /\ [Promised!Next]_(Promised!log)
<1> USE DEF Promised!log
<1>1. Written \in Nat /\ (events' = events => Written' = Written)
  BY DEF LogInv, Written
<1>2. CASE RunnerNext /\ UNCHANGED client
  <2>1. UNCHANGED <<from, printed>>
    BY <1>2 DEF client
  <2>2. Written' = Written \/ Written' = Written + 1
    BY <1>1, <1>2, BuildWrites DEF RunnerNext, HandlerNext, Crash, Look, Ticked, DoneSeen, Drained, ConnectionGoes, build
  <2> QED
    BY <1>2, <2>1, <2>2, RunnerKeeps DEF Promised!Next, Promised!Write
<1>3. CASE ItemRead
  <2>1. at = "reading" /\ Sending /\ ~CopyWritten /\ conn.next = Promised!Position /\ from' = from
        /\ Written' = Written /\ printed' = Append(printed, Item)
    BY <1>1, <1>3 DEF ItemRead, LogInv, Following, Sending, build
  <2>2. CASE conn.notice > 0
    <3>1. Item = [seq |-> conn.notice, gap |-> TRUE] /\ Promised!Position < conn.notice
          /\ conn.notice <= Written - Retained /\ conn.notice \in 1..Written
      BY <1>1, <2>1, <2>2 DEF LogInv, Item
    <3> QED
      BY <1>3, <2>1, <3>1, ReadingKeeps DEF Promised!Next, Promised!Skip
  <2>3. CASE ~(conn.notice > 0)
    <3>1. Item = [seq |-> Promised!Position + 1, gap |-> FALSE] /\ Promised!Position < Written
      BY <1>1, <2>1, <2>3 DEF LogInv, Item, CopyWritten
    <3> QED
      BY <1>3, <2>1, <3>1, ReadingKeeps DEF Promised!Next, Promised!Show
  <2> QED
    BY <2>2, <2>3
<1>4. CASE LogOpened \/ StreamEnds \/ ReadFails
  <2>1. UNCHANGED <<events, from, printed>>
    BY <1>4 DEF LogOpened, StreamEnds, ReadFails, Merged, History, build
  <2> QED
    BY <1>1, <1>4, <2>1, OpeningKeeps, EndingKeeps
<1>5. CASE Interrupt \/ UNCHANGED vars
  <2>1. UNCHANGED <<stream, at, from, local, printed>>
    BY <1>5 DEF Interrupt, vars, client, local
  <2>2. UNCHANGED <<events, conn, at, from, after, last, printed>>
    BY <2>1 DEF stream, build, local
  <2>3. LogInv'
    BY <1>1, <2>2, LogGrows DEF LogInv
  <2> QED
    BY <1>1, <2>2, <2>3
<1>6. CASE Started \/ StartFails \/ StatusAnswered \/ StatusFails \/ LogRefused \/ LogFails
           \/ Canceled \/ ElsewhereStarted \/ RequestRepeated
  BY <1>1, <1>6, RequestsKeep
<1> QED
  BY <1>2, <1>3, <1>4, <1>5, <1>6 DEF Next, ClientNext

-----------------------------------------------------------------------------
\* The connections of the command always continue the output where it ends.
THEOREM LogInvariance == Spec => []LogInv
<1>1. LogInv /\ [Next]_vars => LogInv'
  BY LogStep
<1> QED
  BY <1>1, LogStarts, PTL DEF Spec

\* Over all its connections, retries and failures, the command prints every
\* event once and in order, but for announced gaps before the retained events.
THEOREM LogAlwaysKept == Spec => LogKept
<1>1. Init => Promised!Init
  BY LogStarts DEF Init, StreamInit, Promised!Init, Written, LogInv
<1>2. LogInv /\ [Next]_vars => [Promised!Next]_(Promised!log)
  BY LogStep
<1> QED
  BY <1>1, <1>2, LogInvariance, PTL DEF Spec, LogKept, Promised!Spec

-----------------------------------------------------------------------------
(***************************************************************************)
(* What the other invariants of the command rest on.                       *)
(***************************************************************************)
Told(kind) == \E i \in 1..Written : events[i] = kind

\* The record of a build and the verdict in its stream go together.
RecordFits ==
  /\ phase \in {"absent", "queued", "running", "exited"} => record = "none"
  /\ phase = "withdrawn" => record = "canceled"
  /\ phase \in {"reporting", "settled", "noted", "done"} => record # "none"
  /\ phase \in {"absent", "queued", "withdrawn", "running"} => \A v \in Verdicts : ~Told(v)
  /\ phase = "exited" => \E v \in Verdicts : Told(v)
  /\ \A v, w \in Verdicts : Told(v) /\ Told(w) => v = w
  /\ Told("passed") => record \in {"none", "passed"}
  /\ record = "passed" => Told("passed")
  /\ phase \in {"queued", "running"} => remembered
  /\ remembered => phase \notin {"absent", "lost"}

\* A failed report is told once, and by the last event there is.
ReportFits ==
  /\ report = "failed" => phase \in {"settled", "noted", "done", "lost"}
  /\ Told("report failed") => phase \in {"noted", "done", "lost"}
  /\ \A i \in 1..Written : events[i] = "report failed" => i = Written
  /\ report = "failed" /\ phase \in {"noted", "done"} => Told("report failed")

\* What the command knows of the build has happened.
KnowledgeFits ==
  /\ heard # "none" => Told(heard)
  /\ result # "none" => phase \notin {"absent", "queued", "running"}
  /\ result = "passed" => Told("passed")
  /\ reportError => result # "none"
  /\ outcome = "passed" => Told("passed")
  /\ at # "done" => outcome = "none"

\* How far the command has come in the log.
Reached == IF at = "reading" THEN Max2(after, last) ELSE after

\* A command that comes to the event of a failed report knows that it did.
ReachFits ==
  /\ from <= Reached /\ (Reached <= from \/ Reached <= Written)
  /\ conn.at # "closed" => at = "reading"
  /\ conn.at = "draining" => phase = "done" /\ conn.upto = Written
  /\ conn.at = "over" => phase = "done" /\ Reached >= Written
  /\ heard # "none" => from < Written
  /\ Told("report failed") /\ from < Written /\ Reached >= Written
       => (at = "reading" /\ failure) \/ at = "canceling" \/ (at = "done" /\ outcome # "passed")
  /\ heardOut => phase = "done"
  /\ heardOut /\ report = "failed" /\ from < Written
       => at \in {"canceling", "done"} /\ outcome # "passed"

BuildTypes ==
  /\ phase \in {"absent", "queued", "withdrawn", "running", "exited", "reporting",
                "settled", "noted", "done", "lost"}
  /\ events \in Seq(Kinds)
  /\ withReport \in BOOLEAN /\ canceled \in BOOLEAN /\ remembered \in BOOLEAN
  /\ record \in Verdicts \cup {"none"}
  /\ report \in {"none", "pending", "reported", "failed"}

BuildInv == BuildTypes /\ RecordFits /\ ReportFits

\* What a step of the build never takes back.
BuildGoesOn ==
  /\ \A kind \in Kinds : Told(kind) => Told(kind)'
  /\ \A kind \in Kinds : Told(kind)' => Told(kind) \/ Written' = Written + 1
  /\ Written \in Nat /\ Written' \in Nat /\ Written' >= Written
  /\ phase \notin {"absent", "queued", "running"} => phase' \notin {"absent", "queued", "running"}
  /\ phase = "done" => phase' = "done" /\ UNCHANGED <<events, report>>
  /\ canceled = TRUE => canceled' = TRUE

BuildStep == BuildNext \/ Accepted \/ CancelCall \/ Prune \/ Crash \/ UNCHANGED build

-----------------------------------------------------------------------------
\* An event written is told, and the others stay where they are.
LEMMA EmitTells ==
  ASSUME events \in Seq(Kinds), NEW kind \in Kinds, Emit(kind)
  PROVE  /\ events' \in Seq(Kinds) /\ Written \in Nat /\ Written' = Written + 1
         /\ events'[Written + 1] = kind
         /\ 1..Written' = 1..Written \cup {Written + 1}
         /\ \A i \in 1..Written : events'[i] = events[i]
         /\ \A k \in Kinds : Told(k)' <=> (Told(k) \/ k = kind)
<1>1. /\ events' \in Seq(Kinds) /\ Written \in Nat /\ Written' = Written + 1
      /\ events'[Written + 1] = kind
      /\ \A i \in 1..Written : events'[i] = events[i]
  BY DEF Emit, Written
<1>2. 1..Written' = 1..Written \cup {Written + 1}
  BY <1>1
<1> QED
  BY <1>1, <1>2 DEF Told

LEMMA SilenceTells ==
  ASSUME events \in Seq(Kinds), events' = events
  PROVE  /\ events' \in Seq(Kinds) /\ Written \in Nat /\ Written' = Written
         /\ \A k : Told(k)' <=> Told(k)
  BY DEF Told, Written

\* The build before its verdict, and while the verdict is told.
LEMMA VerdictSteps ==
  ASSUME BuildInv, WriteLog \/ (\E v \in Verdicts : Exit(v)) \/ WithdrawalTold
  PROVE  BuildInv' /\ BuildGoesOn
<1> USE DEF BuildInv
<1>1. events \in Seq(Kinds) /\ {"log", "canceled"} \subseteq Kinds /\ Verdicts \subseteq Kinds
      /\ "log" \notin Verdicts /\ "report failed" \notin Verdicts /\ "report failed" \in Kinds
      /\ "passed" \in Verdicts /\ "canceled" \in Verdicts
  BY DEF BuildTypes, Kinds, Verdicts
<1>2. CASE WriteLog
  <2>1. Emit("log") /\ phase \in {"queued", "running", "exited"}
        /\ UNCHANGED <<phase, withReport, canceled, record, report, remembered>>
    BY <1>2 DEF WriteLog
  <2>2. /\ events' \in Seq(Kinds) /\ Written \in Nat /\ Written' = Written + 1
        /\ events'[Written + 1] = "log"
        /\ 1..Written' = 1..Written \cup {Written + 1}
        /\ \A i \in 1..Written : events'[i] = events[i]
        /\ \A k \in Kinds : Told(k)' <=> (Told(k) \/ k = "log")
    BY <1>1, <2>1, EmitTells
  <2>3. ~Told("report failed")
    BY <2>1 DEF ReportFits
  <2>4. BuildTypes'
    BY <2>1, <2>2 DEF BuildTypes
  <2>5. RecordFits'
    BY <1>1, <2>1, <2>2 DEF RecordFits
  <2>6. \A i \in 1..Written' : events'[i] # "report failed"
    <3>1. \A i \in 1..Written : events[i] # "report failed"
      BY <2>3 DEF Told
    <3> QED
      BY <2>2, <3>1
  <2>7. ReportFits'
    <3>1. ~Told("report failed")'
      BY <2>6 DEF Told
    <3> QED
      BY <2>1, <2>3, <2>6, <3>1 DEF ReportFits
  <2>8. BuildGoesOn
    <3>1. /\ \A kind \in Kinds : Told(kind) => Told(kind)'
          /\ \A kind \in Kinds : Told(kind)' => Told(kind) \/ Written' = Written + 1
          /\ Written \in Nat /\ Written' \in Nat /\ Written' >= Written
      BY <2>2
    <3>2. /\ phase \notin {"absent", "queued", "running"} => phase' \notin {"absent", "queued", "running"}
          /\ phase # "done" /\ (canceled = TRUE => canceled' = TRUE)
      BY <2>1
    <3> QED
      BY <3>1, <3>2 DEF BuildGoesOn
  <2> QED
    BY <2>4, <2>5, <2>7, <2>8
<1>3. ASSUME NEW v \in Verdicts, Emit(v), ~Told("report failed"), \A w \in Verdicts : ~Told(w),
             report # "failed" \/ phase' \notin {"noted", "done"},
             UNCHANGED <<withReport, canceled, record, report, remembered>>,
             phase \in {"running", "withdrawn"},
             IF phase = "running" THEN phase' = "exited"
             ELSE v = "canceled" /\ phase' \in {"reporting", "noted"}
      PROVE  BuildInv' /\ BuildGoesOn
  <2>2. /\ events' \in Seq(Kinds) /\ Written \in Nat /\ Written' = Written + 1
        /\ events'[Written + 1] = v
        /\ 1..Written' = 1..Written \cup {Written + 1}
        /\ \A i \in 1..Written : events'[i] = events[i]
        /\ \A k \in Kinds : Told(k)' <=> (Told(k) \/ k = v)
    BY <1>1, <1>3, EmitTells
  <2>4. BuildTypes'
    BY <1>3, <2>2 DEF BuildTypes
  <2>5. RecordFits'
    BY <1>1, <1>3, <2>2 DEF RecordFits
  <2>6. \A i \in 1..Written' : events'[i] # "report failed"
    <3>1. \A i \in 1..Written : events[i] # "report failed"
      BY <1>3 DEF Told
    <3> QED
      BY <1>1, <1>3, <2>2, <3>1
  <2>7. ReportFits'
    <3>1. ~Told("report failed")'
      BY <2>6 DEF Told
    <3> QED
      BY <1>3, <2>6, <3>1 DEF ReportFits
  <2>8. BuildGoesOn
    <3>1. /\ \A kind \in Kinds : Told(kind) => Told(kind)'
          /\ \A kind \in Kinds : Told(kind)' => Told(kind) \/ Written' = Written + 1
          /\ Written \in Nat /\ Written' \in Nat /\ Written' >= Written
      BY <2>2
    <3>2. /\ phase \notin {"absent", "queued", "running"} => phase' \notin {"absent", "queued", "running"}
          /\ phase # "done" /\ (canceled = TRUE => canceled' = TRUE)
      BY <1>3
    <3> QED
      BY <3>1, <3>2 DEF BuildGoesOn
  <2> QED
    BY <2>4, <2>5, <2>7, <2>8
<1>4. phase \in {"running", "withdrawn"}
        => ~Told("report failed") /\ report # "failed" /\ (\A w \in Verdicts : ~Told(w))
  BY DEF RecordFits, ReportFits
<1>5. ASSUME NEW v \in Verdicts, Exit(v) PROVE BuildInv' /\ BuildGoesOn
  BY <1>3, <1>4, <1>5 DEF Exit
<1>6. CASE WithdrawalTold
  BY <1>1, <1>3, <1>4, <1>6 DEF WithdrawalTold
<1> QED
  BY <1>2, <1>5, <1>6

\* The record is what the stream says.
LEMMA RecordingStep ==
  ASSUME BuildInv, Recorded
  PROVE  BuildInv' /\ BuildGoesOn
<1> USE DEF BuildInv
<1>1. /\ phase = "exited" /\ phase' \in {"reporting", "noted"} /\ report # "failed"
      /\ UNCHANGED <<events, withReport, canceled, report, remembered>>
  BY DEF Recorded, ReportFits
<1>2. /\ events' \in Seq(Kinds) /\ Written \in Nat /\ Written' = Written
      /\ \A k : Told(k)' <=> Told(k)
  BY <1>1, SilenceTells DEF BuildTypes
<1>3. LastVerdict \in Verdicts /\ Told(LastVerdict)
  <2>1. \E v \in Verdicts : \E i \in 1..Written : events[i] = v
    BY <1>1 DEF RecordFits, Told
  <2> QED
    BY <2>1 DEF LastVerdict, Told
<1>4. record' \in Verdicts /\ (record' = "passed" => Told("passed")) /\ (Told("passed") => record' = "passed")
  <2>1. Told("passed") => LastVerdict = "passed"
    BY <1>3 DEF RecordFits, Verdicts
  <2> QED
    BY <1>3, <2>1 DEF Recorded, Verdicts
<1>5. BuildTypes'
  BY <1>1, <1>2, <1>4 DEF BuildTypes
<1>6. RecordFits'
  BY <1>1, <1>2, <1>4 DEF RecordFits, Verdicts
<1>7. ReportFits'
  BY <1>1, <1>2 DEF ReportFits
<1> QED
  BY <1>1, <1>2, <1>5, <1>6, <1>7 DEF BuildGoesOn

\* The end of a report, and the event that tells of it.
LEMMA ReportSteps ==
  ASSUME BuildInv, ReportNoted \/ (\E ok \in BOOLEAN : ReportSettled(ok))
  PROVE  BuildInv' /\ BuildGoesOn
<1> USE DEF BuildInv
<1>1. ASSUME NEW ok \in BOOLEAN, ReportSettled(ok) PROVE BuildInv' /\ BuildGoesOn
  <2>1. /\ phase = "reporting" /\ phase' = "settled" /\ report' \in {"reported", "failed"}
        /\ UNCHANGED <<events, withReport, canceled, record, remembered>>
    BY <1>1 DEF ReportSettled
  <2>2. /\ events' \in Seq(Kinds) /\ Written \in Nat /\ Written' = Written
        /\ \A k : Told(k)' <=> Told(k)
    BY <2>1, SilenceTells DEF BuildTypes
  <2>3. ~Told("report failed")
    BY <2>1 DEF ReportFits
  <2>4. BuildTypes'
    BY <2>1, <2>2 DEF BuildTypes
  <2>5. RecordFits'
    BY <2>1, <2>2 DEF RecordFits
  <2>6. ReportFits'
    BY <2>1, <2>2, <2>3 DEF ReportFits, Told
  <2> QED
    BY <2>1, <2>2, <2>4, <2>5, <2>6 DEF BuildGoesOn
<1>2. CASE ReportNoted
  <2> DEFINE kind == IF report = "failed" THEN "report failed" ELSE "reported"
  <2>1. /\ phase = "settled" /\ phase' = "noted" /\ Emit(kind)
        /\ UNCHANGED <<withReport, canceled, record, report, remembered>>
    BY <1>2 DEF ReportNoted
  <2>2. kind \in Kinds /\ kind \notin Verdicts /\ Verdicts \subseteq Kinds /\ "report failed" \in Kinds
        /\ "passed" \in Verdicts /\ (kind = "report failed" <=> report = "failed")
    BY DEF Kinds, Verdicts
  <2> HIDE DEF kind
  <2>3. /\ events' \in Seq(Kinds) /\ Written \in Nat /\ Written' = Written + 1
        /\ events'[Written + 1] = kind
        /\ 1..Written' = 1..Written \cup {Written + 1}
        /\ \A i \in 1..Written : events'[i] = events[i]
        /\ \A k \in Kinds : Told(k)' <=> (Told(k) \/ k = kind)
    BY <2>1, <2>2, EmitTells DEF BuildTypes
  <2>4. \A i \in 1..Written : events[i] # "report failed"
    BY <2>1 DEF ReportFits, Told
  <2>5. BuildTypes'
    BY <2>1, <2>3 DEF BuildTypes
  <2>6. RecordFits'
    BY <2>1, <2>2, <2>3 DEF RecordFits
  <2>7. \A i \in 1..Written' : events'[i] = "report failed" => i = Written'
    BY <2>3, <2>4
  <2>8. ReportFits'
    BY <2>1, <2>2, <2>3, <2>7 DEF ReportFits
  <2>9. BuildGoesOn
    <3>1. /\ \A k \in Kinds : Told(k) => Told(k)'
          /\ \A k \in Kinds : Told(k)' => Told(k) \/ Written' = Written + 1
          /\ Written \in Nat /\ Written' \in Nat /\ Written' >= Written
      BY <2>3
    <3>2. /\ phase \notin {"absent", "queued", "running"} => phase' \notin {"absent", "queued", "running"}
          /\ phase # "done" /\ (canceled = TRUE => canceled' = TRUE)
      BY <2>1
    <3> QED
      BY <3>1, <3>2 DEF BuildGoesOn
  <2> QED
    BY <2>5, <2>6, <2>8, <2>9
<1> QED
  BY <1>1, <1>2

\* The steps that write no event and publish no record but a withdrawal's.
LEMMA SilentSteps ==
  ASSUME BuildInv,
         LeaveQueue \/ Close \/ Accepted \/ CancelCall \/ Prune \/ Crash \/ UNCHANGED build
  PROVE  BuildInv' /\ BuildGoesOn
<1> USE DEF BuildInv
<1>1. events' = events
  BY DEF LeaveQueue, Close, Accepted, CancelCall, Prune, Crash, build
<1>2. /\ events' \in Seq(Kinds) /\ Written \in Nat /\ Written' = Written
      /\ \A k : Told(k)' <=> Told(k)
  BY <1>1, SilenceTells DEF BuildTypes
<1>3. BuildGoesOn <=>
        /\ phase \notin {"absent", "queued", "running"} => phase' \notin {"absent", "queued", "running"}
        /\ phase = "done" => phase' = "done" /\ report' = report
        /\ canceled = TRUE => canceled' = TRUE
  BY <1>1, <1>2 DEF BuildGoesOn
<1>4. \A i \in 1..Written' : events'[i] = "report failed" => i = Written'
  BY <1>1, <1>2 DEF ReportFits
<1>5. CASE LeaveQueue \/ Close
  <2>1. BuildTypes' /\ BuildGoesOn
    BY <1>2, <1>3, <1>5 DEF LeaveQueue, Close, BuildTypes
  <2>2. RecordFits'
    BY <1>2, <1>5 DEF LeaveQueue, Close, RecordFits
  <2> QED
    BY <1>2, <1>4, <1>5, <2>1, <2>2 DEF LeaveQueue, Close, ReportFits
<1>6. CASE Accepted /\ phase = "absent"
  <2>1. /\ phase' \in {"queued", "running"} /\ remembered' = TRUE /\ report' \in {"none", "pending"}
        /\ UNCHANGED <<events, withReport, canceled, record>>
    BY <1>6 DEF Accepted
  <2>2. BuildTypes' /\ BuildGoesOn
    BY <1>2, <1>3, <1>6, <2>1 DEF BuildTypes
  <2>3. RecordFits'
    BY <1>2, <1>6, <2>1 DEF RecordFits
  <2> QED
    BY <1>2, <1>4, <1>6, <2>1, <2>2, <2>3 DEF ReportFits
<1>7. CASE UNCHANGED build
  <2>1. BuildTypes' /\ BuildGoesOn
    BY <1>2, <1>3, <1>7 DEF build, BuildTypes
  <2>2. RecordFits'
    BY <1>2, <1>7 DEF build, RecordFits
  <2> QED
    BY <1>2, <1>4, <1>7, <2>1, <2>2 DEF build, ReportFits
<1>8. CASE CancelCall /\ ~UNCHANGED build
  <2>1. /\ record = "none" /\ canceled' = TRUE
        /\ \/ phase = "queued" /\ record' = "canceled" /\ phase' = "withdrawn"
           \/ phase # "queued" /\ UNCHANGED <<phase, record>>
        /\ UNCHANGED <<events, withReport, report, remembered>>
    BY <1>8 DEF CancelCall
  <2>2. BuildTypes' /\ BuildGoesOn
    BY <1>2, <1>3, <2>1 DEF BuildTypes, Verdicts
  <2>3. RecordFits'
    BY <1>2, <2>1 DEF RecordFits, Verdicts
  <2> QED
    BY <1>2, <1>4, <2>1, <2>2, <2>3 DEF ReportFits
<1>9. CASE Prune \/ Crash
  <2>1. /\ remembered' = FALSE
        /\ (phase = "done" /\ phase' = "done") \/ (phase # "done" /\ phase' \in {"lost"})
        /\ UNCHANGED <<events, withReport, canceled, record, report>>
    BY <1>9 DEF Prune, Crash
  <2>2. BuildTypes' /\ BuildGoesOn
    BY <1>2, <1>3, <2>1 DEF BuildTypes
  <2>3. RecordFits'
    BY <1>2, <2>1 DEF RecordFits
  <2> QED
    BY <1>2, <1>4, <2>1, <2>2, <2>3 DEF ReportFits
<1> QED
  BY <1>5, <1>6, <1>7, <1>8, <1>9 DEF Accepted

LEMMA BuildKeeps ==
  ASSUME BuildInv, BuildStep
  PROVE  BuildInv' /\ BuildGoesOn
  BY VerdictSteps, RecordingStep, ReportSteps, SilentSteps DEF BuildStep, BuildNext

\* Every step of the system is one of these for the build.
LEMMA StepsOfBuild == [Next]_vars => BuildStep
<1> USE DEF BuildStep
<1>1. RunnerNext => BuildStep
  BY DEF RunnerNext, CanceledElsewhere, HandlerNext, Look, Ticked, DoneSeen, Drained, ConnectionGoes
<1>2. ElsewhereStarted \/ Interrupt \/ RequestRepeated => BuildStep
  BY DEF ElsewhereStarted, Interrupt, RequestRepeated, stream
<1>3. ClientNext => BuildStep
  BY DEF ClientNext, Started, StartFails, StatusAnswered, StatusFails, LogOpened, LogRefused, LogFails,
     Canceled, ItemRead, StreamEnds, ReadFails, stream
<1>4. UNCHANGED vars => BuildStep
  BY DEF vars, stream
<1> QED
  BY <1>1, <1>2, <1>3, <1>4 DEF Next


\* Work begins only while the command waits for it.
LEMMA NoNewWork ==
  ASSUME BuildInv, [Next]_vars, phase = "absent", phase' \in {"queued", "running"}
  PROVE  at \in {"starting", "preflight"}
<1>1. ~remembered
  BY DEF BuildInv, RecordFits
<1>2. ~RunnerNext
  BY DEF RunnerNext, BuildNext, LeaveQueue, WriteLog, Exit, Recorded, ReportSettled, ReportNoted, Close, WithdrawalTold,
     CanceledElsewhere, CancelCall, Prune, Crash, HandlerNext, Look, Ticked, DoneSeen, Drained, ConnectionGoes, build
<1>3. ~UNCHANGED build
  BY DEF build
<1>4. ~CancelCall
  BY <1>1, <1>3 DEF CancelCall
<1>5. ~UNCHANGED vars /\ ~Interrupt
  BY <1>3 DEF vars, stream, Interrupt
<1>6. CASE ElsewhereStarted \/ RequestRepeated
  BY <1>3, <1>4, <1>6 DEF ElsewhereStarted, RequestRepeated, stream
<1>7. CASE ClientNext
  BY <1>3, <1>4, <1>7 DEF ClientNext, Started, StartFails, StatusAnswered, StatusFails, LogOpened, LogRefused, LogFails,
     Canceled, ItemRead, StreamEnds, ReadFails, Request, stream
<1> QED
  BY <1>2, <1>5, <1>6, <1>7 DEF Next

-----------------------------------------------------------------------------
CommandTypes ==
  /\ at \in {"starting", "preflight", "asking", "reading", "checking", "canceling", "done"}
  /\ tries \in Nat
  /\ heard \in Verdicts \cup {"none"} /\ result \in Verdicts \cup {"none"}
  /\ failure \in BOOLEAN /\ reportError \in BOOLEAN /\ interrupted \in BOOLEAN /\ heardOut \in BOOLEAN
  /\ outcome \in Outcomes

LEMMA VerdictFacts ==
  ASSUME NEW r \in Verdicts \cup {"none"}, NEW e \in BOOLEAN
  PROVE  /\ Verdict(r, e) \in Outcomes
         /\ Verdict(r, e) = "passed" => r = "passed" /\ e = FALSE
         /\ e = TRUE => Verdict(r, e) = "report failed"
  BY DEF Verdict, Outcomes, Verdicts

\* What the connection has still to show is an event of the build, or the notice
\* that events before the retained ones are gone.
LEMMA ItemFacts ==
  ASSUME LogInv, ItemRead
  PROVE  /\ Reached' = Item.seq /\ Item.seq > Reached /\ Item.seq \in 1..Written
         /\ Item.gap => Item.seq < Written
         /\ Written' = Written /\ Written \in Nat
<1>1. /\ at = "reading" /\ at' = "reading" /\ Following /\ Sending /\ ~CopyWritten
      /\ UNCHANGED <<events, after>>
      /\ last' = Max2(last, Item.seq)
  BY DEF ItemRead, Sending, Following, build
<1>2. Written' = Written /\ Written \in Nat /\ conn.upto <= Written
      /\ after \in Nat /\ last \in Nat /\ conn.next \in Nat /\ conn.notice \in Nat /\ conn.upto \in Nat
      /\ Retained \in Nat /\ Retained >= 2
  BY <1>1 DEF LogInv, Written
<1>3. conn.next = Max2(after, last)
  BY <1>1 DEF LogInv
<1>4. /\ Item.seq \in Nat /\ Item.seq > conn.next /\ Item.seq <= Written
      /\ Item.gap => Item.seq < Written
  <2>1. CASE conn.notice > 0
    <3>1. conn.next < conn.notice /\ conn.notice <= Written - Retained
      BY <1>1, <2>1 DEF LogInv
    <3> QED
      BY <1>2, <2>1, <3>1 DEF Item
  <2>2. CASE ~(conn.notice > 0)
    <3>1. conn.notice = 0
      BY <1>2, <2>2
    <3>2. conn.next < conn.upto
      BY <1>1, <1>2, <3>1 DEF CopyWritten
    <3> QED
      BY <1>2, <2>2, <3>2 DEF Item
  <2> QED
    BY <2>1, <2>2
<1> QED
  BY <1>1, <1>2, <1>3, <1>4 DEF Reached, Max2

\* What the command knows stays true of the build.
LEMMA KnowledgeStep ==
  ASSUME LogInv, BuildInv, BuildInv', BuildGoesOn, CommandTypes, KnowledgeFits, [Next]_vars
  PROVE  CommandTypes' /\ KnowledgeFits'
<1>0. /\ \A kind \in Kinds : Told(kind) => Told(kind)'
      /\ phase \notin {"absent", "queued", "running"} => phase' \notin {"absent", "queued", "running"}
      /\ Verdicts \subseteq Kinds /\ "passed" \in Verdicts /\ "none" \notin Verdicts
  BY DEF BuildGoesOn, Kinds, Verdicts
<1>1. ASSUME UNCHANGED <<heard, result, reportError>>,
             outcome' = outcome \/ outcome' # "passed", at' # "done" => outcome' = "none"
      PROVE  KnowledgeFits'
  BY <1>0, <1>1 DEF KnowledgeFits, CommandTypes
<1>2. CASE UNCHANGED client
  BY <1>1, <1>2 DEF client, CommandTypes, KnowledgeFits
<1>3. CASE Interrupt \/ RequestRepeated
  <2>1. UNCHANGED <<at, heard, failure, result, reportError, outcome, heardOut>>
    BY <1>3 DEF Interrupt, RequestRepeated, History, local
  <2>2. interrupted' \in BOOLEAN
    <3>1. CASE Interrupt
      BY <3>1 DEF Interrupt
    <3>2. CASE RequestRepeated
      BY <3>2 DEF RequestRepeated, History, CommandTypes
    <3> QED
      BY <1>3, <3>1, <3>2
  <2>3. tries' \in Nat
    <3>1. CASE Interrupt
      BY <3>1 DEF Interrupt, CommandTypes
    <3>2. CASE RequestRepeated
      BY <3>2 DEF RequestRepeated, CommandTypes
    <3> QED
      BY <1>3, <3>1, <3>2
  <2>4. CommandTypes'
    BY <2>1, <2>2, <2>3 DEF CommandTypes
  <2>5. KnowledgeFits'
    BY <1>1, <2>1 DEF KnowledgeFits
  <2> QED
    BY <2>4, <2>5
<1>4. CASE Started \/ StartFails \/ Canceled
  <2>1. /\ UNCHANGED <<heard, failure, result, reportError, interrupted, heardOut>> /\ tries' = 0
        /\ \/ at' = "asking" /\ UNCHANGED outcome
           \/ at' = "done" /\ outcome' \in {"start failed", "interrupted", "cancel failed"}
        /\ at # "done"
    BY <1>4 DEF Started, StartFails, Canceled, Request, GoesTo, Ends, History, local
  <2> QED
    BY <1>1, <2>1 DEF CommandTypes, KnowledgeFits, Outcomes
<1>5. CASE LogOpened
  <2>1. /\ UNCHANGED <<result, reportError, interrupted, heardOut, outcome>> /\ tries' = 0
        /\ at' = "reading" /\ at = "asking" /\ heard' = "none" /\ failure' = FALSE
    BY <1>5 DEF LogOpened, Request, GoesTo, History
  <2> QED
    BY <1>0, <2>1 DEF CommandTypes, KnowledgeFits
<1>6. CASE LogRefused \/ LogFails
  <2>1. /\ UNCHANGED <<heard, failure, result, reportError, interrupted, heardOut>> /\ tries' = 0
        /\ \/ at' = "canceling" /\ UNCHANGED outcome
           \/ at' = "done" /\ outcome' \in {"tail failed", Verdict(result, reportError)}
        /\ at = "asking"
    BY <1>6 DEF LogRefused, LogFails, Request, GoesTo, Ends, History, local
  <2>a. Verdict(result, reportError) \in Outcomes
        /\ (Verdict(result, reportError) = "passed" => result = "passed")
    BY VerdictFacts DEF CommandTypes
  <2>2. CommandTypes'
    BY <2>1, <2>a DEF CommandTypes, Outcomes
  <2>3. outcome' = "passed" => outcome = "passed" \/ result = "passed"
    BY <2>1, <2>a
  <2>4. Told("passed") => Told("passed")'
    BY <1>0
  <2>5. outcome' = "passed" => Told("passed")
    BY <2>3 DEF KnowledgeFits
  <2> QED
    BY <1>0, <2>1, <2>2, <2>4, <2>5 DEF KnowledgeFits, CommandTypes
<1>7. ASSUME NEW r \in Verdicts \cup {"none"}, NEW e \in BOOLEAN, at \in {"preflight", "checking"}, Checked(r, e),
             r # "none" => phase \notin {"absent", "queued", "running"},
             r = "passed" => Told("passed"), e => r # "none",
             tries' = 0 /\ UNCHANGED <<heard, failure>>, History
      PROVE  CommandTypes' /\ KnowledgeFits'
  <2>1. /\ UNCHANGED <<heard, failure, interrupted, heardOut>> /\ tries' = 0
        /\ result' = r /\ reportError' = e
        /\ \/ at' = "asking" /\ UNCHANGED outcome
           \/ at' = "done" /\ outcome' = Verdict(r, e)
    BY <1>7 DEF Checked, GoesTo, Ends, History
  <2>a. Verdict(r, e) \in Outcomes /\ (Verdict(r, e) = "passed" => r = "passed")
    BY VerdictFacts
  <2>2. CommandTypes'
    BY <2>1, <2>a DEF CommandTypes
  <2>3. outcome' = "passed" => outcome = "passed" \/ r = "passed"
    BY <2>1, <2>a
  <2>4. Told("passed") => Told("passed")'
    BY <1>0
  <2> QED
    BY <1>0, <1>7, <2>1, <2>2, <2>3, <2>4 DEF KnowledgeFits, CommandTypes
<1>8. CASE StatusAnswered
  <2>1. at \in {"preflight", "checking"} /\ tries' = 0 /\ UNCHANGED <<heard, failure>> /\ History
    BY <1>8 DEF StatusAnswered
  <2>2. CASE record # "none"
    <3>1. Checked(record, report = "failed")
      BY <1>8, <2>2 DEF StatusAnswered
    <3>2. record \in Verdicts /\ phase \notin {"absent", "queued", "running"}
          /\ (record = "passed" => Told("passed"))
      BY <2>2 DEF BuildInv, BuildTypes, RecordFits
    <3> QED
      BY <1>7, <2>1, <2>2, <3>1, <3>2
  <2>3. CASE record = "none"
    <3>1. Checked(result, reportError)
      BY <1>8, <2>3 DEF StatusAnswered
    <3> QED
      BY <1>7, <2>1, <3>1 DEF CommandTypes, KnowledgeFits
  <2> QED
    BY <2>2, <2>3
<1>9. CASE StatusFails
  <2>1. at \in {"preflight", "checking"} /\ tries' = 0 /\ UNCHANGED <<heard, failure>> /\ History
        /\ Checked(result, reportError)
    BY <1>9 DEF StatusFails
  <2> QED
    BY <1>7, <2>1 DEF CommandTypes, KnowledgeFits
<1>10. CASE ItemRead
  <2>1. /\ UNCHANGED <<at, result, reportError, tries, interrupted, outcome, heardOut>>
        /\ Item.seq \in 1..Written
        /\ heard' \in {heard, events[Item.seq]}
        /\ heard' # heard => heard' \in Verdicts /\ heard' = events[Item.seq]
        /\ failure' \in BOOLEAN
    BY <1>10, ItemFacts DEF ItemRead, CommandTypes, Verdicts
  <2>2. CommandTypes'
    BY <2>1 DEF CommandTypes
  <2>3. heard' # "none" => Told(heard')
    BY <2>1 DEF KnowledgeFits, Told
  <2> QED
    BY <1>0, <2>1, <2>2, <2>3 DEF KnowledgeFits, CommandTypes
<1>11. CASE StreamEnds
  <2>1. /\ UNCHANGED <<heard, failure, interrupted, tries>> /\ heardOut' \in BOOLEAN
        /\ result' = IF heard # "none" THEN heard ELSE result
        /\ reportError' = IF heard # "none" THEN failure ELSE reportError
        /\ \/ at' \in {"canceling", "checking"} /\ UNCHANGED outcome
           \/ at' = "done" /\ outcome' = "passed" /\ heard = "passed"
           \/ at' = "done" /\ outcome' = Verdict(heard, failure)
        /\ at = "reading"
    BY <1>11 DEF StreamEnds, Merged, GoesTo, Ends
  <2>a. Verdict(heard, failure) \in Outcomes
        /\ (Verdict(heard, failure) = "passed" => heard = "passed")
    BY VerdictFacts DEF CommandTypes
  <2>2. CommandTypes'
    BY <2>1, <2>a DEF CommandTypes, Outcomes, Verdicts
  <2>3. outcome' = "passed" => outcome = "passed" \/ heard = "passed"
    BY <2>1, <2>a
  <2>4. heard # "none" => phase \notin {"absent", "queued", "running"}
    BY DEF KnowledgeFits, CommandTypes, BuildInv, RecordFits
  <2>5. result' = "passed" => Told("passed")
    BY <2>1 DEF KnowledgeFits
  <2>6. Told("passed") => Told("passed")'
    BY <1>0
  <2>7. heard # "none" => Told(heard)'
    BY <1>0, <2>1 DEF KnowledgeFits, CommandTypes
  <2>8. reportError' => result' # "none"
    BY <2>1 DEF KnowledgeFits
  <2>9. outcome' = "passed" => Told("passed")
    BY <2>3 DEF KnowledgeFits
  <2> QED
    BY <1>0, <2>1, <2>2, <2>4, <2>5, <2>6, <2>7, <2>8, <2>9 DEF KnowledgeFits
<1>12. CASE ReadFails
  <2>1. /\ UNCHANGED <<heard, failure, reportError, interrupted, tries, heardOut>>
        /\ result' = IF heard # "none" THEN heard ELSE result
        /\ \/ at' = "canceling" /\ UNCHANGED outcome
           \/ at' = "done" /\ outcome' = "tail failed"
        /\ at = "reading"
    BY <1>12 DEF ReadFails, GoesTo, Ends
  <2>2. CommandTypes'
    BY <2>1 DEF CommandTypes, Outcomes
  <2>4. heard # "none" => phase \notin {"absent", "queued", "running"}
    BY DEF KnowledgeFits, CommandTypes, BuildInv, RecordFits
  <2>5. result' = "passed" => Told("passed")
    BY <2>1 DEF KnowledgeFits
  <2>6. Told("passed") => Told("passed")'
    BY <1>0
  <2>7. heard # "none" => Told(heard)'
    BY <1>0, <2>1 DEF KnowledgeFits, CommandTypes
  <2> QED
    BY <1>0, <2>1, <2>2, <2>4, <2>5, <2>6, <2>7 DEF KnowledgeFits
<1> QED
  BY <1>2, <1>3, <1>4, <1>5, <1>6, <1>8, <1>9, <1>10, <1>11, <1>12 DEF Next, ClientNext, ElsewhereStarted, vars


-----------------------------------------------------------------------------
\* A command that ends interrupted has canceled what it left, or there is nothing.
LEMMA NoWorkStep ==
  ASSUME BuildInv, BuildGoesOn, CommandTypes, KnowledgeFits, NoWorkLeft, [Next]_vars
  PROVE  NoWorkLeft'
<1> SUFFICES ASSUME at' = "done", interrupted' = TRUE, outcome' \notin {"start failed", "cancel failed"}
             PROVE  canceled' = TRUE \/ phase' \notin {"queued", "running"}
  BY DEF NoWorkLeft
<1>1. phase = "absent" /\ at \notin {"starting", "preflight"} => phase' \notin {"queued", "running"}
  BY NoNewWork
<1>2. /\ phase \notin {"absent", "queued", "running"} => phase' \notin {"absent", "queued", "running"}
      /\ canceled = TRUE => canceled' = TRUE
  BY DEF BuildGoesOn
<1>3. CASE UNCHANGED client
  <2>1. at = "done" /\ interrupted = TRUE /\ outcome \notin {"start failed", "cancel failed"}
    BY <1>3 DEF client, CommandTypes
  <2>2. canceled = TRUE \/ phase \notin {"queued", "running"}
    BY <2>1 DEF NoWorkLeft, BuildInv, BuildTypes
  <2> QED
    BY <1>1, <1>2, <2>1, <2>2
<1>4. CASE StatusAnswered \/ StatusFails
  <2>1. PICK r, e : Checked(r, e) /\ ((r = record /\ record # "none") \/ (r = result /\ e = reportError))
    BY <1>4 DEF StatusAnswered, StatusFails
  <2>2. Terminal(r, e)
    BY <1>4, <2>1 DEF Checked, GoesTo, StatusAnswered, StatusFails
  <2>3. record # "none" \/ result # "none"
    <3>1. r # "none" \/ e = TRUE
      BY <2>1, <2>2 DEF Terminal, CommandTypes, BuildInv, BuildTypes
    <3>2. reportError = TRUE => result # "none"
      BY DEF KnowledgeFits
    <3> QED
      BY <2>1, <3>1, <3>2
  <2>4. phase \notin {"absent", "queued", "running"}
    BY <2>3 DEF KnowledgeFits, BuildInv, RecordFits
  <2> QED
    BY <1>2, <2>4
<1>5. CASE LogRefused
  <2>1. ~remembered /\ at = "asking"
    BY <1>5 DEF LogRefused, Request
  <2>2. phase \notin {"queued", "running"}
    BY <2>1 DEF BuildInv, RecordFits
  <2> QED
    BY <1>1, <1>2, <2>1, <2>2
<1>6. CASE LogFails \/ ReadFails
  <2>1. interrupted = TRUE
    BY <1>6 DEF LogFails, ReadFails, History
  <2> QED
    BY <1>6, <2>1 DEF LogFails, ReadFails, GoesTo
<1>7. CASE Canceled
  <2>1. CancelCall /\ at = "canceling"
    BY <1>7 DEF Canceled, Ends, Request
  <2>2. CASE ~remembered \/ record # "none"
    <3>1. phase \notin {"queued", "running"}
      BY <2>2 DEF BuildInv, RecordFits
    <3> QED
      BY <1>1, <1>2, <2>1, <3>1
  <2>3. CASE ~(~remembered \/ record # "none")
    BY <2>1, <2>3 DEF CancelCall
  <2> QED
    BY <2>2, <2>3
<1>8. CASE StreamEnds
  <2>1. heard = "passed"
    <3>1. interrupted = TRUE
      BY <1>8 DEF StreamEnds
    <3> QED
      BY <1>8, <3>1 DEF StreamEnds, GoesTo
  <2>2. phase \notin {"absent", "queued", "running"}
    BY <2>1 DEF KnowledgeFits, BuildInv, RecordFits, Verdicts
  <2> QED
    BY <1>2, <2>2
<1>9. ~(Started \/ StartFails \/ LogOpened \/ ItemRead \/ Interrupt \/ RequestRepeated)
  BY DEF Started, StartFails, LogOpened, ItemRead, Interrupt, RequestRepeated, GoesTo, Ends
<1> QED
  BY <1>3, <1>4, <1>5, <1>6, <1>7, <1>8, <1>9 DEF Next, ClientNext, ElsewhereStarted, vars

-----------------------------------------------------------------------------
\* Where the command is in the log while the build goes on writing it.
LEMMA ReachRunner ==
  ASSUME LogInv, BuildInv, BuildGoesOn, ReachFits, UNCHANGED client,
         (RunnerNext \/ ElsewhereStarted) \/ UNCHANGED vars
  PROVE  ReachFits'
<1>1. /\ UNCHANGED <<at, from, after, last, heard, failure, outcome, heardOut>> /\ Reached' = Reached
  BY DEF client, local, Reached
<1>2. Written \in Nat /\ Written' \in Nat /\ Written' >= Written /\ from \in Nat /\ Reached \in Nat
  BY DEF BuildGoesOn, LogInv, Reached, Max2
<1>a. /\ from <= Reached /\ (Reached <= from \/ Reached <= Written)
      /\ heard # "none" => from < Written
  BY DEF ReachFits
<1>3. from <= Reached /\ (Reached <= from \/ Reached <= Written')
  BY <1>2, <1>a
<1>4. phase = "done" => phase' = "done" /\ report' = report /\ Written' = Written
  BY DEF BuildGoesOn, Written
<1>5. Told("report failed")' /\ from < Written' /\ Reached >= Written'
        => Told("report failed") /\ from < Written /\ Reached >= Written
  <2>1. \A kind \in Kinds : Told(kind)' => Told(kind) \/ Written' = Written + 1
    BY DEF BuildGoesOn
  <2>2. Told("report failed")' => Told("report failed") \/ Written' = Written + 1
    BY <2>1 DEF Kinds
  <2>3. from < Written' /\ Reached >= Written' => Written' = Written
    BY <1>2, <1>a
  <2>4. Written' = Written => Written' # Written + 1
    BY <1>2
  <2> QED
    BY <2>2, <2>3, <2>4
<1>6. conn' = conn \/ Following
  BY DEF RunnerNext, BuildNext, LeaveQueue, WriteLog, Exit, Recorded, ReportSettled, ReportNoted, Close, WithdrawalTold,
     CanceledElsewhere, Prune, Crash, HandlerNext, Look, Ticked, DoneSeen, Drained, ConnectionGoes, Following,
     ElsewhereStarted, vars, stream
<1>7. /\ conn'.at # "closed" => at = "reading"
      /\ conn'.at = "draining" => phase' = "done" /\ conn'.upto = Written'
      /\ conn'.at = "over" => phase' = "done" /\ Reached >= Written'
  <2>1. CASE conn' = conn
    BY <1>4, <2>1 DEF ReachFits
  <2>2. CASE Look \/ Ticked
    <3>1. at = "reading"
      BY <2>2, FollowingReads DEF Look, Ticked, Following
    <3>2. conn'.at \in {"sending", "looking"}
      BY <2>2 DEF Look, Ticked, Copy, LogInv
    <3> QED
      BY <3>1, <3>2
  <2>3. CASE DoneSeen
    <3>1. conn' = Copy(conn, "draining") /\ phase = "done" /\ at = "reading"
      BY <2>3, FollowingReads DEF DoneSeen, Following
    <3>2. conn'.at = "draining" /\ conn'.upto = Written
      BY <3>1 DEF Copy
    <3> QED
      BY <1>4, <3>1, <3>2
  <2>4. CASE Drained
    <3>1. conn.at = "draining" /\ CopyWritten /\ conn' = [conn EXCEPT !.at = "over"]
      BY <2>4 DEF Drained
    <3>2. at = "reading" /\ phase = "done" /\ conn.upto = Written /\ conn.next >= conn.upto
      BY <3>1 DEF ReachFits, CopyWritten
    <3>3. conn.next = Reached
      BY <3>1, <3>2 DEF LogInv, Following, Reached
    <3>4. conn'.at = "over"
      BY <3>1 DEF LogInv
    <3> QED
      BY <1>4, <3>2, <3>3, <3>4
  <2>5. CASE Following /\ conn'.at \in {"cut", "reset"}
    BY <2>5, FollowingReads
  <2>6. ASSUME NEW how \in {"cut", "reset"}, ConnectionGoes(how) PROVE Following /\ conn'.at \in {"cut", "reset"}
    BY <2>6 DEF ConnectionGoes, LogInv
  <2>7. CASE Crash /\ Following
    <3>1. conn' = [conn EXCEPT !.at = "reset"]
      BY <2>7 DEF Crash
    <3> QED
      BY <2>5, <2>7, <3>1 DEF LogInv
  <2>8. CASE BuildNext \/ CanceledElsewhere \/ Prune \/ ElsewhereStarted \/ UNCHANGED vars \/ (Crash /\ ~Following)
    <3>1. conn' = conn
      BY <2>8, BuildWrites DEF Crash, ElsewhereStarted, vars, stream
    <3> QED
      BY <2>1, <3>1
  <2> QED
    BY <2>2, <2>3, <2>4, <2>5, <2>6, <2>7, <2>8 DEF RunnerNext, HandlerNext
<1>8. heard # "none" => from < Written'
  BY <1>2, <1>a
<1>9. heardOut => phase' = "done" /\ report' = report /\ Written' = Written
  BY <1>4 DEF ReachFits
<1> QED
  BY <1>1, <1>3, <1>5, <1>7, <1>8, <1>9 DEF ReachFits

\* Requests, and the interrupt: the command stays where it is in the log.
LEMMA ReachRequests ==
  ASSUME LogInv, BuildInv, BuildGoesOn, ReachFits, CommandTypes, UNCHANGED <<events, conn, from, after, last, heard, heardOut>>,
         Reached' = Reached,
         \/ UNCHANGED <<at, failure, outcome>>
         \/ at \notin {"reading", "canceling", "done"} /\ at' # "reading"
         \/ at = "canceling" /\ at' = "done" /\ outcome' # "passed"
  PROVE  ReachFits'
<1>1. Written' = Written /\ \A k : Told(k)' <=> Told(k)
  BY DEF Written, Told
<1>2. phase = "done" => phase' = "done" /\ report' = report
  BY DEF BuildGoesOn
<1>3. /\ conn.at # "closed" => at' = "reading"
      /\ Told("report failed") /\ from < Written /\ Reached >= Written
           => (at' = "reading" /\ failure') \/ at' = "canceling" \/ (at' = "done" /\ outcome' # "passed")
      /\ heardOut /\ report = "failed" /\ from < Written
           => at' \in {"canceling", "done"} /\ outcome' # "passed"
  BY DEF ReachFits
<1>4. Told("report failed")' => Told("report failed")
  BY <1>1
<1> QED
  BY <1>1, <1>2, <1>3, <1>4 DEF ReachFits


\* The event of a failed report is the last one there is.
LEMMA LastIsFailure ==
  ASSUME ReportFits, Told("report failed")
  PROVE  Written \in 1..Written /\ events[Written] = "report failed"
<1>1. PICK i \in 1..Written : events[i] = "report failed"
  BY DEF Told
<1> QED
  BY <1>1 DEF ReportFits

\* The command reads: it comes to the event of a failed report knowing it.
LEMMA ReachReading == LogInv /\ BuildInv /\ CommandTypes /\ ReachFits /\ ItemRead => ReachFits'
<1> SUFFICES ASSUME LogInv, BuildInv, CommandTypes, ReachFits, ItemRead PROVE ReachFits'
  OBVIOUS
<1>1. /\ at = "reading" /\ Sending
      /\ UNCHANGED <<phase, events, report, at, from, outcome, heardOut>>
  BY DEF ItemRead, build
<1>2. /\ Reached' = Item.seq /\ Item.seq > Reached /\ Item.seq \in 1..Written
      /\ Item.gap => Item.seq < Written
      /\ Written' = Written /\ Written \in Nat
  BY ItemFacts
<1>3. from \in Nat /\ Reached \in Nat
  BY DEF LogInv, Reached, Max2
<1>4. from <= Reached' /\ Reached' <= Written' /\ from < Written'
  <2>1. from <= Reached
    BY DEF ReachFits
  <2> QED
    BY <1>2, <1>3, <2>1
<1>5. conn' = [conn EXCEPT !.next = Item.seq, !.notice = 0] /\ conn'.at = conn.at /\ conn'.upto = conn.upto
  BY DEF ItemRead, ItemSent, LogInv
<1>6. /\ conn'.at # "closed" => at = "reading"
      /\ conn'.at = "draining" => phase = "done" /\ conn'.upto = Written
      /\ conn'.at # "over"
  BY <1>1, <1>5 DEF ReachFits, Sending
<1>7. Told("report failed")' /\ Reached' >= Written' => failure' = TRUE
  <2>1. Told("report failed")' <=> Told("report failed")
    BY <1>1, <1>2 DEF Told
  <2>2. SUFFICES ASSUME Told("report failed"), Item.seq >= Written PROVE failure' = TRUE
    BY <1>2, <2>1
  <2>3. Item.seq = Written
    <3>1. Item.seq \in Nat /\ Item.seq <= Written /\ Written \in Nat
      BY <1>2
    <3>2. Item.seq >= Written
      BY <2>2
    <3> QED
      BY <3>1, <3>2
  <2>5. ~Item.gap
    BY <1>2, <2>3
  <2>4. events[Written] = "report failed"
    BY <2>2, LastIsFailure DEF BuildInv
  <2> QED
    BY <2>3, <2>4, <2>5 DEF ItemRead
<1>8. heardOut => phase = "done"
  BY DEF ReachFits
<1>9. ~(heardOut /\ report = "failed" /\ from < Written)
  BY <1>1 DEF ReachFits
<1> QED
  BY <1>1, <1>2, <1>4, <1>6, <1>7, <1>8, <1>9 DEF ReachFits

\* A connection ends, and with it what was heard on it becomes what is known.
LEMMA ReachEnding ==
  ASSUME LogInv, BuildInv, CommandTypes, KnowledgeFits, ReachFits, StreamEnds \/ ReadFails
  PROVE  ReachFits'
<1>1. /\ at = "reading" /\ conn'.at = "closed"
      /\ after' = Max2(after, last)
      /\ UNCHANGED <<phase, events, report, from, heard, failure>>
  <2>1. CASE StreamEnds
    BY <2>1 DEF StreamEnds, Merged, Closed, build
  <2>2. CASE ReadFails
    BY <2>2 DEF ReadFails, Closed, build
  <2> QED
    BY <2>1, <2>2
<1>2. /\ Written' = Written
      /\ Told("report failed")' <=> Told("report failed")
  BY <1>1 DEF Written, Told
<1>3. at' # "reading"
  BY DEF StreamEnds, ReadFails, Ends, GoesTo
<1>4. Reached' = Reached
  BY <1>1, <1>3 DEF Reached
<1>5. Told("report failed") /\ from < Written /\ Reached >= Written => failure = TRUE
  BY <1>1 DEF ReachFits, CommandTypes
<1>6. failure = TRUE => at' = "canceling" \/ (at' = "done" /\ outcome' # "passed")
  BY VerdictFacts DEF StreamEnds, ReadFails, Ends, GoesTo, CommandTypes
<1>7. heardOut' => phase = "done"
  BY DEF StreamEnds, ReadFails, ReachFits
<1>8. heardOut' /\ report = "failed" /\ from < Written => failure = TRUE
  <2>1. CASE StreamEnds
    <3>1. SUFFICES ASSUME conn.at = "over", report = "failed", from < Written PROVE failure = TRUE
      BY <2>1 DEF StreamEnds
    <3>2. phase = "done" /\ Reached >= Written
      BY <3>1 DEF ReachFits
    <3>3. Told("report failed")
      BY <3>1, <3>2 DEF BuildInv, ReportFits
    <3> QED
      BY <1>5, <3>1, <3>2, <3>3
  <2>2. CASE ReadFails
    BY <1>1, <2>2 DEF ReadFails, ReachFits
  <2> QED
    BY <2>1, <2>2
<1>9. from <= Reached /\ (Reached <= from \/ Reached <= Written) /\ (heard # "none" => from < Written)
  BY DEF ReachFits
<1>10. Told("report failed")' /\ from' < Written' /\ Reached' >= Written'
         => at' = "canceling" \/ (at' = "done" /\ outcome' # "passed")
  BY <1>1, <1>2, <1>4, <1>5, <1>6
<1>11. heardOut' /\ report' = "failed" /\ from' < Written'
         => at' \in {"canceling", "done"} /\ outcome' # "passed"
  <2>1. at' = "canceling" => outcome' = outcome
    BY DEF StreamEnds, ReadFails, Ends, GoesTo
  <2>2. outcome = "none"
    BY <1>1 DEF KnowledgeFits
  <2> QED
    BY <1>1, <1>2, <1>6, <1>8, <2>1, <2>2
<1> QED
  BY <1>1, <1>2, <1>4, <1>7, <1>9, <1>10, <1>11 DEF ReachFits

LEMMA ReachStep ==
  ASSUME LogInv, BuildInv, BuildGoesOn, CommandTypes, KnowledgeFits, ReachFits, [Next]_vars
  PROVE  ReachFits'
<1>1. CASE RunnerNext /\ UNCHANGED client
  BY <1>1, ReachRunner
<1>2. CASE ElsewhereStarted \/ UNCHANGED vars
  BY <1>2, ReachRunner DEF ElsewhereStarted, vars
<1>3. CASE Interrupt
  <2>1. UNCHANGED <<events, conn, from, after, last, heard, heardOut, at, failure, outcome>> /\ Reached' = Reached
    BY <1>3 DEF Interrupt, stream, build, local, Reached
  <2> QED
    BY <2>1, ReachRequests
<1>4. CASE RequestRepeated
  <2>1. UNCHANGED <<events, conn, from, after, last, heard, heardOut, at, failure, outcome>> /\ Reached' = Reached
    BY <1>4, RequestsKeep DEF RequestRepeated, Accepted, CancelCall, History, stream, local, Reached, build
  <2> QED
    BY <2>1, ReachRequests
<1>5. CASE Started \/ StartFails \/ StatusAnswered \/ StatusFails \/ LogRefused \/ LogFails
  <2>1. UNCHANGED <<events, conn, from, after, last, heard, heardOut>>
        /\ at \notin {"reading", "canceling", "done"} /\ at' # "reading"
    BY <1>5, RequestsKeep DEF Started, StartFails, StatusAnswered, StatusFails, LogRefused, LogFails, Request, Checked,
       Ends, GoesTo, History, stream, local
  <2>2. Reached' = Reached
    BY <2>1 DEF Reached
  <2> QED
    BY <2>1, <2>2, ReachRequests
<1>6. CASE Canceled
  <2>1. UNCHANGED <<events, conn, from, after, last, heard, heardOut>>
        /\ at = "canceling" /\ at' = "done" /\ outcome' # "passed"
    BY <1>6, RequestsKeep DEF Canceled, Request, Ends, History, stream, local
  <2>2. Reached' = Reached
    BY <2>1 DEF Reached
  <2> QED
    BY <2>1, <2>2, ReachRequests
<1>7. CASE LogOpened
  <2>1. /\ at = "asking" /\ at' = "reading" /\ conn'.at = "looking" /\ heard' = "none" /\ last' = 0
        /\ UNCHANGED <<phase, events, report, from, after, outcome, heardOut>>
    BY <1>7 DEF LogOpened, Request, Opened, Closed, GoesTo, History, build
  <2>2. Written' = Written /\ (Told("report failed")' <=> Told("report failed"))
    BY <2>1 DEF Written, Told
  <2>3. Reached' = Reached
    BY <2>1 DEF Reached, Max2, LogInv
  <2> QED
    BY <2>1, <2>2, <2>3 DEF ReachFits
<1> QED
  BY <1>1, <1>2, <1>3, <1>4, <1>5, <1>6, <1>7, ReachReading, ReachEnding DEF Next, ClientNext

-----------------------------------------------------------------------------
CommandInv == BuildInv /\ CommandTypes /\ KnowledgeFits /\ NoWorkLeft /\ ReachFits

LEMMA CommandStarts == Init => CommandInv
<1> SUFFICES ASSUME Init PROVE CommandInv
  OBVIOUS
<1>1. LogInv
  BY LogStarts
<1>2. events = <<>> /\ Written = 0 /\ \A k : ~Told(k)
  BY DEF Init, StreamInit, Written, Told
<1>3. withReport \in BOOLEAN
  BY DEF Init, StreamInit
<1>4. BuildInv
  <2>1. phase = "absent" /\ canceled = FALSE /\ record = "none" /\ report = "none" /\ remembered = FALSE
    BY DEF Init, StreamInit
  <2>2. BuildTypes
    BY <1>2, <1>3, <2>1, EmptySeq DEF BuildTypes
  <2>3. RecordFits
    BY <1>2, <2>1 DEF RecordFits
  <2>4. ReportFits
    <3>1. 1..Written = {}
      BY <1>2
    <3> QED
      BY <1>2, <2>1, <3>1 DEF ReportFits
  <2> QED
    BY <2>2, <2>3, <2>4 DEF BuildInv
<1>5. at \in {"starting", "preflight"}
  BY DEF Init
<1>6. CommandTypes /\ KnowledgeFits /\ NoWorkLeft
  BY <1>5 DEF Init, StreamInit, CommandTypes, KnowledgeFits, NoWorkLeft, Outcomes
<1>7. Reached = from /\ from \in Nat
  BY <1>1, <1>5 DEF Init, Reached, LogInv
<1>8. ReachFits
  <2>1. conn.at = "closed" /\ heard = "none" /\ heardOut = FALSE
    BY DEF Init, StreamInit, Closed
  <2>2. ~Told("report failed")
    BY <1>2
  <2>3. from <= Reached /\ Reached <= from
    BY <1>7
  <2> QED
    BY <2>1, <2>2, <2>3 DEF ReachFits
<1> QED
  BY <1>4, <1>6, <1>8 DEF CommandInv

LEMMA CommandStep == LogInv /\ CommandInv /\ [Next]_vars => CommandInv'
<1> SUFFICES ASSUME LogInv, CommandInv, [Next]_vars PROVE CommandInv'
  OBVIOUS
<1>1. BuildInv' /\ BuildGoesOn
  BY BuildKeeps, StepsOfBuild DEF CommandInv
<1> QED
  BY <1>1, KnowledgeStep, NoWorkStep, ReachStep DEF CommandInv

LEMMA CommandAlways == Spec => [](LogInv /\ CommandInv)
<1>1. LogInv /\ CommandInv /\ [Next]_vars => CommandInv'
  BY CommandStep
<1> QED
  BY <1>1, CommandStarts, LogInvariance, PTL DEF Spec

-----------------------------------------------------------------------------
\* The variables of build, connection and command always have their types.
THEOREM CommandTypesKept == Spec => []TypeOK
<1>1. LogInv /\ CommandInv => TypeOK
  BY DEF LogInv, CommandInv, BuildInv, BuildTypes, CommandTypes, TypeOK, StreamTypeOK
<1> QED
  BY <1>1, CommandAlways, PTL

\* Exit code 0 means that the build passed, wherever the command has it from.
THEOREM SuccessIsGenuine == Spec => []SuccessGenuine
<1>1. LogInv /\ CommandInv => SuccessGenuine
  BY DEF CommandInv, BuildInv, RecordFits, KnowledgeFits, SuccessGenuine, Told
<1> QED
  BY <1>1, CommandAlways, PTL

\* An interrupted command leaves no work behind that nobody has canceled.
THEOREM NoWorkIsLeft == Spec => []NoWorkLeft
<1>1. LogInv /\ CommandInv => NoWorkLeft
  BY DEF CommandInv
<1> QED
  BY <1>1, CommandAlways, PTL

\* The command was told to begin after the event that tells of the failed report.
Skipped == \E i \in 1..Written : i <= from /\ events[i] = "report failed"

\* A command that has read the log to its end does not succeed over a failed
\* report, unless -after told it to skip the very event that says so.
THEOREM FailedReportsShown == Spec => [](ReportFailureShown \/ Skipped)
<1>1. LogInv /\ CommandInv => ReportFailureShown \/ Skipped
  <2> SUFFICES ASSUME LogInv, CommandInv, outcome = "passed", heardOut, report = "failed" PROVE Skipped
    BY DEF ReportFailureShown
  <2>1. phase = "done" /\ ~(from < Written)
    BY DEF CommandInv, ReachFits
  <2>2. Told("report failed")
    BY <2>1 DEF CommandInv, BuildInv, ReportFits
  <2>3. Written \in Nat /\ from \in Nat
    BY DEF LogInv, Written
  <2>4. Written \in 1..Written /\ events[Written] = "report failed"
    BY <2>2, LastIsFailure DEF CommandInv, BuildInv
  <2>5. Written <= from
    BY <2>1, <2>3
  <2> QED
    BY <2>4, <2>5 DEF Skipped
<1> QED
  BY <1>1, CommandAlways, PTL

\* So a command that starts its build, or follows it from the first or the
\* second event on, never succeeds over a failed report it has read to.
THEOREM FailedReportsAlwaysShown ==
  ASSUME \A a \in Afters : a <= 1
  PROVE  Spec => []ReportFailureShown
<1>1. Init => from <= 1
  <2> SUFFICES ASSUME Init PROVE from <= 1
    OBVIOUS
  <2>1. from = 0 \/ from \in Afters
    BY DEF Init
  <2>2. \A a \in Afters : a \in Nat /\ a <= 1
    BY DEF ClientAssumption
  <2>3. CASE from \in Afters
    BY <2>2, <2>3
  <2> QED
    BY <2>1, <2>3
<1>2. from <= 1 /\ [Next]_vars => (from <= 1)'
  <2>1. [Next]_vars => from' = from
    BY DEF Next, vars, client, ElsewhereStarted, Interrupt, RequestRepeated, ClientNext, Started, StartFails,
       StatusAnswered, StatusFails, LogOpened, LogRefused, LogFails, Canceled, ItemRead, StreamEnds, ReadFails, History
  <2> QED
    BY <2>1
<1>3. LogInv /\ CommandInv /\ from <= 1 /\ (ReportFailureShown \/ Skipped) => ReportFailureShown
  <2> SUFFICES ASSUME LogInv, CommandInv, from <= 1, Skipped, outcome = "passed" PROVE FALSE
    BY DEF ReportFailureShown
  <2>1. PICK i \in 1..Written : i <= from /\ events[i] = "report failed"
    BY DEF Skipped
  <2>2. PICK j \in 1..Written : events[j] = "passed"
    BY DEF CommandInv, KnowledgeFits, Told
  <2>3. i = Written
    BY <2>1 DEF CommandInv, BuildInv, ReportFits
  <2>4. Written \in Nat /\ from \in Nat
    BY DEF LogInv, Written
  <2>5. i = 1
    <3>1. i <= from
      BY <2>1
    <3>2. i \in Nat /\ i >= 1
      BY <2>4
    <3> QED
      BY <2>4, <3>1, <3>2
  <2>6. j = 1
    BY <2>2, <2>3, <2>5
  <2> QED
    BY <2>1, <2>2, <2>5, <2>6
<1> QED
  BY <1>1, <1>2, <1>3, CommandAlways, FailedReportsShown, PTL DEF Spec

=============================================================================
