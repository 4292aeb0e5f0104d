------------------------- MODULE RunnerBuildsProofs -------------------------
(***************************************************************************)
(* IInv is an invariant of RunnerBuilds, for any number of builds, clients *)
(* and report attempts and any queue limit; with it, the safety properties *)
(* of the queue and of the slot.                                           *)
(***************************************************************************)
EXTENDS RunnerInvariant, TLAPS

USE BuildsAssumption

\* Taking b out of the queue leaves the other entries, in their order.
LEMMA WithoutEntry ==
  ASSUME NEW S, NEW q \in Seq(S), NEW b, \E i \in DOMAIN q : q[i] = b
  PROVE  \E k \in 1..Len(q) :
           /\ q[k] = b
           /\ Without(q, b) \in Seq(S)
           /\ Len(Without(q, b)) = Len(q) - 1
           /\ \A i \in 1..(Len(q) - 1) : Without(q, b)[i] = IF i < k THEN q[i] ELSE q[i + 1]
<1> DEFINE k == CHOOSE i \in DOMAIN q : q[i] = b
<1>1. k \in 1..Len(q) /\ q[k] = b
  OBVIOUS
<1>2. Without(q, b) = [i \in 1..(Len(q) - 1) |-> IF i < k THEN q[i] ELSE q[i + 1]]
  BY DEF Without
<1> HIDE DEF k
<1>3. \A i \in 1..(Len(q) - 1) : (IF i < k THEN q[i] ELSE q[i + 1]) \in S
  BY <1>1
<1>4. Len(q) - 1 \in Nat
  BY <1>1
<1> QED
  BY <1>1, <1>2, <1>3, <1>4

\* What is left of the queue behind its i-th entry.
LEMMA Behind ==
  ASSUME NEW S, NEW q \in Seq(S), NEW i \in DOMAIN q
  PROVE  /\ SubSeq(q, i + 1, Len(q)) \in Seq(S)
         /\ Len(SubSeq(q, i + 1, Len(q))) = Len(q) - i
         /\ \A j \in 1..(Len(q) - i) : SubSeq(q, i + 1, Len(q))[j] = q[i + j]
  OBVIOUS

-----------------------------------------------------------------------------
\* The helpers of the actions keep the types of what they assign.
LEMMA HelperTypes ==
  ASSUME TypeOK
  PROVE  /\ \A b \in Builds : \A step \in Steps : Goto(b, step) => pc' \in [Builds -> Steps]
         /\ \A b \in Builds : \A message \in Messages :
              Emit(b, message) => stream' \in [Builds -> Seq(Messages)]
         /\ \A c \in Handlers : \A where \in HandlerSteps : \A b \in Builds \cup {None} :
              At(c, where, b) => handler' \in [Handlers -> HandlerStates]
         /\ \A b \in Builds : \A verdict \in Verdicts : \A state \in ReportStates :
              WriteLedger(b, verdict, state) => ledger' \in [Builds -> LedgerLines \cup {None}]
         /\ RequestRefresh => refresh' \in BOOLEAN
<1>1. ASSUME NEW b \in Builds, NEW step \in Steps, Goto(b, step) PROVE pc' \in [Builds -> Steps]
  BY <1>1 DEF TypeOK, Goto
<1>2. ASSUME NEW b \in Builds, NEW message \in Messages, Emit(b, message)
      PROVE  stream' \in [Builds -> Seq(Messages)]
  BY <1>2 DEF TypeOK, Emit
<1>3. ASSUME NEW c \in Handlers, NEW where \in HandlerSteps, NEW b \in Builds \cup {None}, At(c, where, b)
      PROVE  handler' \in [Handlers -> HandlerStates]
  <2>1. [at |-> where, build |-> b] \in HandlerStates
    BY DEF HandlerStates
  <2> QED
    BY <1>3, <2>1 DEF TypeOK, At
<1>4. ASSUME NEW b \in Builds, NEW verdict \in Verdicts, NEW state \in ReportStates,
             WriteLedger(b, verdict, state)
      PROVE  ledger' \in [Builds -> LedgerLines \cup {None}]
  <2>1. [verdict |-> verdict, report |-> state] \in LedgerLines
    BY DEF LedgerLines
  <2>2. ledger \in [Builds -> LedgerLines \cup {None}]
    BY DEF TypeOK
  <2> QED
    BY <1>4, <2>1, <2>2 DEF WriteLedger
<1>5. RequestRefresh => refresh' \in BOOLEAN
  BY DEF TypeOK, RequestRefresh
<1> QED
  BY <1>1, <1>2, <1>3, <1>4, <1>5

-----------------------------------------------------------------------------
\* Type correctness of a step.
LEMMA TypeStep == IInv /\ [Next]_vars => TypeOK'
<1> SUFFICES ASSUME IInv, [Next]_vars PROVE TypeOK'
  OBVIOUS
<1> USE DEF IInv, TypeOK
<1>1. ASSUME NEW r \in Requests, NEW reports \in Callbacks, NEW b \in Builds, StartBuild(r, reports, b)
      PROVE  TypeOK'
  <2>1. builds' \subseteq Issued' /\ request' \in [Builds -> Requests \cup {None}]
    BY <1>1 DEF StartBuild, Issued
  <2>2. pc' \in [Builds -> Steps]
    BY <1>1, HelperTypes DEF StartBuild, Steps
  <2>3. queue' \in Seq(Builds) /\ active' \in Builds \cup {None} /\ started' \subseteq Builds
    <3>1. Append(queue, b) \in Seq(Builds)
      OBVIOUS
    <3>2. queue' \in {queue, Append(queue, b)} /\ active' \in {active, b}
            /\ started' \in {started, started \cup {b}}
      BY <1>1 DEF StartBuild
    <3> QED
      BY <3>1, <3>2
  <2>4. reportStatus' \in [Builds -> ReportStates] /\ withReport' \subseteq Builds
    BY <1>1 DEF StartBuild, ReportStates
  <2>5. refresh' \in BOOLEAN
    BY <1>1, HelperTypes DEF StartBuild
  <2> QED
    BY <1>1, <2>1, <2>2, <2>3, <2>4, <2>5 DEF StartBuild
<1>2. ASSUME NEW b \in Builds, PrepareFails(b) PROVE TypeOK'
  <2>1. PICK verdict \in {"failed", "canceled"} :
          result' = [result EXCEPT ![b] = verdict] /\ Emit(b, verdict)
    BY <1>2 DEF PrepareFails
  <2>2. stream' \in [Builds -> Seq(Messages)] /\ result' \in [Builds -> Results]
    BY <2>1, HelperTypes DEF Messages, Results, Verdicts
  <2>3. pc' \in [Builds -> Steps]
    BY <1>2, HelperTypes DEF PrepareFails, Steps
  <2> QED
    BY <1>2, <2>2, <2>3 DEF PrepareFails, QueueUnchanged, Issued, issue
<1>3. ASSUME NEW b \in Builds, CommandStarts(b) PROVE TypeOK'
  BY <1>3, HelperTypes DEF CommandStarts, QueueUnchanged, Steps, Issued, issue
<1>4. ASSUME NEW b \in Builds, CommandExits(b) PROVE TypeOK'
  <2>1. PICK outcome \in Verdicts \cup {"timed out"} : result' = [result EXCEPT ![b] = outcome]
    BY <1>4 DEF CommandExits, Verdicts
  <2>2. result' \in [Builds -> Results]
    BY <2>1 DEF Results
  <2>3. pc' \in [Builds -> Steps]
    BY <1>4, HelperTypes DEF CommandExits, Steps
  <2> QED
    BY <1>4, <2>2, <2>3 DEF CommandExits, QueueUnchanged, Issued, issue
<1>5. ASSUME NEW b \in Builds, CommandAnnounced(b) PROVE TypeOK'
  BY <1>5, HelperTypes DEF CommandAnnounced, QueueUnchanged, StepsFit, Fits, Steps, Messages, Verdicts, Issued, issue
<1>6. ASSUME NEW b \in Builds, RecordSet(b) PROVE TypeOK'
  BY <1>6, HelperTypes DEF RecordSet, QueueUnchanged, StepsFit, Fits, Steps, Results, Verdicts, Issued, issue
<1>7. ASSUME NEW b \in Builds, RecordWritten(b) PROVE TypeOK'
  BY <1>7, HelperTypes DEF RecordWritten, QueueUnchanged, StepsFit, Fits, Decided, Steps, Issued, issue
<1>8. ASSUME NEW b \in Builds, ReportAttempt(b) PROVE TypeOK'
  <2>1. receipts' \subseteq Builds \X Verdicts
    <3>1. record[b] \in Verdicts
      BY <1>8 DEF ReportAttempt, StepsFit, Fits, Decided
    <3>2. receipts' \in {receipts, receipts \cup {<<b, record[b]>>}}
      BY <1>8 DEF ReportAttempt
    <3> QED
      BY <3>1, <3>2
  <2>2. pc' \in [Builds -> Steps]
    BY <1>8, HelperTypes DEF ReportAttempt, ReportEnds, Steps
  <2>3. result' \in [Builds -> Results]
    BY <1>8 DEF ReportAttempt, ReportEnds, Results
  <2>4. attempt' \in [Builds -> 0..(ReportAttempts - 1)]
    <3>1. attempt \in [Builds -> 0..(ReportAttempts - 1)] /\ attempt[b] \in Nat
      OBVIOUS
    <3>2. \/ attempt' = [attempt EXCEPT ![b] = 0]
          \/ attempt' = [attempt EXCEPT ![b] = @ + 1] /\ attempt[b] + 1 < ReportAttempts
      BY <1>8 DEF ReportAttempt, ReportEnds
    <3> HIDE DEF TypeOK
    <3>3. PICK n \in 0..(ReportAttempts - 1) : attempt' = [attempt EXCEPT ![b] = n]
      BY <3>1, <3>2
    <3> QED
      BY <3>1, <3>3
  <2> QED
    BY <1>8, <2>1, <2>2, <2>3, <2>4 DEF ReportAttempt, QueueUnchanged, Issued, issue
<1>9. ASSUME NEW b \in Builds, ReportSettled(b) PROVE TypeOK'
  BY <1>9, HelperTypes DEF ReportSettled, QueueUnchanged, Steps, ReportStates, Issued, issue
<1>10. ASSUME NEW b \in Builds, ReportNoted(b) PROVE TypeOK'
  BY <1>10, HelperTypes DEF ReportNoted, QueueUnchanged, StepsFit, Fits, Decided, Steps, Issued, issue
<1>11. ASSUME NEW b \in Builds, ReportTold(b) PROVE TypeOK'
  BY <1>11, HelperTypes DEF ReportTold, QueueUnchanged, StepsFit, Fits, Steps, Messages, Results, Issued, issue
<1>12. ASSUME NEW b \in Builds, CompleteBuild(b) PROVE TypeOK'
  <2>1. pc' \in [Builds -> Steps]
    <3>1. \/ pc' = [pc EXCEPT ![b] = "closing"]
          \/ \E i \in DOMAIN queue : pc' = [pc EXCEPT ![b] = "closing", ![queue[i]] = "preparing"]
      BY <1>12 DEF CompleteBuild, Startable, Goto
    <3>2. pc \in [Builds -> Steps] /\ {"closing", "preparing"} \subseteq Steps
      BY DEF Steps
    <3> HIDE DEF TypeOK
    <3> QED
      BY <3>1, <3>2
  <2>2. queue' \in Seq(Builds) /\ active' \in Builds \cup {None} /\ started' \subseteq Builds
    <3>1. \/ active' = None /\ queue' = <<>> /\ started' = started
          \/ \E i \in DOMAIN queue :
               active' = queue[i] /\ queue' = SubSeq(queue, i + 1, Len(queue))
                 /\ started' = started \cup {queue[i]}
          \/ UNCHANGED <<active, queue, started>>
      BY <1>12 DEF CompleteBuild, Startable
    <3>2. \A i \in DOMAIN queue : queue[i] \in Builds /\ SubSeq(queue, i + 1, Len(queue)) \in Seq(Builds)
      BY Behind
    <3>3. <<>> \in Seq(Builds)
      OBVIOUS
    <3> HIDE DEF TypeOK
    <3>4. active \in Builds \cup {None} /\ queue \in Seq(Builds) /\ started \subseteq Builds
      BY DEF TypeOK
    <3> QED
      BY <3>1, <3>2, <3>3, <3>4
  <2>3. builds' \subseteq Issued'
    BY <1>12 DEF CompleteBuild, Issued, issue
  <2>4. refresh' \in BOOLEAN
    BY <1>12, HelperTypes DEF CompleteBuild
  <2> QED
    BY <1>12, <2>1, <2>2, <2>3, <2>4 DEF CompleteBuild, issue
<1>13. ASSUME NEW b \in Builds, DoneClosed(b) PROVE TypeOK'
  BY <1>13, HelperTypes DEF DoneClosed, QueueUnchanged, Steps, Issued, issue
<1>14. ASSUME NEW b \in Builds, RunClosed(b) PROVE TypeOK'
  BY <1>14, HelperTypes DEF RunClosed, QueueUnchanged, Steps, Issued, issue
<1>15. ASSUME NEW c \in Clients, NEW b \in Builds, CancelAccepted(c, b) PROVE TypeOK'
  BY <1>15, HelperTypes DEF CancelAccepted, RunsUnchanged, HandlerSteps, Handlers, Issued, issue
<1>16. ASSUME NEW c \in Clients, NEW value \in BOOLEAN, SetAccepting(c, value) PROVE TypeOK'
  BY <1>16, HelperTypes DEF SetAccepting, HandlerSteps, Handlers, Issued, issue
<1>17. ASSUME NEW c \in Handlers, CancelDequeues(c) PROVE TypeOK'
  <2> DEFINE b == handler[c].build
  <2>1. b \in Builds
    BY <1>17 DEF CancelDequeues, HandlersFit
  <2>2. queue' \in Seq(Builds)
    BY <1>17, <2>1, WithoutEntry DEF CancelDequeues, InQueue
  <2>3. pc' \in [Builds -> Steps]
    BY <1>17, <2>1, HelperTypes DEF CancelDequeues, Steps
  <2>4. handler' \in [Handlers -> HandlerStates]
    BY <1>17, <2>1, HelperTypes DEF CancelDequeues, HandlerSteps
  <2> QED
    BY <1>17, <2>2, <2>3, <2>4 DEF CancelDequeues, RunsUnchanged, Issued, issue
<1>18. ASSUME NEW c \in Handlers, CancelSignals(c) PROVE TypeOK'
  <2>1. handler[c].build \in Builds
    BY <1>18 DEF CancelSignals, HandlersFit
  <2>2. handler' \in [Handlers -> HandlerStates]
    BY <1>18, HelperTypes DEF CancelSignals, HandlerSteps
  <2> QED
    BY <1>18, <2>1, <2>2 DEF CancelSignals, RunsUnchanged, Issued, issue
<1>19. ASSUME NEW c \in Handlers, CancelRecords(c) PROVE TypeOK'
  <2> DEFINE b == handler[c].build
  <2>1. b \in Builds
    BY <1>19 DEF CancelRecords, HandlersFit, Publishing
  <2>2. record' \in [Builds -> Verdicts \cup {"none"}] /\ canceled' \subseteq Builds
    BY <1>19, <2>1 DEF CancelRecords, Verdicts
  <2>3. handler' \in [Handlers -> HandlerStates]
    BY <1>19, <2>1, HelperTypes DEF CancelRecords, HandlerSteps
  <2>4. refresh' \in BOOLEAN
    BY <1>19, HelperTypes DEF CancelRecords
  <2> QED
    BY <1>19, <2>2, <2>3, <2>4 DEF CancelRecords, RunsUnchanged, Issued, issue
<1>20. ASSUME NEW c \in Handlers, CancelNotes(c) PROVE TypeOK'
  BY <1>20, HelperTypes DEF CancelNotes, RunsUnchanged, HandlersFit, Publishing, HandlerSteps, Issued, issue
<1>21. ASSUME NEW c \in Handlers, CancelAnnounces(c) PROVE TypeOK'
  BY <1>21, HelperTypes DEF CancelAnnounces, RunsUnchanged, HandlersFit, Publishing, HandlerSteps, Steps, Messages, Verdicts, Issued, issue
<1>22. ASSUME NEW c \in Handlers, AvailabilityRefreshes(c) PROVE TypeOK'
  BY <1>22, HelperTypes DEF AvailabilityRefreshes, RunsUnchanged, HandlerSteps, Issued, issue
<1>23. CASE BeginShutdown
  BY <1>23 DEF BeginShutdown, Issued, issue
<1>24. ASSUME NEW b \in Builds, ShutdownCancels(b) PROVE TypeOK'
  BY <1>24, HelperTypes DEF ShutdownCancels, HandlerSteps, Handlers, Issued, issue
<1>25. ASSUME NEW b \in Builds, ShutdownAwaits(b) PROVE TypeOK'
  BY <1>25 DEF ShutdownAwaits, Issued, issue
<1>26. CASE MemoryLost
  <2>1. handler' \in [Handlers -> HandlerStates]
    <3>1. [at |-> "idle", build |-> None] \in HandlerStates
      BY DEF HandlerStates, HandlerSteps
    <3> QED
      BY <1>26, <3>1 DEF MemoryLost, IdleHandlers
  <2>2. /\ pc' \in [Builds -> Steps] /\ result' \in [Builds -> Results]
        /\ record' \in [Builds -> Verdicts \cup {"none"}]
        /\ reportStatus' \in [Builds -> ReportStates]
    BY <1>26 DEF MemoryLost, Each, Steps, Results, ReportStates
  <2>3. attempt' \in [Builds -> 0..(ReportAttempts - 1)] /\ stream' \in [Builds -> Seq(Messages)]
    BY <1>26 DEF MemoryLost, Each
  <2>4. queue' \in Seq(Builds)
    BY <1>26 DEF MemoryLost
  <2> QED
    BY <1>26, <2>1, <2>2, <2>3, <2>4 DEF MemoryLost, issue
<1>27. CASE Restart
  BY <1>27 DEF Restart, Issued, issue, memory
<1>28. CASE UNCHANGED vars
  BY <1>28 DEF vars, Issued, issue, memory
<1> HIDE DEF IInv, TypeOK
<1> QED
  BY <1>1, <1>2, <1>3, <1>4, <1>5, <1>6, <1>7, <1>8, <1>9, <1>10, <1>11, <1>12, <1>13, <1>14,
     <1>15, <1>16, <1>17, <1>18, <1>19, <1>20, <1>21, <1>22, <1>23, <1>24, <1>25, <1>26, <1>27, <1>28
     DEF Next, BuildStep, HandlerStep, Exit, Crash

-----------------------------------------------------------------------------
\* Fits only looks at a build's own entries.
LEMMA FitsUntouched ==
  ASSUME NEW x, Fits(x),
         pc'[x] = pc[x], result'[x] = result[x], record'[x] = record[x],
         reportStatus'[x] = reportStatus[x],
         x \in withReport' <=> x \in withReport, x \in started' <=> x \in started,
         x \in Issued' <=> x \in Issued
  PROVE  Fits(x)'
BY DEF Fits

\* The place of every goroutine still fits after a step of a goroutine.
LEMMA FitsBuildStep ==
  ASSUME IInv, NEW b \in Builds, BuildStep(b) PROVE StepsFit'
<1> SUFFICES ASSUME NEW x \in Builds PROVE Fits(x)'
  BY DEF StepsFit
<1>1. /\ pc \in [Builds -> Steps] /\ result \in [Builds -> Results]
      /\ record \in [Builds -> Verdicts \cup {"none"}] /\ reportStatus \in [Builds -> ReportStates]
      /\ started \subseteq Builds /\ Fits(x) /\ Fits(b)
  BY DEF IInv, TypeOK, StepsFit
<1> USE <1>1
<1>2. CASE PrepareFails(b)
  <2>1. PICK verdict \in Verdicts : result' = [result EXCEPT ![b] = verdict]
    BY <1>2 DEF PrepareFails, Verdicts
  <2> QED
    BY <1>2, <2>1 DEF PrepareFails, Goto, QueueUnchanged, issue, Fits, Issued, Decided, Settled, OnlyStarted
<1>3. CASE CommandStarts(b)
  BY <1>3 DEF CommandStarts, Goto, QueueUnchanged, issue, Fits, Issued, Decided, Settled, OnlyStarted
<1>4. CASE CommandExits(b)
  <2>1. PICK outcome \in Verdicts \cup {"timed out"} : result' = [result EXCEPT ![b] = outcome]
    BY <1>4 DEF CommandExits, Verdicts
  <2> QED
    BY <1>4, <2>1 DEF CommandExits, Goto, QueueUnchanged, issue, Fits, Issued, Decided, Settled, OnlyStarted
<1>5. CASE CommandAnnounced(b)
  BY <1>5 DEF CommandAnnounced, Goto, QueueUnchanged, issue, Fits, Issued, Decided, Settled, OnlyStarted
<1>6. CASE RecordSet(b)
  BY <1>6 DEF RecordSet, Goto, QueueUnchanged, issue, Fits, Issued, Decided, Settled, OnlyStarted, Verdicts
<1>7. CASE RecordWritten(b)
  BY <1>7 DEF RecordWritten, Goto, QueueUnchanged, issue, Fits, Issued, Decided, Settled, OnlyStarted
<1>8. CASE ReportAttempt(b)
  <2>1. CASE UNCHANGED <<pc, result>>
    BY <1>8, <2>1, FitsUntouched DEF ReportAttempt, QueueUnchanged, issue, Issued
  <2>2. ASSUME NEW outcome \in {"reported", "report failed"}, ReportEnds(b, outcome) PROVE Fits(x)'
    BY <1>8, <2>2 DEF ReportAttempt, ReportEnds, Goto, QueueUnchanged, issue, Fits, Issued, Decided, Settled, OnlyStarted
  <2> QED
    BY <1>8, <2>1, <2>2 DEF ReportAttempt
<1>9. CASE ReportSettled(b)
  BY <1>9 DEF ReportSettled, Goto, QueueUnchanged, issue, Fits, Issued, Decided, Settled, OnlyStarted
<1>10. CASE ReportNoted(b)
  BY <1>10 DEF ReportNoted, Goto, QueueUnchanged, issue, Fits, Issued, Decided, Settled, OnlyStarted
<1>11. CASE ReportTold(b)
  BY <1>11 DEF ReportTold, Goto, QueueUnchanged, issue, Fits, Issued, Decided, Settled, OnlyStarted
<1>12. CASE CompleteBuild(b)
  <2>1. \A i \in DOMAIN queue :
          queue[i] \in Builds /\ pc[queue[i]] = "none" /\ queue[i] \in Issued /\ ~HasTerminalRecord(queue[i])
    BY DEF IInv, TypeOK, QueueSound
  <2>2. UNCHANGED <<result, record, reportStatus, withReport, request>> /\ Issued' = Issued
    BY <1>12 DEF CompleteBuild, issue, Issued
  <2>3. \/ Goto(b, "closing") /\ UNCHANGED started
        \/ \E n \in Builds :
             /\ started' = started \cup {n} /\ pc' = [pc EXCEPT ![b] = "closing", ![n] = "preparing"]
             /\ pc[n] = "none" /\ n \in Issued /\ ~HasTerminalRecord(n)
    BY <1>12, <2>1 DEF CompleteBuild, Startable
  <2>4. pc[b] = "completing"
    BY <1>12 DEF CompleteBuild
  <2>5. CASE Goto(b, "closing") /\ UNCHANGED started
    BY <2>2, <2>4, <2>5 DEF Goto, Fits, Decided, Settled, OnlyStarted
  <2>6. ASSUME NEW n \in Builds,
               started' = started \cup {n}, pc' = [pc EXCEPT ![b] = "closing", ![n] = "preparing"],
               pc[n] = "none", n \in Issued, ~HasTerminalRecord(n)
        PROVE  Fits(x)'
    <3>1. CASE x = n
      BY <2>2, <2>4, <2>6, <3>1 DEF Fits, Decided, Settled, OnlyStarted, HasTerminalRecord
    <3>2. CASE x = b
      BY <2>2, <2>4, <2>6, <3>2 DEF Fits, Decided, Settled, OnlyStarted
    <3>3. CASE x # n /\ x # b
      BY <2>2, <2>6, <3>3, FitsUntouched
    <3> QED
      BY <3>1, <3>2, <3>3
  <2> QED
    BY <2>3, <2>5, <2>6
<1>13. CASE DoneClosed(b)
  BY <1>13 DEF DoneClosed, Goto, QueueUnchanged, issue, Fits, Issued, Decided, Settled, OnlyStarted
<1>14. CASE RunClosed(b)
  BY <1>14 DEF RunClosed, Goto, QueueUnchanged, issue, Fits, Issued, Decided, Settled, OnlyStarted
<1> QED
  BY <1>2, <1>3, <1>4, <1>5, <1>6, <1>7, <1>8, <1>9, <1>10, <1>11, <1>12, <1>13, <1>14 DEF BuildStep

\* The place of every goroutine still fits after any step.
LEMMA FitsStep == IInv /\ [Next]_vars => StepsFit'
<1> SUFFICES ASSUME IInv, [Next]_vars, NEW x \in Builds PROVE Fits(x)'
  BY DEF StepsFit
<1>1. /\ pc \in [Builds -> Steps] /\ record \in [Builds -> Verdicts \cup {"none"}]
      /\ reportStatus \in [Builds -> ReportStates] /\ request \in [Builds -> Requests \cup {None}]
      /\ \A b \in Builds : Fits(b)
  BY DEF IInv, TypeOK, StepsFit
<1> USE <1>1
<1>2. ASSUME NEW r \in Requests, NEW reports \in Callbacks, NEW b \in Builds, StartBuild(r, reports, b)
      PROVE  Fits(x)'
  <2>1. b \notin Issued /\ pc[b] = "none" /\ record[b] = "none"
    BY <1>2 DEF StartBuild, Fits
  <2>2. CASE x = b
    <3>1. /\ record'[b] = "none" /\ b \in Issued'
          /\ reportStatus'[b] = "pending" => b \in withReport'
      BY <1>2, <2>1 DEF StartBuild, Issued
    <3>2. \/ pc'[b] = "preparing" /\ b \in started'
          \/ pc'[b] = "none" /\ UNCHANGED started
      BY <1>2, <2>1 DEF StartBuild, Goto
    <3> QED
      BY <2>1, <2>2, <3>1, <3>2 DEF Fits, Decided, Settled, OnlyStarted
  <2>3. CASE x # b
    BY <1>2, <2>3, FitsUntouched DEF StartBuild, Goto, Issued
  <2> QED
    BY <2>2, <2>3
<1>3. ASSUME NEW c \in Handlers, CancelDequeues(c) PROVE Fits(x)'
  <2> DEFINE b == handler[c].build
  <2>1. CASE UNCHANGED pc
    BY <1>3, <2>1, FitsUntouched DEF CancelDequeues, RunsUnchanged, issue, Issued
  <2>2. CASE InQueue(b) /\ Goto(b, "withdrawn")
    <3>1. b \in Issued /\ b \in Builds /\ b \notin started /\ record[b] = "none"
      BY <2>2 DEF IInv, TypeOK, QueueSound, InQueue, Issued, HasTerminalRecord
    <3>2. CASE x = b
      BY <1>3, <2>2, <3>1, <3>2 DEF CancelDequeues, RunsUnchanged, issue, Goto, Fits, Issued, Decided, Settled, OnlyStarted
    <3>3. CASE x # b
      BY <1>3, <2>2, <3>1, <3>3, FitsUntouched DEF CancelDequeues, RunsUnchanged, issue, Goto, Issued
    <3> QED
      BY <3>2, <3>3
  <2> QED
    BY <1>3, <2>1, <2>2 DEF CancelDequeues
<1>4. ASSUME NEW c \in Handlers, CancelRecords(c) PROVE Fits(x)'
  <2> DEFINE b == handler[c].build
  <2>1. b \in Builds /\ pc[b] = "withdrawn"
    BY <1>4 DEF CancelRecords, IInv, HandlersFit, Publishing
  <2> QED
    BY <1>4, <2>1 DEF CancelRecords, RunsUnchanged, issue, Fits, Issued
<1>5. ASSUME NEW c \in Handlers, CancelAnnounces(c) PROVE Fits(x)'
  <2> DEFINE b == handler[c].build
  <2>1. b \in Builds /\ pc[b] = "withdrawn" /\ record[b] # "none"
    BY <1>5 DEF CancelAnnounces, IInv, HandlersFit, Publishing
  <2> QED
    BY <1>5, <2>1 DEF CancelAnnounces, RunsUnchanged, issue, Goto, Fits, Issued, Decided, Settled, OnlyStarted
<1>6. CASE UNCHANGED <<pc, result, record, reportStatus, withReport, started, request>>
  BY <1>6, FitsUntouched DEF Issued
<1>7. ASSUME NEW c \in Handlers, HandlerStep(c) PROVE Fits(x)'
  <2>1. CASE CancelSignals(c) \/ CancelNotes(c) \/ AvailabilityRefreshes(c)
    BY <1>6, <2>1 DEF CancelSignals, CancelNotes, AvailabilityRefreshes, RunsUnchanged, issue
  <2> QED
    BY <1>3, <1>4, <1>5, <1>7, <2>1 DEF HandlerStep
<1>8. ASSUME NEW c \in Clients, NEW b \in Builds, CancelAccepted(c, b) PROVE Fits(x)'
  BY <1>6, <1>8 DEF CancelAccepted, RunsUnchanged, issue
<1>9. ASSUME NEW c \in Clients, NEW value \in BOOLEAN, SetAccepting(c, value) PROVE Fits(x)'
  BY <1>6, <1>9 DEF SetAccepting, issue
<1>10. ASSUME NEW b \in Builds, ShutdownCancels(b) \/ ShutdownAwaits(b) PROVE Fits(x)'
  BY <1>6, <1>10 DEF ShutdownCancels, ShutdownAwaits, issue
<1>11. CASE BeginShutdown \/ Restart \/ UNCHANGED vars
  BY <1>6, <1>11 DEF BeginShutdown, Restart, vars, memory, issue
<1>12. CASE MemoryLost
  BY <1>12 DEF MemoryLost, Each, Fits, Issued, Decided, Settled, OnlyStarted
<1>13. ASSUME NEW b \in Builds, BuildStep(b) PROVE Fits(x)'
  BY <1>13, FitsBuildStep DEF StepsFit
<1> QED
  BY <1>2, <1>7, <1>8, <1>9, <1>10, <1>11, <1>12, <1>13 DEF Next, Exit, Crash

-----------------------------------------------------------------------------
\* What the other goroutines see of a goroutine's step before completeBuild:
\* only its own entries change, and it keeps the slot if it had it.
LEMMA OwnStep ==
  ASSUME IInv, NEW b \in Builds, BuildStep(b)
  PROVE  \/ CompleteBuild(b)
         \/ /\ UNCHANGED <<builds, active, queue, started, handler, request, withReport>>
            /\ pc[b] \notin {"none", "withdrawn"}
            /\ pc'[b] \notin {"none", "withdrawn"}
            /\ \A x \in Builds \ {b} : pc'[x] = pc[x] /\ record'[x] = record[x] /\ reportStatus'[x] = reportStatus[x]
            /\ b \in started => (pc'[b] \in BeforeComplete <=> pc[b] \in BeforeComplete)
<1>1. pc \in [Builds -> Steps] /\ record \in [Builds -> Verdicts \cup {"none"}] /\ reportStatus \in [Builds -> ReportStates]
  BY DEF IInv, TypeOK
<1> USE <1>1 DEF Goto, QueueUnchanged, issue, BeforeComplete, Steps
<1>2. CASE PrepareFails(b) \/ CommandStarts(b) \/ CommandExits(b) \/ CommandAnnounced(b)
  BY <1>2 DEF PrepareFails, CommandStarts, CommandExits, CommandAnnounced
<1>3. CASE RecordSet(b) \/ RecordWritten(b)
  BY <1>3 DEF RecordSet, RecordWritten
<1>4. CASE ReportAttempt(b)
  BY <1>4 DEF ReportAttempt, ReportEnds
<1>5. CASE ReportSettled(b) \/ ReportNoted(b) \/ ReportTold(b)
  BY <1>5 DEF ReportSettled, ReportNoted, ReportTold
<1>6. CASE DoneClosed(b) \/ RunClosed(b)
  BY <1>6 DEF DoneClosed, RunClosed
<1> QED
  BY <1>2, <1>3, <1>4, <1>5, <1>6 DEF BuildStep

\* What completeBuild does to the slot and the queue: the goroutine had the
\* slot, and hands it to the first queued build if there is one.
LEMMA Handover ==
  ASSUME IInv, NEW b \in Builds, CompleteBuild(b)
  PROVE  /\ active = b /\ b \in started /\ pc[b] = "completing"
         /\ UNCHANGED <<handler, record, reportStatus, request, withReport>>
         /\ builds' \subseteq builds
         /\ \A x \in builds : pc[x] = "none" => x \in builds'
         /\ \/ /\ queue = <<>> /\ queue' = <<>> /\ active' = None
               /\ UNCHANGED started /\ Goto(b, "closing")
            \/ \E i \in DOMAIN queue :
                 /\ active' = queue[i] /\ queue[i] # b
                 /\ queue' = SubSeq(queue, i + 1, Len(queue))
                 /\ started' = started \cup {queue[i]}
                 /\ pc' = [pc EXCEPT ![b] = "closing", ![queue[i]] = "preparing"]
<1>1. pc[b] = "completing" /\ b \in started /\ active = b
  BY DEF CompleteBuild, IInv, StepsFit, Fits, OnlyStarted, SlotHeld, BeforeComplete, Steps
<1>2. \A i \in DOMAIN queue : queue[i] \in builds /\ pc[queue[i]] = "none"
  BY DEF IInv, QueueSound
<1>3. Startable = DOMAIN queue
  BY <1>2 DEF Startable, Done
<1>4. queue \in Seq(Builds)
  BY DEF IInv, TypeOK
<1>5. Startable = {} => queue = <<>>
  <2>1. queue # <<>> => 1 \in DOMAIN queue
    BY <1>4
  <2> QED
    BY <1>3, <2>1
<1>6. \A gone \in Pruned(active') : \A x \in builds : pc[x] = "none" => x \notin gone
  BY DEF Pruned, Done
<1>7. builds' \subseteq builds /\ \A x \in builds : pc[x] = "none" => x \in builds'
  BY <1>6 DEF CompleteBuild
<1>8. UNCHANGED <<handler, record, reportStatus, request, withReport>>
  BY DEF CompleteBuild, issue
<1>9. \/ /\ queue = <<>> /\ queue' = <<>> /\ active' = None
         /\ UNCHANGED started /\ Goto(b, "closing")
      \/ \E i \in DOMAIN queue :
           /\ active' = queue[i] /\ queue[i] # b
           /\ queue' = SubSeq(queue, i + 1, Len(queue))
           /\ started' = started \cup {queue[i]}
           /\ pc' = [pc EXCEPT ![b] = "closing", ![queue[i]] = "preparing"]
  BY <1>1, <1>2, <1>3, <1>5 DEF CompleteBuild
<1> QED
  BY <1>1, <1>7, <1>8, <1>9

-----------------------------------------------------------------------------
\* A step that leaves the handlers and every withdrawn build alone.
LEMMA HandlersUntouched ==
  ASSUME HandlersFit, handler' = handler,
         \A b \in Builds : pc[b] = "withdrawn" => pc'[b] = "withdrawn" /\ record'[b] = record[b]
  PROVE  HandlersFit'
BY DEF HandlersFit, Publishing

\* A step of one handler: HandlersFit is kept if the handler fits afterwards
\* and no other handler publishes the builds whose entries changed.
LEMMA HandlersFitHandler ==
  ASSUME IInv, NEW c \in Handlers, HandlerStep(c) PROVE HandlersFit'
<1> DEFINE b == handler[c].build
<1>1. /\ handler \in [Handlers -> HandlerStates] /\ pc \in [Builds -> Steps]
      /\ record \in [Builds -> Verdicts \cup {"none"}] /\ HandlersFit
  BY DEF IInv, TypeOK
<1>2. ASSUME NEW where \in HandlerSteps, NEW y \in Builds \cup {None}, At(c, where, y)
      PROVE  /\ handler'[c].at = where /\ handler'[c].build = y
             /\ \A d \in Handlers : d # c => handler'[d] = handler[d]
  BY <1>1, <1>2 DEF At
<1> USE DEF HandlerSteps
<1>3. CASE CancelDequeues(c)
  <2>1. b \in Builds /\ handler[c].at = "canceling"
    BY <1>1, <1>3 DEF CancelDequeues, HandlersFit
  <2>2. CASE At(c, "signalling", b) /\ UNCHANGED pc
    BY <1>1, <1>2, <1>3, <2>1, <2>2 DEF CancelDequeues, HandlersFit, Publishing
  <2>3. CASE InQueue(b) /\ Goto(b, "withdrawn") /\ At(c, "recording", b)
    <3>1. pc[b] = "none"
      BY <2>3 DEF IInv, QueueSound, InQueue
    <3>2. \A d \in Handlers : handler[d].at \in Publishing => handler[d].build # b
      BY <1>1, <3>1 DEF HandlersFit
    <3>3. UNCHANGED record /\ pc'[b] = "withdrawn" /\ \A x \in Builds \ {b} : pc'[x] = pc[x]
      BY <1>1, <1>3, <2>1, <2>3 DEF CancelDequeues, Goto
    <3> QED
      BY <1>1, <1>2, <2>1, <2>3, <3>2, <3>3 DEF HandlersFit, Publishing
  <2> QED
    BY <1>3, <2>2, <2>3 DEF CancelDequeues
<1>4. CASE CancelSignals(c)
  BY <1>1, <1>2, <1>4 DEF CancelSignals, HandlersFit, Publishing
<1>5. CASE CancelRecords(c)
  <2>1. b \in Builds /\ pc[b] = "withdrawn"
    BY <1>1, <1>5 DEF CancelRecords, HandlersFit, Publishing
  <2>2. UNCHANGED pc /\ record'[b] # "none" /\ \A x \in Builds \ {b} : record'[x] = record[x]
    BY <1>1, <1>5, <2>1 DEF CancelRecords
  <2> QED
    BY <1>1, <1>2, <1>5, <2>1, <2>2 DEF CancelRecords, HandlersFit, Publishing
<1>6. CASE CancelNotes(c)
  BY <1>1, <1>2, <1>6 DEF CancelNotes, HandlersFit, Publishing
<1>7. CASE CancelAnnounces(c)
  <2>1. \A d \in Handlers : handler[d].at \in Publishing /\ handler[d].build = b => d = c
    BY <1>1, <1>7 DEF CancelAnnounces, HandlersFit, Publishing
  <2>2. UNCHANGED record /\ \A x \in Builds \ {b} : pc'[x] = pc[x]
    BY <1>1, <1>7 DEF CancelAnnounces, Goto
  <2> QED
    BY <1>1, <1>2, <1>7, <2>1, <2>2 DEF CancelAnnounces, HandlersFit, Publishing
<1>8. CASE AvailabilityRefreshes(c)
  BY <1>1, <1>2, <1>8 DEF AvailabilityRefreshes, RunsUnchanged, HandlersFit, Publishing
<1> QED
  BY <1>3, <1>4, <1>5, <1>6, <1>7, <1>8 DEF HandlerStep

\* Every handler still fits after any step.
LEMMA HandlersFitStep == IInv /\ [Next]_vars => HandlersFit'
<1> SUFFICES ASSUME IInv, [Next]_vars PROVE HandlersFit'
  OBVIOUS
<1>1. /\ handler \in [Handlers -> HandlerStates] /\ pc \in [Builds -> Steps]
      /\ HandlersFit
  BY DEF IInv, TypeOK
<1>2. ASSUME NEW r \in Requests, NEW reports \in Callbacks, NEW b \in Builds, StartBuild(r, reports, b)
      PROVE  HandlersFit'
  <2>1. pc[b] = "none"
    BY <1>2 DEF StartBuild, IInv, StepsFit, Fits
  <2> QED
    BY <1>1, <1>2, <2>1, HandlersUntouched DEF StartBuild, Goto
<1>3. ASSUME NEW b \in Builds, BuildStep(b) PROVE HandlersFit'
  <2>1. CASE CompleteBuild(b)
    <3>1. \A i \in DOMAIN queue : pc[queue[i]] = "none"
      BY DEF IInv, QueueSound
    <3> QED
      BY <1>1, <2>1, <3>1, Handover, HandlersUntouched DEF Goto
  <2> QED
    BY <1>1, <1>3, <2>1, OwnStep, HandlersUntouched
<1>4. ASSUME NEW c \in Handlers, NEW where \in HandlerSteps \ Publishing, NEW b \in Builds \cup {None},
             At(c, where, b), UNCHANGED <<pc, record>>,
             where \in {"canceling", "signalling"} => b \in Builds
      PROVE  HandlersFit'
  BY <1>1, <1>4 DEF At, HandlersFit, Publishing
<1>5. ASSUME NEW c \in Clients, NEW b \in Builds, CancelAccepted(c, b) PROVE HandlersFit'
  BY <1>4, <1>5 DEF CancelAccepted, RunsUnchanged, HandlerSteps, Publishing, Handlers
<1>6. ASSUME NEW c \in Clients, NEW value \in BOOLEAN, SetAccepting(c, value) PROVE HandlersFit'
  BY <1>4, <1>6 DEF SetAccepting, HandlerSteps, Publishing, Handlers
<1>7. ASSUME NEW b \in Builds, ShutdownCancels(b) PROVE HandlersFit'
  BY <1>1, <1>4, <1>7, HandlersUntouched DEF ShutdownCancels, HandlerSteps, Publishing, Handlers
<1>8. CASE \E b \in Builds : ShutdownAwaits(b)
  BY <1>1, <1>8, HandlersUntouched DEF ShutdownAwaits
<1>9. CASE BeginShutdown \/ Restart \/ UNCHANGED vars
  BY <1>1, <1>9, HandlersUntouched DEF BeginShutdown, Restart, vars, memory
<1>10. CASE MemoryLost
  BY <1>10 DEF MemoryLost, IdleHandlers, HandlersFit, Publishing
<1> QED
  BY <1>2, <1>3, <1>5, <1>6, <1>7, <1>8, <1>9, <1>10, HandlersFitHandler DEF Next, Exit, Crash

-----------------------------------------------------------------------------
\* A step that leaves the slot alone and neither starts a build nor takes a
\* started one across its completeBuild.
LEMMA SlotUntouched ==
  ASSUME SlotHeld, UNCHANGED <<active, started>>,
         \A b \in started : pc'[b] \in BeforeComplete <=> pc[b] \in BeforeComplete
  PROVE  SlotHeld'
BY DEF SlotHeld, BeforeComplete, Steps

\* The slot is still held by exactly the started goroutine after any step.
LEMMA SlotHeldStep == IInv /\ [Next]_vars => SlotHeld'
<1> SUFFICES ASSUME IInv, [Next]_vars PROVE SlotHeld'
  OBVIOUS
<1>1. /\ pc \in [Builds -> Steps] /\ started \subseteq Builds /\ SlotHeld
      /\ None \notin Builds
  BY DEF IInv, TypeOK
<1>2. \A x \in started : pc[x] \notin {"none", "withdrawn"}
  BY <1>1 DEF IInv, StepsFit, Fits
<1>3. ASSUME NEW r \in Requests, NEW reports \in Callbacks, NEW b \in Builds, StartBuild(r, reports, b)
      PROVE  SlotHeld'
  <2>1. CASE active = None /\ active' = b /\ started' = started \cup {b} /\ Goto(b, "preparing")
    BY <1>1, <2>1 DEF SlotHeld, Goto, BeforeComplete, Steps
  <2>2. CASE UNCHANGED <<active, started, pc>>
    BY <1>1, <2>2, SlotUntouched
  <2> QED
    BY <1>3, <2>1, <2>2 DEF StartBuild
<1>4. ASSUME NEW b \in Builds, BuildStep(b) PROVE SlotHeld'
  <2>1. CASE CompleteBuild(b)
    <3>1. active = b /\ pc[b] = "completing"
      BY <2>1, Handover
    <3>2. CASE active' = None /\ UNCHANGED started /\ Goto(b, "closing")
      BY <1>1, <3>1, <3>2 DEF SlotHeld, Goto, BeforeComplete, Steps
    <3>3. ASSUME NEW i \in DOMAIN queue, active' = queue[i], queue[i] # b,
                 started' = started \cup {queue[i]},
                 pc' = [pc EXCEPT ![b] = "closing", ![queue[i]] = "preparing"]
          PROVE  SlotHeld'
      <4>1. queue[i] \in Builds
        BY DEF IInv, TypeOK
      <4> QED
        BY <1>1, <3>1, <3>3, <4>1 DEF SlotHeld, BeforeComplete, Steps
    <3> QED
      BY <2>1, <3>2, <3>3, Handover
  <2>2. CASE ~CompleteBuild(b)
    BY <1>1, <1>4, <2>2, OwnStep, SlotUntouched
  <2> QED
    BY <2>1, <2>2
<1>5. ASSUME NEW c \in Handlers, HandlerStep(c) PROVE SlotHeld'
  <2> DEFINE b == handler[c].build
  <2>1. CASE CancelDequeues(c)
    <3>1. InQueue(b) => b \notin started
      BY DEF IInv, QueueSound, InQueue
    <3> QED
      BY <1>1, <2>1, <3>1, SlotUntouched DEF CancelDequeues, RunsUnchanged, Goto
  <2>2. CASE CancelAnnounces(c)
    <3>1. b \notin started
      BY <1>2, <2>2 DEF CancelAnnounces, IInv, HandlersFit, Publishing
    <3> QED
      BY <1>1, <2>2, <3>1, SlotUntouched DEF CancelAnnounces, RunsUnchanged, Goto
  <2>3. CASE CancelSignals(c) \/ CancelRecords(c) \/ CancelNotes(c) \/ AvailabilityRefreshes(c)
    BY <1>1, <2>3, SlotUntouched
       DEF CancelSignals, CancelRecords, CancelNotes, AvailabilityRefreshes, RunsUnchanged
  <2> QED
    BY <1>5, <2>1, <2>2, <2>3 DEF HandlerStep
<1>6. CASE UNCHANGED <<active, started, pc>>
  BY <1>1, <1>6, SlotUntouched
<1>7. ASSUME NEW c \in Clients, NEW b \in Builds, CancelAccepted(c, b) PROVE SlotHeld'
  BY <1>6, <1>7 DEF CancelAccepted, RunsUnchanged
<1>8. ASSUME NEW c \in Clients, NEW value \in BOOLEAN, SetAccepting(c, value) PROVE SlotHeld'
  BY <1>6, <1>8 DEF SetAccepting
<1>9. ASSUME NEW b \in Builds, ShutdownCancels(b) \/ ShutdownAwaits(b) PROVE SlotHeld'
  BY <1>6, <1>9 DEF ShutdownCancels, ShutdownAwaits
<1>10. CASE BeginShutdown \/ Restart \/ UNCHANGED vars
  BY <1>6, <1>10 DEF BeginShutdown, Restart, vars, memory
<1>11. CASE MemoryLost
  BY <1>1, <1>11 DEF MemoryLost, SlotHeld
<1> QED
  BY <1>3, <1>4, <1>5, <1>7, <1>8, <1>9, <1>10, <1>11 DEF Next, Exit, Crash

-----------------------------------------------------------------------------
\* A step that leaves the queue and the slot alone, and its builds waiting.
LEMMA QueueUntouched ==
  ASSUME QueueSound, UNCHANGED <<active, queue>>,
         \A i \in DOMAIN queue :
           /\ queue[i] \in builds' \ started'
           /\ pc'[queue[i]] = "none"
           /\ record'[queue[i]] = record[queue[i]]
  PROVE  QueueSound'
BY DEF QueueSound, HasTerminalRecord

\* The queue is still sound after any step.
LEMMA QueueSoundStep == IInv /\ [Next]_vars => QueueSound'
<1> SUFFICES ASSUME IInv, [Next]_vars PROVE QueueSound'
  OBVIOUS
<1>1. /\ pc \in [Builds -> Steps] /\ record \in [Builds -> Verdicts \cup {"none"}]
      /\ queue \in Seq(Builds) /\ QueueSound /\ MaxQueuedBuilds \in Nat
      /\ builds \subseteq Issued /\ None \notin Builds
  BY DEF IInv, TypeOK
<1>2. \A i \in DOMAIN queue :
        /\ queue[i] \in Builds /\ queue[i] \in builds \ started
        /\ pc[queue[i]] = "none" /\ record[queue[i]] = "none"
  BY <1>1 DEF QueueSound, HasTerminalRecord
<1>3. ASSUME NEW r \in Requests, NEW reports \in Callbacks, NEW b \in Builds, StartBuild(r, reports, b)
      PROVE  QueueSound'
  <2>1. /\ \A i \in DOMAIN queue : queue[i] # b
        /\ pc[b] = "none" /\ record[b] = "none" /\ b \notin started
    BY <1>1, <1>2, <1>3 DEF StartBuild, IInv, StepsFit, Fits
  <2>2. CASE queue' = queue /\ active = None
    <3>1. queue = <<>>
      BY <1>1, <2>2 DEF QueueSound
    <3> QED
      BY <1>1, <2>2, <3>1 DEF QueueSound
  <2>3. CASE active # None /\ queue' = Append(queue, b) /\ UNCHANGED <<active, started, pc>>
    <3>1. /\ Len(queue') = Len(queue) + 1 /\ queue'[Len(queue) + 1] = b
          /\ \A i \in DOMAIN queue : queue'[i] = queue[i]
          /\ DOMAIN queue' = DOMAIN queue \cup {Len(queue) + 1}
      BY <1>1, <2>3
    <3>2. Len(queue) < MaxQueuedBuilds /\ builds' = builds \cup {b} /\ UNCHANGED record
      BY <1>3, <2>3 DEF StartBuild
    <3>3. Len(queue') <= MaxQueuedBuilds
      BY <1>1, <3>1, <3>2
    <3>4. \A i, j \in DOMAIN queue' : queue'[i] = queue'[j] => i = j
      BY <1>1, <2>1, <3>1 DEF QueueSound
    <3>5. \A i \in DOMAIN queue' :
            queue'[i] \in builds' \ started' /\ pc'[queue'[i]] = "none" /\ record'[queue'[i]] = "none"
      BY <1>2, <2>1, <2>3, <3>1, <3>2
    <3> QED
      BY <2>3, <3>3, <3>4, <3>5 DEF QueueSound, HasTerminalRecord
  <2> QED
    BY <1>3, <2>2, <2>3 DEF StartBuild
<1>4. ASSUME NEW b \in Builds, BuildStep(b) PROVE QueueSound'
  <2>1. CASE CompleteBuild(b)
    <3>1. pc[b] = "completing" /\ UNCHANGED record
      BY <2>1, Handover
    <3>2. CASE queue' = <<>>
      BY <1>1, <3>2 DEF QueueSound
    <3>3. ASSUME NEW k \in DOMAIN queue, active' = queue[k],
                 queue' = SubSeq(queue, k + 1, Len(queue)),
                 started' = started \cup {queue[k]},
                 pc' = [pc EXCEPT ![b] = "closing", ![queue[k]] = "preparing"]
          PROVE  QueueSound'
      <4>1. /\ Len(queue') = Len(queue) - k /\ DOMAIN queue' = 1..(Len(queue) - k)
            /\ \A i \in DOMAIN queue' : queue'[i] = queue[k + i] /\ k + i \in DOMAIN queue /\ k + i # k
        BY <1>1, <3>3, Behind
      <4>2. Len(queue') <= MaxQueuedBuilds
        BY <1>1, <4>1 DEF QueueSound
      <4>3. \A i, j \in DOMAIN queue' : queue'[i] = queue'[j] => i = j
        BY <1>1, <4>1 DEF QueueSound
      <4>4. \A i \in DOMAIN queue' : queue'[i] # queue[k]
        BY <1>1, <4>1 DEF QueueSound
      <4>5. \A x \in builds : pc[x] = "none" => x \in builds'
        BY <2>1, Handover
      <4>6. \A i \in DOMAIN queue' :
              queue'[i] \in builds' \ started' /\ pc'[queue'[i]] = "none" /\ record'[queue'[i]] = "none"
        BY <1>1, <1>2, <3>1, <3>3, <4>1, <4>4, <4>5
      <4> QED
        BY <1>1, <1>2, <3>3, <4>2, <4>3, <4>6 DEF QueueSound, HasTerminalRecord
    <3> QED
      BY <2>1, <3>2, <3>3, Handover
  <2>2. CASE ~CompleteBuild(b)
    BY <1>1, <1>2, <1>4, <2>2, OwnStep, QueueUntouched
  <2> QED
    BY <2>1, <2>2
<1>5. ASSUME NEW c \in Handlers, HandlerStep(c) PROVE QueueSound'
  <2> DEFINE b == handler[c].build
  <2>1. CASE CancelDequeues(c)
    <3>1. CASE UNCHANGED <<queue, pc>>
      BY <1>1, <1>2, <2>1, <3>1, QueueUntouched DEF CancelDequeues, RunsUnchanged
    <3>2. CASE InQueue(b) /\ queue' = Without(queue, b) /\ Goto(b, "withdrawn")
      <4>1. PICK k \in 1..Len(queue) :
              /\ queue[k] = b
              /\ Len(queue') = Len(queue) - 1 /\ queue' \in Seq(Builds)
              /\ \A i \in 1..(Len(queue) - 1) : queue'[i] = IF i < k THEN queue[i] ELSE queue[i + 1]
        <5>1. \E i \in DOMAIN queue : queue[i] = b
          BY <3>2 DEF InQueue
        <5>2. \E k \in 1..Len(queue) :
                /\ queue[k] = b
                /\ Without(queue, b) \in Seq(Builds)
                /\ Len(Without(queue, b)) = Len(queue) - 1
                /\ \A i \in 1..(Len(queue) - 1) :
                     Without(queue, b)[i] = IF i < k THEN queue[i] ELSE queue[i + 1]
          BY <1>1, <5>1, WithoutEntry
        <5> QED
          BY <3>2, <5>2
      <4>2. DOMAIN queue' = 1..(Len(queue) - 1) /\ DOMAIN queue = 1..Len(queue) /\ Len(queue) \in Nat
        BY <1>1, <4>1
      <4>3. Len(queue') <= MaxQueuedBuilds
        BY <1>1, <4>1, <4>2 DEF QueueSound
      <4> DEFINE from(i) == IF i < k THEN i ELSE i + 1
      <4>4. \A i \in DOMAIN queue' : from(i) \in DOMAIN queue /\ from(i) # k /\ queue'[i] = queue[from(i)]
        BY <4>1, <4>2
      <4>5. /\ \A i, j \in DOMAIN queue' : queue'[i] = queue'[j] => i = j
            /\ \A i \in DOMAIN queue' : queue'[i] # b /\ \E j \in DOMAIN queue : queue'[i] = queue[j]
        <5>1. \A i, j \in DOMAIN queue : queue[i] = queue[j] => i = j
          BY <1>1 DEF QueueSound
        <5>2. \A i, j \in DOMAIN queue' : from(i) = from(j) => i = j
          BY <4>2
        <5>3. k \in DOMAIN queue
          BY <4>2
        <5> HIDE DEF from
        <5> QED
          BY <4>1, <4>4, <5>1, <5>2, <5>3
      <4>6. UNCHANGED <<builds, active, started, record>>
        BY <2>1 DEF CancelDequeues, RunsUnchanged
      <4>7. queue # <<>>
        BY <4>1, <4>2
      <4> QED
        BY <1>1, <1>2, <3>2, <4>3, <4>5, <4>6, <4>7 DEF QueueSound, HasTerminalRecord, Goto
    <3> QED
      BY <2>1, <3>1, <3>2 DEF CancelDequeues
  <2>2. CASE CancelAnnounces(c) \/ CancelRecords(c)
    <3>1. pc[b] = "withdrawn"
      BY <2>2 DEF CancelAnnounces, CancelRecords, IInv, HandlersFit, Publishing
    <3>2. \A i \in DOMAIN queue : queue[i] # b
      BY <1>2, <3>1
    <3> QED
      BY <1>1, <1>2, <2>2, <3>2, QueueUntouched DEF CancelAnnounces, CancelRecords, RunsUnchanged, Goto
  <2>3. CASE CancelSignals(c) \/ CancelNotes(c) \/ AvailabilityRefreshes(c)
    BY <1>1, <1>2, <2>3, QueueUntouched
       DEF CancelSignals, CancelNotes, AvailabilityRefreshes, RunsUnchanged
  <2> QED
    BY <1>5, <2>1, <2>2, <2>3 DEF HandlerStep
<1>6. CASE UNCHANGED <<builds, active, queue, started, pc, record>>
  BY <1>1, <1>2, <1>6, QueueUntouched
<1>7. ASSUME NEW c \in Clients, NEW b \in Builds, CancelAccepted(c, b) PROVE QueueSound'
  BY <1>6, <1>7 DEF CancelAccepted, RunsUnchanged
<1>8. ASSUME NEW c \in Clients, NEW value \in BOOLEAN, SetAccepting(c, value) PROVE QueueSound'
  BY <1>6, <1>8 DEF SetAccepting
<1>9. ASSUME NEW b \in Builds, ShutdownCancels(b) \/ ShutdownAwaits(b) PROVE QueueSound'
  BY <1>6, <1>9 DEF ShutdownCancels, ShutdownAwaits
<1>10. CASE BeginShutdown \/ Restart \/ UNCHANGED vars
  BY <1>6, <1>10 DEF BeginShutdown, Restart, vars, memory
<1>11. CASE MemoryLost
  BY <1>1, <1>11 DEF MemoryLost, QueueSound
<1> QED
  BY <1>3, <1>4, <1>5, <1>7, <1>8, <1>9, <1>10, <1>11 DEF Next, Exit, Crash

-----------------------------------------------------------------------------
\* What New starts from satisfies the invariant.
LEMMA InitIInv == Init => IInv
<1> SUFFICES ASSUME Init PROVE IInv
  OBVIOUS
<1> USE DEF Init, FreshMemory, Each
<1>1. TypeOK
  <2>1. handler \in [Handlers -> HandlerStates]
    BY DEF IdleHandlers, HandlerStates, HandlerSteps
  <2>2. attempt \in [Builds -> 0..(ReportAttempts - 1)]
    OBVIOUS
  <2>3. /\ pc \in [Builds -> Steps] /\ result \in [Builds -> Results]
        /\ record \in [Builds -> Verdicts \cup {"none"}]
        /\ reportStatus \in [Builds -> ReportStates]
    BY DEF Steps, Results, ReportStates
  <2>4. queue \in Seq(Builds) /\ stream \in [Builds -> Seq(Messages)]
    OBVIOUS
  <2> QED
    BY <2>1, <2>2, <2>3, <2>4 DEF TypeOK
<1>2. StepsFit /\ HandlersFit
  BY DEF StepsFit, Fits, Decided, Settled, OnlyStarted, HandlersFit, Publishing, IdleHandlers
<1>3. SlotHeld /\ QueueSound
  BY DEF SlotHeld, QueueSound
<1> QED
  BY <1>1, <1>2, <1>3 DEF IInv

\* Every step preserves the invariant.
LEMMA StepIInv == IInv /\ [Next]_vars => IInv'
BY TypeStep, FitsStep, HandlersFitStep, SlotHeldStep, QueueSoundStep DEF IInv

\* In every reachable state, each goroutine and each handler is where its data
\* says, the slot has one holder, and the queue holds only waiting builds.
THEOREM Invariance == Spec => []IInv
<1> QED
  BY InitIInv, StepIInv, PTL DEF Spec

\* Type correctness of the runner, for every set of builds and clients.
THEOREM TypeCorrect == Spec => []TypeOK
<1>1. IInv => TypeOK
  BY DEF IInv
<1> QED
  BY <1>1, Invariance, PTL

\* The build slot (activeBuildID) names exactly the started build whose
\* completeBuild has not run: commands never overlap, the slot is never leaked.
THEOREM SlotAlwaysHeld == Spec => []SlotHeld
<1>1. IInv => SlotHeld
  BY DEF IInv
<1> QED
  BY <1>1, Invariance, PTL

\* The queue is bounded and holds distinct retained builds that nobody has
\* started, canceled or finished, and nothing waits while the slot is free.
THEOREM QueueAlwaysSound == Spec => []QueueSound
<1>1. IInv => QueueSound
  BY DEF IInv
<1> QED
  BY <1>1, Invariance, PTL

-----------------------------------------------------------------------------
\* A build that a cancel took out of the queue never runs its command.
THEOREM CanceledNeverRuns == Spec => QueuedCancelNeverRuns
<1>1. ASSUME IInv, Next
      PROVE  \A b \in Builds : (pc[b] # "none" /\ b \notin started) => b \notin started'
  <2> SUFFICES ASSUME NEW b \in Builds, pc[b] # "none", b \notin started PROVE b \notin started'
    OBVIOUS
  <2>1. ASSUME NEW r \in Requests, NEW reports \in Callbacks, NEW n \in Builds, StartBuild(r, reports, n)
        PROVE  b \notin started'
    BY <1>1, <2>1 DEF StartBuild, IInv, StepsFit, Fits
  <2>2. ASSUME NEW n \in Builds, BuildStep(n) PROVE b \notin started'
    <3>1. \A i \in DOMAIN queue : pc[queue[i]] = "none"
      BY <1>1 DEF IInv, QueueSound
    <3> QED
      BY <1>1, <2>2, <3>1, OwnStep, Handover
  <2>3. ASSUME NEW c \in Handlers, HandlerStep(c) PROVE b \notin started'
    BY <2>3 DEF HandlerStep, CancelDequeues, CancelSignals, CancelRecords, CancelNotes,
                CancelAnnounces, AvailabilityRefreshes, RunsUnchanged
  <2>4. CASE BeginShutdown \/ Restart \/ MemoryLost
    BY <2>4 DEF BeginShutdown, Restart, MemoryLost, memory
  <2>5. ASSUME NEW n \in Builds, ShutdownCancels(n) \/ ShutdownAwaits(n) PROVE b \notin started'
    BY <2>5 DEF ShutdownCancels, ShutdownAwaits
  <2>6. ASSUME NEW c \in Clients, NEW n \in Builds, CancelAccepted(c, n) PROVE b \notin started'
    BY <2>6 DEF CancelAccepted, RunsUnchanged
  <2>7. ASSUME NEW c \in Clients, NEW value \in BOOLEAN, SetAccepting(c, value) PROVE b \notin started'
    BY <2>7 DEF SetAccepting
  <2> QED
    BY <1>1, <2>1, <2>2, <2>3, <2>4, <2>5, <2>6, <2>7 DEF Next, Exit, Crash
<1>2. IInv /\ [Next]_vars =>
        [\A b \in Builds : (pc[b] # "none" /\ b \notin started) => b \notin started']_vars
  BY <1>1
<1> QED
  BY <1>2, Invariance, PTL DEF Spec, QueuedCancelNeverRuns

\* The next build starts only when the outcome of every build that ran before
\* is on record and its result callback has succeeded or failed for good.
THEOREM ReportFirst == Spec => ReportBeforeNextStart
<1> DEFINE Over(b) == HasTerminalRecord(b) /\ reportStatus[b] # "pending"
<1>1. ASSUME IInv, Next, started' # started
      PROVE  \A b \in started : pc'[b] # "none" => Over(b)
  <2> SUFFICES ASSUME NEW b \in started, pc'[b] # "none" PROVE Over(b)
    OBVIOUS
  <2>1. b \in Builds /\ pc[b] \in Steps \ {"none", "withdrawn"} /\ Fits(b)
    BY <1>1 DEF IInv, TypeOK, StepsFit, Fits
  <2>2. active # b => Over(b)
    BY <1>1, <2>1 DEF IInv, SlotHeld, BeforeComplete, Fits, Decided, Settled, HasTerminalRecord
  <2>3. ASSUME NEW r \in Requests, NEW reports \in Callbacks, NEW n \in Builds, StartBuild(r, reports, n)
        PROVE  Over(b)
    <3>1. active = None
      BY <1>1, <2>3 DEF StartBuild
    <3> QED
      BY <2>1, <2>2, <3>1
  <2>4. ASSUME NEW n \in Builds, BuildStep(n) PROVE Over(b)
    <3>1. active = n /\ pc[n] = "completing"
      BY <1>1, <2>4, OwnStep, Handover
    <3> QED
      BY <2>1, <2>2, <3>1 DEF Fits, Decided, Settled, HasTerminalRecord
  <2>5. ASSUME NEW c \in Handlers, HandlerStep(c) PROVE FALSE
    BY <1>1, <2>5 DEF HandlerStep, CancelDequeues, CancelSignals, CancelRecords, CancelNotes,
                      CancelAnnounces, AvailabilityRefreshes, RunsUnchanged
  <2>6. CASE MemoryLost
    BY <2>1, <2>6 DEF MemoryLost, Each
  <2>7. CASE BeginShutdown \/ Restart
    BY <1>1, <2>7 DEF BeginShutdown, Restart, memory
  <2>8. ASSUME NEW n \in Builds, ShutdownCancels(n) \/ ShutdownAwaits(n) PROVE FALSE
    BY <1>1, <2>8 DEF ShutdownCancels, ShutdownAwaits
  <2>9. ASSUME NEW c \in Clients, NEW n \in Builds, CancelAccepted(c, n) PROVE FALSE
    BY <1>1, <2>9 DEF CancelAccepted, RunsUnchanged
  <2>10. ASSUME NEW c \in Clients, NEW value \in BOOLEAN, SetAccepting(c, value) PROVE FALSE
    BY <1>1, <2>10 DEF SetAccepting
  <2> QED
    BY <1>1, <2>3, <2>4, <2>5, <2>6, <2>7, <2>8, <2>9, <2>10 DEF Next, Exit, Crash
<1>2. IInv /\ [Next]_vars =>
        [started' # started => \A b \in started : pc'[b] # "none" => Over(b)]_vars
  BY <1>1
<1> QED
  BY <1>2, Invariance, PTL DEF Spec, ReportBeforeNextStart

=============================================================================
