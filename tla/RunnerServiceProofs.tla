------------------------ MODULE RunnerServiceProofs -------------------------
(***************************************************************************)
(* RunnerBuilds implements BuildService, step by step, and the registrar   *)
(* beside it loses no change of the load, for any number of builds and     *)
(* clients.                                                                *)
(***************************************************************************)
EXTENDS RunnerRegistration, RunnerReportsProofs

USE BuildsAssumption

\* A goroutine's own steps keep its run in memory until it is done, and leave
\* the callback owed until ReportSettled.
LEMMA OwnService ==
  ASSUME IInv, NEW b \in Builds, BuildStep(b), ~CompleteBuild(b), Remembered(b), ReportOwed(b)
  PROVE  Remembered(b)' /\ ReportOwed(b)'
<1>1. /\ pc \in [Builds -> Steps] /\ reportStatus \in [Builds -> ReportStates]
      /\ UNCHANGED <<builds, withReport>> /\ pc[b] # "none"
  BY OwnStep DEF IInv, TypeOK
<1> USE <1>1 DEF Goto, Remembered, ReportOwed, Settled
<1>2. CASE PrepareFails(b)
  BY <1>2 DEF PrepareFails
<1>3. CASE CommandStarts(b)
  BY <1>3 DEF CommandStarts
<1>4. CASE CommandExits(b)
  BY <1>4 DEF CommandExits
<1>5. CASE CommandAnnounced(b)
  BY <1>5 DEF CommandAnnounced
<1>6. CASE RecordSet(b)
  BY <1>6 DEF RecordSet
<1>7. CASE RecordWritten(b)
  BY <1>7 DEF RecordWritten
<1>8. CASE ReportAttempt(b)
  BY <1>8 DEF ReportAttempt, ReportEnds
<1>9. CASE ReportSettled(b)
  BY <1>9 DEF ReportSettled
<1>10. CASE ReportNoted(b)
  BY <1>10 DEF ReportNoted
<1>11. CASE ReportTold(b)
  BY <1>11 DEF ReportTold
<1>12. CASE DoneClosed(b)
  BY <1>12 DEF DoneClosed
<1>13. CASE RunClosed(b)
  BY <1>13 DEF RunClosed
<1> QED
  BY <1>2, <1>3, <1>4, <1>5, <1>6, <1>7, <1>8, <1>9, <1>10, <1>11, <1>12, <1>13 DEF BuildStep

\* What the other steps leave of a build: all of it, or it was taken out of the
\* queue, or its canceling handler went on, or the slot was handed to it.
LEMMA ServiceKept ==
  ASSUME ServiceInv, [Next]_vars, NEW x \in Builds
  PROVE  Remembered(x)' /\ ReportOwed(x)'
<1>1. /\ TruthInv /\ IInv /\ Remembered(x) /\ ReportOwed(x) /\ withReport \subseteq Issued
      /\ pc \in [Builds -> Steps] /\ reportStatus \in [Builds -> ReportStates]
      /\ Fits(x) /\ builds \subseteq Issued
  BY DEF ServiceInv, StreamInv, TruthInv, IInv, TypeOK, StepsFit
<1>2. ASSUME ~MemoryLost, x \in builds, ~Done(x) PROVE x \in builds'
  BY <1>1, <1>2, OnlyFinishedPruned
<1>3. ASSUME ~MemoryLost, pc'[x] = pc[x], reportStatus'[x] = reportStatus[x],
             x \in withReport' <=> x \in withReport, x \in builds' => x \in builds
      PROVE  Remembered(x)' /\ ReportOwed(x)'
  BY <1>1, <1>2, <1>3 DEF Remembered, ReportOwed, Done, Settled
<1>4. ASSUME ~MemoryLost, Untouched(x), x \in Issued PROVE Remembered(x)' /\ ReportOwed(x)'
  BY <1>3, <1>4 DEF Untouched
<1>5. ASSUME NEW b \in Builds, BuildStep(b) PROVE Remembered(x)' /\ ReportOwed(x)'
  <2>0. ~MemoryLost
    <3>1. b \in Builds /\ pc[b] # "none" /\ pc'[b] # "none"
      BY <1>1, <1>5, OwnStep, Handover DEF Goto
    <3> QED
      BY <3>1 DEF MemoryLost, Each
  <2>1. CASE CompleteBuild(b)
    <3>1. /\ UNCHANGED <<reportStatus, withReport>> /\ builds' \subseteq builds
          /\ pc[b] = "completing"
          /\ \A i \in DOMAIN queue : queue[i] \in Builds /\ queue[i] \in builds /\ pc[queue[i]] = "none"
          /\ \/ pc' = [pc EXCEPT ![b] = "closing"]
             \/ \E i \in DOMAIN queue : pc' = [pc EXCEPT ![b] = "closing", ![queue[i]] = "preparing"]
      <4>1. /\ pc[b] = "completing" /\ UNCHANGED <<reportStatus, withReport>> /\ builds' \subseteq builds
            /\ \/ pc' = [pc EXCEPT ![b] = "closing"]
               \/ \E i \in DOMAIN queue : pc' = [pc EXCEPT ![b] = "closing", ![queue[i]] = "preparing"]
        BY <1>1, <2>1, Handover DEF Goto
      <4>2. \A i \in DOMAIN queue : queue[i] \in Builds /\ queue[i] \in builds /\ pc[queue[i]] = "none"
        BY <1>1 DEF IInv, QueueSound, TypeOK
      <4> QED
        BY <4>1, <4>2
    <3>2. CASE pc'[x] = pc[x]
      BY <1>3, <2>0, <3>1, <3>2
    <3>3. CASE pc'[x] # pc[x]
      <4>1. \/ x = b /\ pc'[x] = "closing"
            \/ x \in builds /\ pc[x] = "none"
        BY <1>1, <3>1, <3>3
      <4>2. x \in builds /\ ~Done(x)
        BY <1>1, <3>1, <4>1 DEF Done, Remembered
      <4>3. x \in builds'
        BY <1>2, <2>0, <4>2
      <4> QED
        BY <1>1, <3>1, <4>1, <4>3 DEF Remembered, ReportOwed, Settled
    <3> QED
      BY <3>2, <3>3
  <2>2. CASE ~CompleteBuild(b) /\ x = b
    BY <1>1, <1>5, <2>2, OwnService
  <2>3. CASE ~CompleteBuild(b) /\ x # b
    BY <1>1, <1>3, <1>5, <2>0, <2>3, OwnStep
  <2> QED
    BY <2>1, <2>2, <2>3
<1>6. ASSUME NEW c \in Handlers, HandlerStep(c) PROVE Remembered(x)' /\ ReportOwed(x)'
  <2>1. UNCHANGED <<builds, withReport>> /\ UNCHANGED reportStatus
    BY <1>6 DEF HandlerStep, CancelDequeues, CancelSignals, CancelRecords, CancelNotes, CancelAnnounces,
                AvailabilityRefreshes, RunsUnchanged, issue
  <2>2. \/ pc'[x] = pc[x]
        \/ x \in builds /\ pc[x] = "none" /\ pc'[x] = "withdrawn"
        \/ pc[x] = "withdrawn" /\ pc'[x] = "reporting"
        \/ pc[x] = "withdrawn" /\ pc'[x] = "closing" /\ x \notin withReport
    <3>1. CASE CancelDequeues(c)
      BY <1>1, <3>1 DEF CancelDequeues, Goto, IInv, QueueSound, InQueue
    <3>2. CASE CancelAnnounces(c)
      BY <1>1, <3>2 DEF CancelAnnounces, Goto, IInv, HandlersFit, Publishing
    <3>3. CASE CancelSignals(c) \/ CancelRecords(c) \/ CancelNotes(c) \/ AvailabilityRefreshes(c)
      BY <3>3 DEF CancelSignals, CancelRecords, CancelNotes, AvailabilityRefreshes
    <3> QED
      BY <1>6, <3>1, <3>2, <3>3 DEF HandlerStep
  <2> QED
    BY <1>1, <2>1, <2>2 DEF Remembered, ReportOwed, Settled
<1>7. ASSUME NEW r \in Requests, NEW reports \in Callbacks, NEW b \in Builds, StartBuild(r, reports, b)
      PROVE  Remembered(x)' /\ ReportOwed(x)'
  <2>1. CASE x # b
    BY <1>1, <1>7, <2>1 DEF StartBuild, Goto, Remembered, ReportOwed
  <2>2. CASE x = b
    BY <1>1, <1>7, <2>2 DEF StartBuild, Goto, Remembered, ReportOwed, Fits
  <2> QED
    BY <2>1, <2>2
<1>8. CASE MemoryLost
  BY <1>8 DEF MemoryLost, Each, Remembered, ReportOwed
<1>9. CASE ~MemoryLost /\ Untouched(x)
  <2>1. CASE x \in Issued
    BY <1>4, <1>9, <2>1
  <2>2. CASE x \notin Issued
    BY <1>1, <1>9, <2>2 DEF Fits, Untouched, Remembered, ReportOwed
  <2> QED
    BY <2>1, <2>2
<1> QED
  BY <1>1, <1>5, <1>6, <1>7, <1>8, <1>9, OtherActions

LEMMA ServiceStep == ServiceInv /\ [Next]_vars => ServiceInv'
<1> SUFFICES ASSUME ServiceInv, [Next]_vars PROVE ServiceInv'
  OBVIOUS
<1>1. StreamInv'
  BY StreamStep DEF ServiceInv
<1>2. (withReport \subseteq Issued)'
  <2>1. IInv /\ withReport \subseteq Issued /\ withReport \subseteq Builds /\ None \notin Requests
    BY DEF ServiceInv, StreamInv, TruthInv, IInv, TypeOK
  <2>2. ASSUME NEW r \in Requests, NEW reports \in Callbacks, NEW b \in Builds, StartBuild(r, reports, b)
        PROVE  withReport' \subseteq Issued'
    BY <2>1, <2>2 DEF StartBuild, Issued, IInv, TypeOK
  <2>3. CASE UNCHANGED issue
    BY <2>1, <2>3 DEF Issued, issue
  <2>4. (\E b \in Builds : BuildStep(b)) \/ (\E c \in Handlers : HandlerStep(c)) => UNCHANGED issue
    BY <2>1, OwnStep, Handover DEF issue, HandlerStep, CancelDequeues, CancelSignals, CancelRecords,
       CancelNotes, CancelAnnounces, AvailabilityRefreshes, RunsUnchanged
  <2> QED
    BY <2>2, <2>3, <2>4 DEF Next, CancelAccepted, RunsUnchanged, SetAccepting, BeginShutdown,
       ShutdownCancels, ShutdownAwaits, Exit, Crash, MemoryLost, Restart, vars
<1> QED
  BY <1>1, <1>2, ServiceKept DEF ServiceInv

LEMMA InitService == Init => ServiceInv
<1> SUFFICES ASSUME Init PROVE ServiceInv
  OBVIOUS
<1>1. \A b \in Builds : StreamFits(b)
  BY DEF Init, FreshMemory, Each, StreamFits, Decided, Reporting, Told
<1>2. withReport \subseteq Issued /\ \A b \in Builds : Remembered(b) /\ ReportOwed(b)
  BY DEF Init, FreshMemory, Each, Remembered, ReportOwed
<1> QED
  BY <1>1, <1>2, InitTruth DEF StreamInv, ServiceInv

-----------------------------------------------------------------------------
\* The abstract fate of a build, by what the process still knows of it.
LEMMA FateOf ==
  ASSUME IInv, NEW x \in Builds
  PROVE  /\ x \notin Issued => Fate[x] = "absent"
         /\ Lost(x) => Fate[x] = "lost"
         /\ x \in Issued /\ ~Lost(x) /\ record[x] # "none" => Fate[x] = record[x]
         /\ x \in Issued /\ ~Lost(x) /\ record[x] = "none" =>
              Fate[x] = IF x \in builds /\ x \in started THEN "running" ELSE "waiting"
<1>1. Fits(x) /\ builds \subseteq Issued
  BY DEF IInv, TypeOK, StepsFit
<1>2. /\ record[x] # "none" => pc[x] # "none"
      /\ x \notin Issued => pc[x] = "none"
  BY <1>1 DEF Fits
<1> QED
  BY <1>1, <1>2 DEF Fate, Lost, HasTerminalRecord

\* A step that leaves alone what the fate of a build is read from.
LEMMA FateUntouched ==
  ASSUME NEW x \in Builds, x \in Issued' <=> x \in Issued,
         pc'[x] = "none" <=> pc[x] = "none", record'[x] = record[x],
         x \in started' <=> x \in started, x \in builds' <=> x \in builds
  PROVE  Fate'[x] = Fate[x]
BY DEF Fate, HasTerminalRecord

\* Pruning a finished run leaves its fate.
LEMMA FatePruned ==
  ASSUME NEW x \in Builds, x \in Issued, pc[x] # "none", record[x] # "none",
         x \in Issued', pc'[x] # "none", record'[x] = record[x]
  PROVE  Fate'[x] = Fate[x]
BY DEF Fate, HasTerminalRecord

\* A step that decides the fate of one build.
LEMMA OneFate ==
  ASSUME NEW b \in Builds, \A x \in Builds \ {b} : Fate'[x] = Fate[x]
  PROVE  Fate' = [Fate EXCEPT ![b] = Fate'[b]]
<1>1. Fate = [x \in Builds |-> Fate[x]] /\ Fate' = [x \in Builds |-> Fate'[x]]
  BY DEF Fate
<1> QED
  BY <1>1

LEMMA SameFate ==
  ASSUME \A x \in Builds : Fate'[x] = Fate[x] PROVE Fate' = Fate
<1>1. Fate = [x \in Builds |-> Fate[x]] /\ Fate' = [x \in Builds |-> Fate'[x]]
  BY DEF Fate
<1> QED
  BY <1>1

\* The service does not see a step that changes neither slot, line nor fate.
Unseen == UNCHANGED <<active, queue, Fate, OwedNothing, receipts>>

\* What a goroutine's own step, other than completeBuild, leaves of the service.
LEMMA OwnFates ==
  ASSUME IInv, NEW b \in Builds, BuildStep(b), ~CompleteBuild(b)
  PROVE  /\ UNCHANGED <<active, queue>>
         /\ \A x \in Builds \ {b} : Fate'[x] = Fate[x] /\ (x \in OwedNothing' <=> x \in OwedNothing)
         /\ record'[b] = record[b] => Fate'[b] = Fate[b]
         /\ record'[b] = record[b] /\ reportStatus'[b] = reportStatus[b] =>
              UNCHANGED Fate /\ UNCHANGED OwedNothing
<1>1. /\ UNCHANGED <<builds, active, queue, started, request>>
      /\ pc[b] # "none" /\ pc'[b] # "none"
      /\ \A x \in Builds \ {b} : pc'[x] = pc[x] /\ record'[x] = record[x] /\ reportStatus'[x] = reportStatus[x]
  BY OwnStep
<1>2. \A x \in Builds : x \in Issued' <=> x \in Issued
  BY <1>1 DEF Issued
<1>3. \A x \in Builds \ {b} : Fate'[x] = Fate[x]
  BY <1>1, <1>2, FateUntouched
<1>4. \A x \in Builds \ {b} : x \in OwedNothing' <=> x \in OwedNothing
  BY <1>1 DEF OwedNothing, HasTerminalRecord
<1>5. record'[b] = record[b] => Fate'[b] = Fate[b]
  BY <1>1, <1>2, FateUntouched
<1>6. ASSUME record'[b] = record[b], reportStatus'[b] = reportStatus[b]
      PROVE  UNCHANGED Fate /\ UNCHANGED OwedNothing
  <2>1. UNCHANGED Fate
    BY <1>3, <1>5, <1>6, SameFate
  <2>2. b \in OwedNothing' <=> b \in OwedNothing
    BY <1>6 DEF OwedNothing, HasTerminalRecord
  <2>3. OwedNothing \subseteq Builds /\ OwedNothing' \subseteq Builds
    BY DEF OwedNothing
  <2> QED
    BY <1>4, <2>1, <2>2, <2>3
<1> QED
  BY <1>1, <1>3, <1>4, <1>5, <1>6

\* The steps of a goroutine that say nothing new to the service.
LEMMA QuietSteps ==
  ASSUME IInv, NEW b \in Builds, BuildStep(b),
         \/ PrepareFails(b) \/ CommandStarts(b) \/ CommandExits(b) \/ CommandAnnounced(b)
         \/ RecordWritten(b) \/ ReportNoted(b) \/ ReportTold(b) \/ DoneClosed(b) \/ RunClosed(b)
  PROVE  Unseen
<1>1. UNCHANGED <<record, reportStatus, receipts>>
  BY DEF PrepareFails, CommandStarts, CommandExits, CommandAnnounced, RecordWritten, ReportNoted,
         ReportTold, DoneClosed, RunClosed
<1>2. ~CompleteBuild(b)
  BY DEF CompleteBuild, PrepareFails, CommandStarts, CommandExits, CommandAnnounced, RecordWritten,
         ReportNoted, ReportTold, DoneClosed, RunClosed
<1> QED
  BY <1>1, <1>2, OwnFates DEF Unseen

-----------------------------------------------------------------------------
\* setRecord in finishBuildRun is the verdict of the build in the slot.
LEMMA RecordDecides ==
  ASSUME ServiceInv, NEW b \in Builds, RecordSet(b)
  PROVE  \E verdict \in Verdicts : Service!Decide(b, verdict)
<1>1. /\ IInv /\ BuildStep(b) /\ RecordDue(b) /\ Fits(b) /\ Remembered(b)
      /\ record \in [Builds -> Verdicts \cup {"none"}] /\ builds \subseteq Issued
      /\ pc[b] = "cleanup" /\ SlotHeld
  BY DEF ServiceInv, StreamInv, TruthInv, IInv, TypeOK, StepsFit, BuildStep, RecordSet
<1>2. /\ b \in started /\ b \in builds /\ record[b] = "none" /\ active = b
      /\ result[b] \in Verdicts \cup {"timed out"}
  BY <1>1 DEF Fits, OnlyStarted, RecordDue, Remembered, SlotHeld, BeforeComplete, Steps
<1> DEFINE verdict == IF result[b] = "timed out" THEN "failed" ELSE result[b]
<1>3. verdict \in Verdicts /\ verdict # "none"
  BY <1>2 DEF Verdicts
<1>4. ~CompleteBuild(b) /\ UNCHANGED <<reportStatus, receipts>> /\ record' = [record EXCEPT ![b] = verdict]
  BY <1>1 DEF RecordSet, CompleteBuild
<1>5. record'[b] = verdict /\ record'[b] # "none"
  BY <1>1, <1>3, <1>4
<1> HIDE DEF verdict
<1>6. /\ UNCHANGED <<active, queue>>
      /\ \A x \in Builds \ {b} : Fate'[x] = Fate[x] /\ (x \in OwedNothing' <=> x \in OwedNothing)
  BY <1>1, <1>4, OwnFates
<1>7. Fate[b] = "running"
  BY <1>1, <1>2, FateOf DEF Lost
<1>8. Fate'[b] = verdict
  <2>1. b \in Issued' /\ b \in builds' /\ pc'[b] # "none"
    BY <1>1, <1>2, <1>4, OwnStep DEF Issued
  <2> QED
    BY <1>5, <2>1 DEF Fate, HasTerminalRecord
<1>9. Fate' = [Fate EXCEPT ![b] = verdict]
  BY <1>6, <1>8, OneFate
<1>10. OwedNothing' \in {OwedNothing, OwedNothing \cup {b}}
  <2>1. b \notin OwedNothing /\ OwedNothing \subseteq Builds /\ OwedNothing' \subseteq Builds
    BY <1>2 DEF OwedNothing, HasTerminalRecord
  <2> QED
    BY <1>6, <2>1
<1> QED
  BY <1>2, <1>3, <1>4, <1>6, <1>7, <1>9, <1>10 DEF Service!Decide

\* A callback is owed while its attempts go on, and a decided fate is the record.
LEMMA ReportOfRecord ==
  ASSUME ServiceInv, NEW b \in Builds, pc[b] \in {"reporting", "settling"}
  PROVE  /\ Fate[b] = record[b] /\ Fate[b] \in Verdicts /\ reportStatus[b] = "pending"
         /\ Service!Decided(b)
<1>1. /\ IInv /\ StreamFits(b) /\ Fits(b) /\ Remembered(b) /\ ReportOwed(b)
      /\ record \in [Builds -> Verdicts \cup {"none"}] /\ builds \subseteq Issued
  BY DEF ServiceInv, StreamInv, TruthInv, IInv, TypeOK, StepsFit
<1>2. b \in builds /\ b \in withReport /\ record[b] # "none" /\ pc[b] \notin Settled
  BY <1>1 DEF StreamFits, Fits, Remembered, Reporting, Decided, Settled
<1>3. reportStatus[b] = "pending"
  BY <1>1, <1>2 DEF ReportOwed
<1>4. Fate[b] = record[b]
  BY <1>1, <1>2, FateOf DEF Lost
<1>5. Fate[b] \in Verdicts
  BY <1>1, <1>2, <1>4
<1> QED
  BY <1>3, <1>4, <1>5 DEF Service!Decided, Service!Outcomes, Verdicts

\* A report attempt tells CI the verdict, or nothing that it can see.
LEMMA AttemptTells ==
  ASSUME ServiceInv, NEW b \in Builds, ReportAttempt(b) PROVE Service!Tell(b) \/ Unseen
<1>1. /\ IInv /\ BuildStep(b) /\ ~CompleteBuild(b) /\ pc[b] = "reporting"
      /\ UNCHANGED <<record, reportStatus>>
  BY DEF ServiceInv, StreamInv, TruthInv, BuildStep, ReportAttempt, CompleteBuild
<1>2. receipts' \in {receipts, receipts \cup {<<b, record[b]>>}}
  BY DEF ReportAttempt
<1>3. UNCHANGED <<active, queue, Fate, OwedNothing>>
  BY <1>1, OwnFates
<1>4. Fate[b] = record[b] /\ Service!Decided(b) /\ b \notin OwedNothing
  BY <1>1, ReportOfRecord DEF OwedNothing
<1> QED
  BY <1>2, <1>3, <1>4 DEF Service!Tell, Unseen

\* The outcome of the report is settled once.
LEMMA SettledSettles ==
  ASSUME ServiceInv, NEW b \in Builds, ReportSettled(b) PROVE Service!Settle(b)
<1>1. /\ IInv /\ BuildStep(b) /\ ~CompleteBuild(b) /\ pc[b] = "settling" /\ UNCHANGED <<record, receipts>>
      /\ reportStatus \in [Builds -> ReportStates] /\ record \in [Builds -> Verdicts \cup {"none"}]
  BY DEF ServiceInv, StreamInv, TruthInv, IInv, TypeOK, BuildStep, ReportSettled, CompleteBuild
<1>2. reportStatus'[b] # "pending"
  BY <1>1 DEF ReportSettled
<1>3. Fate[b] = record[b] /\ Fate[b] \in Verdicts /\ Service!Decided(b)
  BY <1>1, ReportOfRecord
<1>4. /\ UNCHANGED <<active, queue>>
      /\ \A x \in Builds \ {b} : Fate'[x] = Fate[x] /\ (x \in OwedNothing' <=> x \in OwedNothing)
      /\ Fate'[b] = Fate[b]
  BY <1>1, OwnFates
<1>5. UNCHANGED Fate
  BY <1>4, SameFate
<1>6. b \in OwedNothing'
  BY <1>1, <1>2, <1>3 DEF OwedNothing, HasTerminalRecord, Verdicts
<1>7. OwedNothing' = OwedNothing \cup {b}
  <2>1. OwedNothing \subseteq Builds /\ OwedNothing' \subseteq Builds
    BY DEF OwedNothing
  <2> QED
    BY <1>4, <1>6, <2>1
<1> QED
  BY <1>1, <1>3, <1>4, <1>5, <1>7 DEF Service!Settle

-----------------------------------------------------------------------------
LEMMA SameSequence ==
  ASSUME NEW S, NEW f \in Seq(S), NEW g \in Seq(S), Len(f) = Len(g),
         \A i \in 1..Len(f) : f[i] = g[i]
  PROVE  f = g
OBVIOUS

LEMMA Joined ==
  ASSUME NEW S, NEW f \in Seq(S), NEW g \in Seq(S)
  PROVE  /\ f \o g \in Seq(S)
         /\ Len(f \o g) = Len(f) + Len(g)
         /\ \A i \in 1..Len(f) : (f \o g)[i] = f[i]
         /\ \A i \in 1..Len(g) : (f \o g)[Len(f) + i] = g[i]
OBVIOUS

\* Taking an entry out of a queue leaves what was before and behind it.
LEMMA WithoutIsCut ==
  ASSUME NEW S, NEW q \in Seq(S), NEW b, \E i \in DOMAIN q : q[i] = b
  PROVE  \E k \in DOMAIN q :
           q[k] = b /\ Without(q, b) = SubSeq(q, 1, k - 1) \o SubSeq(q, k + 1, Len(q))
<1>1. PICK k \in 1..Len(q) :
        /\ q[k] = b
        /\ Without(q, b) \in Seq(S)
        /\ Len(Without(q, b)) = Len(q) - 1
        /\ \A i \in 1..(Len(q) - 1) : Without(q, b)[i] = IF i < k THEN q[i] ELSE q[i + 1]
  BY WithoutEntry
<1> DEFINE front == SubSeq(q, 1, k - 1)
           back  == SubSeq(q, k + 1, Len(q))
<1>2. /\ front \in Seq(S) /\ Len(front) = k - 1
      /\ \A i \in 1..(k - 1) : front[i] = q[i]
  OBVIOUS
<1>3. /\ back \in Seq(S) /\ Len(back) = Len(q) - k
      /\ \A i \in 1..(Len(q) - k) : back[i] = q[k + i]
  OBVIOUS
<1> HIDE DEF front, back
<1>4. /\ front \o back \in Seq(S) /\ Len(front \o back) = Len(front) + Len(back)
      /\ \A i \in 1..Len(front) : (front \o back)[i] = front[i]
      /\ \A i \in 1..Len(back) : (front \o back)[Len(front) + i] = back[i]
  <2>1. front \in Seq(S) /\ back \in Seq(S)
    BY <1>2, <1>3
  <2>2. front \o back \in Seq(S) /\ Len(front \o back) = Len(front) + Len(back)
    BY <2>1, Joined
  <2>3. \A i \in 1..Len(front) : (front \o back)[i] = front[i]
    BY <2>1, Joined
  <2>4. \A i \in 1..Len(back) : (front \o back)[Len(front) + i] = back[i]
    BY <2>1, Joined
  <2> QED
    BY <2>2, <2>3, <2>4
<1>5. Len(q) \in Nat /\ Len(front \o back) = Len(q) - 1
  BY <1>2, <1>3, <1>4
<1>6. \A i \in 1..(Len(q) - 1) : (front \o back)[i] = IF i < k THEN q[i] ELSE q[i + 1]
  <2> SUFFICES ASSUME NEW i \in 1..(Len(q) - 1)
               PROVE  (front \o back)[i] = IF i < k THEN q[i] ELSE q[i + 1]
    OBVIOUS
  <2>1. CASE i < k
    BY <1>2, <1>4, <1>5, <2>1
  <2>2. CASE ~(i < k)
    <3> DEFINE j == i - (k - 1)
    <3>1. j \in 1..(Len(q) - k) /\ k + j = i + 1 /\ (k - 1) + j = i
      BY <1>5, <2>2
    <3>2. (front \o back)[Len(front) + j] = back[j] /\ back[j] = q[k + j]
      BY <1>3, <1>4, <3>1
    <3> QED
      BY <1>2, <2>2, <3>1, <3>2
  <2> QED
    BY <2>1, <2>2
<1>7. front \o back = Without(q, b)
  <2> DEFINE joined == front \o back
  <2>1. joined \in Seq(S) /\ Len(joined) = Len(q) - 1
    BY <1>4, <1>5
  <2>2. \A i \in 1..Len(joined) : joined[i] = Without(q, b)[i]
    BY <1>1, <1>6, <2>1
  <2> HIDE DEF joined
  <2>3. joined = Without(q, b)
    BY <1>1, <2>1, <2>2, SameSequence
  <2> QED
    BY <2>3 DEF joined
<1>8. Without(q, b) = SubSeq(q, 1, k - 1) \o SubSeq(q, k + 1, Len(q))
  BY <1>7 DEF front, back
<1>9. k \in DOMAIN q
  OBVIOUS
<1> QED
  BY <1>1, <1>8, <1>9, Zenon

\* What a handler's steps leave of the service.
LEMMA HandlerFates ==
  ASSUME IInv, NEW c \in Handlers, HandlerStep(c)
  PROVE  /\ UNCHANGED <<active, builds, started, request, receipts, reportStatus>>
         /\ \A x \in Builds : x \in Issued' <=> x \in Issued
  BY DEF HandlerStep, CancelDequeues, CancelSignals, CancelRecords, CancelNotes, CancelAnnounces,
         AvailabilityRefreshes, RunsUnchanged, issue, Issued

\* A cancel that finds its build in the queue withdraws it from the line.
LEMMA DequeueWithdraws ==
  ASSUME ServiceInv, NEW c \in Handlers, CancelDequeues(c)
  PROVE  Unseen \/ \E b \in Builds : Service!Withdraw(b)
<1> DEFINE b == handler[c].build
<1>1. /\ IInv /\ HandlerStep(c) /\ queue \in Seq(Builds) /\ pc \in [Builds -> Steps] /\ QueueSound
      /\ builds \subseteq Issued /\ UNCHANGED record
  BY DEF ServiceInv, StreamInv, TruthInv, IInv, TypeOK, HandlerStep, CancelDequeues
<1>2. /\ UNCHANGED <<active, builds, started, request, receipts, reportStatus>>
      /\ \A x \in Builds : x \in Issued' <=> x \in Issued
  BY <1>1, HandlerFates
<1>3. UNCHANGED OwedNothing
  BY <1>1, <1>2 DEF OwedNothing, HasTerminalRecord
<1>4. CASE ~InQueue(b)
  <2>1. UNCHANGED <<pc, queue>>
    BY <1>4 DEF CancelDequeues
  <2>2. UNCHANGED Fate
    BY <1>1, <1>2, <2>1, FateUntouched, SameFate
  <2> QED
    BY <1>2, <1>3, <2>1, <2>2 DEF Unseen
<1>5. CASE InQueue(b)
  <2>1. queue' = Without(queue, b) /\ pc' = [pc EXCEPT ![b] = "withdrawn"]
    BY <1>5 DEF CancelDequeues, Goto
  <2>2. \E i \in DOMAIN queue : queue[i] = b
    BY <1>5 DEF InQueue
  <2>3. b \in Builds /\ b \in builds /\ b \in Issued /\ pc[b] = "none" /\ record[b] = "none" /\ b \notin started
    BY <1>1, <2>2 DEF QueueSound, HasTerminalRecord
  <2> HIDE DEF b
  <2>4. \E k \in DOMAIN queue :
          queue[k] = b /\ queue' = SubSeq(queue, 1, k - 1) \o SubSeq(queue, k + 1, Len(queue))
    BY <1>1, <2>1, <2>2, WithoutIsCut
  <2>5. Fate'[b] = Fate[b]
    <3>1. record'[b] = "none" /\ b \in Issued' /\ b \in builds' /\ b \notin started'
      BY <1>1, <1>2, <2>3
    <3> QED
      BY <2>3, <3>1 DEF Fate, HasTerminalRecord
  <2>6. \A x \in Builds \ {b} : Fate'[x] = Fate[x]
    <3>1. \A x \in Builds \ {b} : pc'[x] = pc[x] /\ record'[x] = record[x]
      BY <1>1, <2>1, <2>3
    <3> QED
      BY <1>2, <3>1, FateUntouched
  <2>7. UNCHANGED Fate
    BY <2>5, <2>6, SameFate
  <2> QED
    BY <1>2, <1>3, <2>3, <2>4, <2>7 DEF Service!Withdraw
<1> QED
  BY <1>4, <1>5

\* The canceling handler's record is the verdict of the withdrawn build.
LEMMA CancelDecides ==
  ASSUME ServiceInv, NEW c \in Handlers, CancelRecords(c)
  PROVE  \E b \in Builds : Service!Decide(b, "canceled")
<1> DEFINE b == handler[c].build
<1>1. /\ IInv /\ HandlerStep(c) /\ pc \in [Builds -> Steps] /\ QueueSound /\ HandlersFit /\ RecordingFits
      /\ builds \subseteq Issued /\ record \in [Builds -> Verdicts \cup {"none"}]
      /\ UNCHANGED <<queue, pc, reportStatus>> /\ record' = [record EXCEPT ![b] = "canceled"]
      /\ handler[c].at = "recording"
  BY DEF ServiceInv, StreamInv, TruthInv, IInv, TypeOK, HandlerStep, CancelRecords
<1>2. /\ UNCHANGED <<active, builds, started, request, receipts, reportStatus>>
      /\ \A x \in Builds : x \in Issued' <=> x \in Issued
  BY <1>1, HandlerFates
<1>3. b \in Builds /\ pc[b] = "withdrawn" /\ record[b] = "none"
  BY <1>1 DEF HandlersFit, Publishing, RecordingFits
<1> HIDE DEF b
<1>4. Remembered(b) /\ Fits(b)
  BY <1>1, <1>3 DEF ServiceInv, IInv, StepsFit
<1>5. b \in builds /\ b \in Issued /\ b \notin started
  BY <1>1, <1>3, <1>4 DEF Remembered, Fits
<1>6. Fate[b] = "waiting"
  BY <1>1, <1>3, <1>5, FateOf DEF Lost
<1>7. \A i \in DOMAIN queue : queue[i] # b
  BY <1>1, <1>3 DEF QueueSound
<1>8. record'[b] = "canceled" /\ \A x \in Builds \ {b} : record'[x] = record[x]
  BY <1>1, <1>3
<1>9. Fate'[b] = "canceled"
  <2>1. b \in Issued' /\ b \in builds' /\ pc'[b] = "withdrawn"
    BY <1>1, <1>2, <1>3, <1>5
  <2> QED
    BY <1>3, <1>8, <2>1 DEF Fate, HasTerminalRecord
<1>10. \A x \in Builds \ {b} : Fate'[x] = Fate[x]
  BY <1>1, <1>2, <1>8, FateUntouched
<1>11. Fate' = [Fate EXCEPT ![b] = "canceled"]
  BY <1>3, <1>9, <1>10, OneFate
<1>12. OwedNothing' \in {OwedNothing, OwedNothing \cup {b}}
  <2>1. b \notin OwedNothing /\ OwedNothing \subseteq Builds /\ OwedNothing' \subseteq Builds
    BY <1>3 DEF OwedNothing, HasTerminalRecord
  <2>2. \A x \in Builds \ {b} : x \in OwedNothing' <=> x \in OwedNothing
    BY <1>1, <1>8 DEF OwedNothing, HasTerminalRecord
  <2> QED
    BY <2>1, <2>2
<1> QED
  BY <1>1, <1>2, <1>3, <1>6, <1>7, <1>11, <1>12 DEF Service!Decide, Service!InLine

-----------------------------------------------------------------------------
LEMMA TailBehind ==
  ASSUME NEW S, NEW q \in Seq(S), q # <<>>
  PROVE  Tail(q) = SubSeq(q, 2, Len(q)) /\ Head(q) = q[1] /\ 1 \in DOMAIN q
<1>1. Len(q) \in Nat /\ Len(q) >= 1
  OBVIOUS
<1>2. /\ Tail(q) \in Seq(S) /\ Len(Tail(q)) = Len(q) - 1
      /\ \A i \in 1..(Len(q) - 1) : Tail(q)[i] = q[i + 1]
  BY <1>1
<1>3. /\ SubSeq(q, 2, Len(q)) \in Seq(S) /\ Len(SubSeq(q, 2, Len(q))) = Len(q) - 1
      /\ \A i \in 1..(Len(q) - 1) : SubSeq(q, 2, Len(q))[i] = q[i + 1]
  <2>1. 1 \in DOMAIN q /\ 1 + 1 = 2 /\ \A i \in 1..(Len(q) - 1) : 1 + i = i + 1
    BY <1>1
  <2>2. /\ SubSeq(q, 1 + 1, Len(q)) \in Seq(S)
        /\ Len(SubSeq(q, 1 + 1, Len(q))) = Len(q) - 1
        /\ \A i \in 1..(Len(q) - 1) : SubSeq(q, 1 + 1, Len(q))[i] = q[1 + i]
    BY <2>1, Behind
  <2> QED
    BY <2>1, <2>2
<1>4. Tail(q) = SubSeq(q, 2, Len(q))
  BY <1>2, <1>3, SameSequence
<1> QED
  BY <1>1, <1>4

\* Every queued build can be started, so the head of the queue is.
LEMMA HeadStarts ==
  ASSUME IInv, NEW b \in Builds, CompleteBuild(b)
  PROVE  \/ /\ queue = <<>> /\ queue' = <<>> /\ active' = None
            /\ UNCHANGED started /\ pc' = [pc EXCEPT ![b] = "closing"]
         \/ /\ queue # <<>> /\ active' = Head(queue) /\ queue' = Tail(queue)
            /\ Head(queue) \in Builds /\ Head(queue) # b
            /\ started' = started \cup {Head(queue)}
            /\ pc' = [pc EXCEPT ![b] = "closing", ![Head(queue)] = "preparing"]
<1>1. /\ queue \in Seq(Builds) /\ QueueSound
  BY DEF IInv, TypeOK
<1>2. Startable = DOMAIN queue
  BY <1>1 DEF Startable, QueueSound, Done
<1>3. active = b /\ pc[b] = "completing"
  BY Handover
<1>4. CASE queue = <<>>
  <2>1. DOMAIN queue = {}
    BY <1>4
  <2> QED
    BY <1>2, <1>3, <1>4, <2>1 DEF CompleteBuild, Goto
<1>5. CASE queue # <<>>
  <2>1. 1 \in DOMAIN queue /\ Len(queue) \in Nat /\ \A i \in DOMAIN queue : 1 <= i /\ i \in Int
    BY <1>1, <1>5
  <2>2. \A i \in DOMAIN queue : i <= 1 => i = 1
    BY <2>1
  <2>3. /\ active' = queue[1]
        /\ queue' = SubSeq(queue, 1 + 1, Len(queue))
        /\ started' = started \cup {queue[1]}
        /\ pc' = [pc EXCEPT ![b] = "closing", ![queue[1]] = "preparing"]
    <3>1. PICK i \in Startable :
            /\ \A j \in Startable : i <= j
            /\ active' = queue[i]
            /\ queue' = SubSeq(queue, i + 1, Len(queue))
            /\ started' = started \cup {queue[i]}
            /\ pc' = [pc EXCEPT ![b] = "closing", ![queue[i]] = "preparing"]
      BY <1>2, <1>3, <2>1 DEF CompleteBuild
    <3>2. i = 1
      BY <1>2, <2>1, <2>2, <3>1
    <3> QED
      BY <3>1, <3>2
  <2>4. Head(queue) = queue[1] /\ Tail(queue) = SubSeq(queue, 1 + 1, Len(queue)) /\ queue[1] \in Builds
    <3>1. Tail(queue) = SubSeq(queue, 2, Len(queue)) /\ Head(queue) = queue[1]
      BY <1>1, <1>5, TailBehind
    <3>2. 1 + 1 = 2 /\ queue[1] \in Builds
      BY <1>1, <2>1
    <3> QED
      BY <3>1, <3>2
  <2>5. queue[1] # b
    BY <1>1, <1>3, <2>1 DEF QueueSound
  <2> QED
    BY <1>5, <2>3, <2>4, <2>5
<1> QED
  BY <1>4, <1>5

\* completeBuild releases the slot, to the head of the line if there is one.
LEMMA CompleteReleases ==
  ASSUME ServiceInv, NEW b \in Builds, CompleteBuild(b) PROVE Service!Release(b)
<1>1. /\ IInv /\ pc \in [Builds -> Steps] /\ record \in [Builds -> Verdicts \cup {"none"}]
      /\ QueueSound /\ queue \in Seq(Builds) /\ builds \subseteq Issued /\ started \subseteq Builds
      /\ Remembered(b) /\ StepsFit
  BY DEF ServiceInv, StreamInv, TruthInv, IInv, TypeOK
<1>2. /\ active = b /\ pc[b] = "completing"
      /\ UNCHANGED <<record, reportStatus, request>> /\ UNCHANGED receipts
      /\ builds' \subseteq builds
      /\ \A x \in builds : pc[x] = "none" => x \in builds'
  BY <1>1, Handover DEF CompleteBuild
<1>3. Fits(b) /\ record[b] # "none" /\ reportStatus[b] # "pending" /\ b \in builds
  BY <1>1, <1>2 DEF StepsFit, Fits, Decided, Settled, Remembered
<1>4. Fate[b] = record[b] /\ Fate[b] \in Verdicts /\ b \in OwedNothing
  <2>1. Fate[b] = record[b]
    BY <1>1, <1>2, <1>3, FateOf DEF Lost
  <2> QED
    BY <1>1, <1>3, <2>1 DEF OwedNothing, HasTerminalRecord
<1>5. Service!Decided(b)
  BY <1>4 DEF Service!Decided, Service!Outcomes, Verdicts
<1>6. \A x \in Builds : x \in Issued' <=> x \in Issued
  BY <1>2 DEF Issued
<1>7. UNCHANGED OwedNothing
  BY <1>2 DEF OwedNothing, HasTerminalRecord
<1>8. ASSUME NEW x \in Builds, pc'[x] = pc[x] \/ (x = b /\ pc'[x] = "closing"), x \in started' <=> x \in started
      PROVE  Fate'[x] = Fate[x]
  <2>1. pc'[x] = "none" <=> pc[x] = "none"
    BY <1>2, <1>8
  <2>2. CASE x \in builds' <=> x \in builds
    BY <1>2, <1>6, <1>8, <2>1, <2>2, FateUntouched
  <2>3. CASE ~(x \in builds' <=> x \in builds)
    <3>1. x \in builds /\ x \notin builds' /\ pc[x] # "none"
      BY <1>2, <2>3
    <3>2. Done(x)
      BY <1>1, <3>1, <1>2 DEF CompleteBuild, Pruned
    <3>3. record[x] # "none" /\ x \in Issued
      BY <1>1, <3>1, <3>2 DEF StepsFit, Fits, Decided, Done
    <3> QED
      BY <1>2, <1>6, <2>1, <3>1, <3>3, FatePruned
  <2> QED
    BY <2>2, <2>3
<1>9. CASE queue = <<>>
  <2>1. queue' = <<>> /\ active' = None /\ UNCHANGED started /\ pc' = [pc EXCEPT ![b] = "closing"]
    BY <1>1, <1>9, HeadStarts
  <2>2. \A x \in Builds : /\ pc'[x] = pc[x] \/ (x = b /\ pc'[x] = "closing")
                          /\ x \in started' <=> x \in started
    BY <1>1, <2>1
  <2>3. \A x \in Builds : Fate'[x] = Fate[x]
    BY <1>8, <2>2
  <2>4. UNCHANGED Fate
    BY <2>3, SameFate
  <2> QED
    BY <1>2, <1>4, <1>5, <1>7, <1>9, <2>1, <2>4 DEF Service!Release
<1>10. CASE queue # <<>>
  <2> DEFINE h == Head(queue)
  <2>1. /\ active' = h /\ queue' = Tail(queue) /\ h \in Builds /\ h # b
        /\ started' = started \cup {h} /\ pc' = [pc EXCEPT ![b] = "closing", ![h] = "preparing"]
    BY <1>1, <1>10, HeadStarts
  <2>2. h \in builds /\ pc[h] = "none" /\ record[h] = "none"
    <3>1. 1 \in DOMAIN queue /\ queue[1] = h
      BY <1>1, <1>10
    <3> QED
      BY <1>1, <3>1 DEF QueueSound, HasTerminalRecord
  <2> HIDE DEF h
  <2>3. \A x \in Builds \ {h} : Fate'[x] = Fate[x]
    <3>1. \A x \in Builds \ {h} : /\ pc'[x] = pc[x] \/ (x = b /\ pc'[x] = "closing")
                                  /\ x \in started' <=> x \in started
      BY <1>1, <2>1
    <3> QED
      BY <1>8, <3>1
  <2>4. h \in builds' /\ h \in Issued' /\ record'[h] = "none" /\ pc'[h] = "preparing" /\ h \in started'
    BY <1>1, <1>2, <1>6, <2>1, <2>2
  <2>5. Fate'[h] = "running"
    BY <2>1, <2>4 DEF Fate, HasTerminalRecord
  <2>6. Fate' = [Fate EXCEPT ![h] = "running"]
    BY <2>1, <2>3, <2>5, OneFate
  <2> QED
    BY <1>2, <1>4, <1>5, <1>7, <1>10, <2>1, <2>6 DEF Service!Release, h
<1> QED
  BY <1>9, <1>10

\* A build is accepted into the free slot or at the end of the line.
LEMMA StartAccepts ==
  ASSUME ServiceInv, NEW r \in Requests, NEW reports \in Callbacks, NEW b \in Builds, StartBuild(r, reports, b)
  PROVE  Service!Accept(b)
<1>1. /\ IInv /\ pc \in [Builds -> Steps] /\ record \in [Builds -> Verdicts \cup {"none"}]
      /\ request \in [Builds -> Requests \cup {None}] /\ reportStatus \in [Builds -> ReportStates]
      /\ builds \subseteq Issued /\ started \subseteq Builds /\ Fits(b)
  BY DEF ServiceInv, StreamInv, TruthInv, IInv, TypeOK, StepsFit
<1>2. /\ b \notin Issued /\ builds' = builds \cup {b} /\ request' = [request EXCEPT ![b] = r]
      /\ UNCHANGED <<record, receipts>> /\ r # None
      /\ \A x \in Builds \ {b} : reportStatus'[x] = reportStatus[x]
      /\ \/ /\ active = None /\ active' = b /\ started' = started \cup {b}
            /\ pc' = [pc EXCEPT ![b] = "preparing"] /\ UNCHANGED queue
         \/ /\ active # None /\ queue' = Append(queue, b) /\ UNCHANGED <<active, started, pc>>
  BY <1>1 DEF StartBuild, Goto
<1>3. pc[b] = "none" /\ record[b] = "none" /\ b \notin builds /\ b \notin started
  BY <1>1, <1>2 DEF Fits
<1>4. Fate[b] = "absent"
  BY <1>1, <1>2, FateOf
<1>5. \A x \in Builds \ {b} : Fate'[x] = Fate[x]
  <2>1. \A x \in Builds \ {b} :
          /\ x \in Issued' <=> x \in Issued
          /\ pc'[x] = pc[x] /\ (x \in started' <=> x \in started) /\ (x \in builds' <=> x \in builds)
    BY <1>1, <1>2 DEF Issued
  <2> QED
    BY <1>2, <2>1, FateUntouched
<1>6. Fate'[b] = IF b \in started' THEN "running" ELSE "waiting"
  <2>1. b \in Issued' /\ b \in builds' /\ record'[b] = "none"
    BY <1>1, <1>2, <1>3 DEF Issued
  <2> QED
    BY <2>1 DEF Fate, HasTerminalRecord
<1>7. UNCHANGED OwedNothing
  <2>1. \A x \in Builds : x \in OwedNothing' <=> x \in OwedNothing
    BY <1>2, <1>3 DEF OwedNothing, HasTerminalRecord
  <2>2. OwedNothing \subseteq Builds /\ OwedNothing' \subseteq Builds
    BY DEF OwedNothing
  <2> QED
    BY <2>1, <2>2
<1>8. CASE active = None
  <2>1. Fate' = [Fate EXCEPT ![b] = "running"]
    BY <1>2, <1>5, <1>6, <1>8, OneFate
  <2> QED
    BY <1>2, <1>4, <1>7, <1>8, <2>1 DEF Service!Accept
<1>9. CASE active # None
  <2>1. Fate' = [Fate EXCEPT ![b] = "waiting"]
    BY <1>2, <1>3, <1>5, <1>6, <1>9, OneFate
  <2> QED
    BY <1>2, <1>4, <1>7, <1>9, <2>1 DEF Service!Accept
<1> QED
  BY <1>8, <1>9

\* The end of the process forgets what was not told.
LEMMA LossForgets ==
  ASSUME ServiceInv, MemoryLost PROVE Service!Forget
<1>1. IInv
  BY DEF ServiceInv, StreamInv, TruthInv
<1>2. /\ active' = None /\ queue' = <<>> /\ UNCHANGED receipts /\ builds' = {}
      /\ \A x \in Builds : pc'[x] = "none" /\ record'[x] = "none" /\ (x \in Issued' <=> x \in Issued)
  BY DEF MemoryLost, Each, issue, Issued
<1>3. OwedNothing' = {}
  BY <1>2 DEF OwedNothing, HasTerminalRecord
<1>4. \A x \in Builds : Fate[x] = "absent" <=> x \notin Issued
  <2>1. record \in [Builds -> Verdicts \cup {"none"}] /\ "absent" \notin Verdicts \cup {"none"}
    BY <1>1 DEF IInv, TypeOK, Verdicts
  <2> QED
    BY <1>1, <2>1, FateOf
<1>5. \A x \in Builds : Fate'[x] = IF x \in Issued THEN "lost" ELSE "absent"
  BY <1>2 DEF Fate, HasTerminalRecord
<1>6. Fate' = [x \in Builds |-> Fate'[x]]
  BY DEF Fate
<1>7. Fate' = [x \in Builds |-> IF Fate[x] = "absent" THEN "absent" ELSE "lost"]
  BY <1>4, <1>5, <1>6
<1> QED
  BY <1>2, <1>3, <1>7 DEF Service!Forget

-----------------------------------------------------------------------------
\* The steps of a handler that publish nothing.
LEMMA QuietHandlers ==
  ASSUME IInv, NEW c \in Handlers, HandlerStep(c),
         CancelSignals(c) \/ CancelNotes(c) \/ CancelAnnounces(c) \/ AvailabilityRefreshes(c)
  PROVE  Unseen
<1>1. /\ UNCHANGED <<active, builds, started, request, receipts, reportStatus>>
      /\ \A x \in Builds : x \in Issued' <=> x \in Issued
  BY HandlerFates
<1>2. UNCHANGED <<queue, record>>
  BY DEF CancelSignals, CancelNotes, CancelAnnounces, AvailabilityRefreshes
<1>3. \A x \in Builds : pc'[x] = "none" <=> pc[x] = "none"
  <2>1. CASE UNCHANGED pc
    BY <2>1
  <2>2. CASE CancelAnnounces(c)
    <3>1. /\ pc[handler[c].build] = "withdrawn" /\ pc \in [Builds -> Steps]
      BY <2>2 DEF CancelAnnounces, IInv, HandlersFit, Publishing, TypeOK
    <3> QED
      BY <2>2, <3>1 DEF CancelAnnounces, Goto
  <2> QED
    BY <2>1, <2>2 DEF CancelSignals, CancelNotes, AvailabilityRefreshes
<1>4. UNCHANGED OwedNothing
  BY <1>1, <1>2 DEF OwedNothing, HasTerminalRecord
<1>5. UNCHANGED Fate
  <2>1. \A x \in Builds : Fate'[x] = Fate[x]
    BY <1>1, <1>2, <1>3, FateUntouched
  <2> QED
    BY <2>1, SameFate
<1> QED
  BY <1>1, <1>2, <1>4, <1>5 DEF Unseen

LEMMA StepImplements == ServiceInv /\ [Next]_vars => Service!Next \/ Unseen
<1> SUFFICES ASSUME ServiceInv, [Next]_vars PROVE Service!Next \/ Unseen
  OBVIOUS
<1>1. IInv
  BY DEF ServiceInv, StreamInv, TruthInv
<1> USE DEF Service!Next
<1>2. ASSUME NEW r \in Requests, NEW reports \in Callbacks, NEW b \in Builds, StartBuild(r, reports, b)
      PROVE  Service!Next \/ Unseen
  BY <1>2, StartAccepts
<1>3. ASSUME NEW b \in Builds, BuildStep(b) PROVE Service!Next \/ Unseen
  <2>1. CASE RecordSet(b)
    BY <2>1, RecordDecides DEF Service!Outcomes, Verdicts
  <2>2. CASE ReportAttempt(b)
    BY <2>2, AttemptTells
  <2>3. CASE ReportSettled(b)
    BY <2>3, SettledSettles
  <2>4. CASE CompleteBuild(b)
    BY <2>4, CompleteReleases
  <2>5. CASE \/ PrepareFails(b) \/ CommandStarts(b) \/ CommandExits(b) \/ CommandAnnounced(b)
             \/ RecordWritten(b) \/ ReportNoted(b) \/ ReportTold(b) \/ DoneClosed(b) \/ RunClosed(b)
    BY <1>1, <1>3, <2>5, QuietSteps
  <2> QED
    BY <1>3, <2>1, <2>2, <2>3, <2>4, <2>5 DEF BuildStep
<1>4. ASSUME NEW c \in Handlers, HandlerStep(c) PROVE Service!Next \/ Unseen
  <2>1. CASE CancelDequeues(c)
    BY <2>1, DequeueWithdraws
  <2>2. CASE CancelRecords(c)
    BY <2>2, CancelDecides DEF Service!Outcomes
  <2>3. CASE CancelSignals(c) \/ CancelNotes(c) \/ CancelAnnounces(c) \/ AvailabilityRefreshes(c)
    BY <1>1, <1>4, <2>3, QuietHandlers
  <2> QED
    BY <1>4, <2>1, <2>2, <2>3 DEF HandlerStep
<1>5. CASE MemoryLost
  BY <1>5, LossForgets
<1>6. CASE /\ ~MemoryLost
           /\ ~\E b \in Builds : BuildStep(b)
           /\ ~\E c \in Handlers : HandlerStep(c)
           /\ ~\E r \in Requests, reports \in Callbacks, b \in Builds : StartBuild(r, reports, b)
  <2>1. UNCHANGED <<active, queue, receipts, record, reportStatus, pc, started, builds, request>>
    BY <1>6 DEF Next, Exit, Crash, CancelAccepted, SetAccepting, BeginShutdown, ShutdownCancels,
       ShutdownAwaits, Restart, RunsUnchanged, vars, memory, issue
  <2>2. UNCHANGED OwedNothing
    BY <2>1 DEF OwedNothing, HasTerminalRecord
  <2>3. UNCHANGED Fate
    <3>1. \A x \in Builds : x \in Issued' <=> x \in Issued
      BY <2>1 DEF Issued
    <3>2. \A x \in Builds : Fate'[x] = Fate[x]
      BY <2>1, <3>1, FateUntouched
    <3> QED
      BY <3>2, SameFate
  <2> QED
    BY <2>1, <2>2, <2>3 DEF Unseen
<1> QED
  BY <1>2, <1>3, <1>4, <1>5, <1>6

LEMMA InitImplements == Init => Service!Init
<1> SUFFICES ASSUME Init PROVE Service!Init
  OBVIOUS
<1>1. /\ active = None /\ queue = <<>> /\ receipts = {} /\ Issued = {}
      /\ \A x \in Builds : record[x] = "none"
  BY DEF Init, FreshMemory, Each, Issued
<1>2. OwedNothing = {}
  BY <1>1 DEF OwedNothing, HasTerminalRecord
<1>3. IInv
  BY InitIInv
<1>4. \A x \in Builds : Fate[x] = "absent"
  BY <1>1, <1>3, FateOf
<1>5. Fate = [x \in Builds |-> Fate[x]]
  BY DEF Fate
<1>6. Fate = [x \in Builds |-> "absent"]
  BY <1>4, <1>5
<1> QED
  BY <1>1, <1>2, <1>6 DEF Service!Init

\* The queue, the goroutines, the handlers and the files of internal/agent keep
\* the promise of BuildService: every step of theirs is a step of the service
\* or one it does not see, across crashes and restarts.
THEOREM ServiceIsImplemented == Spec => ServiceImplemented
<1>1. Unseen => UNCHANGED Service!service
  BY DEF Unseen, Service!service
<1>2. ServiceInv /\ [Next]_vars => [Service!Next]_(Service!service)
  BY <1>1, StepImplements
<1>3. Spec => []ServiceInv
  BY InitService, ServiceStep, PTL DEF Spec
<1> QED
  BY <1>2, <1>3, InitImplements, PTL DEF Spec, ServiceImplemented, Service!Spec

-----------------------------------------------------------------------------
(***************************************************************************)
(* The registrar.  Its invariant is about one life of a process that has a *)
(* registrar: a restarted runner registers anew.                           *)
(***************************************************************************)

\* The post under way carries the current load, or another post is owed.
PostFits == registrar \in {"registering", "posting"} => payload = Load \/ refresh \/ RefreshOwed

LoadInv == IInv /\ phase = "up" /\ PostFits /\ AdvertisedLoadCurrent

\* The registrar touches nothing of the build queue but the refresh token.
LEMMA RegistrarTypes == IInv /\ [RegNext]_regVars => IInv'
<1> SUFFICES ASSUME IInv, [RegNext]_regVars PROVE IInv'
  OBVIOUS
<1>1. CASE Next \/ UNCHANGED vars
  BY <1>1, StepIInv
<1>2. CASE RestUnchanged /\ refresh' \in BOOLEAN
  <2>1. TypeOK'
    BY <1>2 DEF RestUnchanged, issue, IInv, TypeOK, Issued
  <2>2. StepsFit'
    BY <1>2 DEF RestUnchanged, issue, IInv, StepsFit, Fits, Issued
  <2>3. HandlersFit'
    BY <1>2 DEF RestUnchanged, IInv, HandlersFit
  <2>4. SlotHeld' /\ QueueSound'
    BY <1>2 DEF RestUnchanged, IInv, SlotHeld, QueueSound, HasTerminalRecord
  <2> QED
    BY <2>1, <2>2, <2>3, <2>4 DEF IInv
<1>3. RefreshTaken \/ HeartbeatDue \/ PostBuilt \/ PostSucceeds \/ PostFails =>
        RestUnchanged /\ refresh' \in BOOLEAN
  BY DEF IInv, TypeOK, RefreshTaken, HeartbeatDue, PostBuilt, PostSucceeds, PostFails
<1> QED
  BY <1>1, <1>2, <1>3 DEF RegNext, regVars

\* After a step of the queue, a refresh is asked for or owed, or the load and
\* what is owed are as they were.
LEMMA ChangesAsk ==
  ASSUME CIRegistration = TRUE, Stops = {}, IInv, phase = "up", [Next]_vars
  PROVE  /\ phase' = "up"
         /\ \/ refresh' \/ RefreshOwed'
            \/ Load' = Load /\ refresh' = refresh /\ ~RefreshOwed
<1>1. handler \in [Handlers -> HandlerStates] /\ refresh \in BOOLEAN
  BY DEF IInv, TypeOK
<1>2. RequestRefresh => refresh' = TRUE
  BY <1>1 DEF RequestRefresh
<1>3. UNCHANGED <<accepting, active, queue>> => Load' = Load
  BY DEF Load
<1>4. ASSUME NEW c \in Handlers, NEW where \in HandlerSteps, NEW b \in Builds \cup {None}, At(c, where, b)
      PROVE  /\ where \in {"recording", "refreshing"} => RefreshOwed'
             /\ handler[c].at \notin {"recording", "refreshing"} => (RefreshOwed => RefreshOwed')
  BY <1>1, <1>4 DEF At, RefreshOwed
<1>5. UNCHANGED handler => (RefreshOwed' <=> RefreshOwed)
  BY DEF RefreshOwed
<1> DEFINE Quiet == Load' = Load /\ refresh' = refresh /\ (RefreshOwed => RefreshOwed')
           Asks  == refresh' \/ RefreshOwed'
<1> HIDE DEF Quiet, Asks
<1>6. Quiet => Asks \/ (Load' = Load /\ refresh' = refresh /\ ~RefreshOwed)
  BY DEF Quiet, Asks
<1>7. ASSUME NEW r \in Requests, NEW reports \in Callbacks, NEW b \in Builds, StartBuild(r, reports, b)
      PROVE  phase' = "up" /\ Asks
  BY <1>2, <1>7 DEF StartBuild, Asks
<1>8. ASSUME NEW b \in Builds, BuildStep(b) PROVE phase' = "up" /\ (Asks \/ Quiet)
  <2>1. CASE CompleteBuild(b)
    BY <1>2, <2>1 DEF CompleteBuild, Asks
  <2>2. CASE ~CompleteBuild(b)
    <3>1. QueueUnchanged
      BY <1>8, <2>2 DEF BuildStep, PrepareFails, CommandStarts, CommandExits, CommandAnnounced, RecordSet,
         RecordWritten, ReportAttempt, ReportSettled, ReportNoted, ReportTold, DoneClosed, RunClosed
    <3> QED
      BY <1>3, <1>5, <3>1 DEF QueueUnchanged, Quiet
  <2> QED
    BY <2>1, <2>2
<1>9. ASSUME NEW c \in Handlers, HandlerStep(c) PROVE phase' = "up" /\ (Asks \/ Quiet)
  <2>0. phase' = "up" /\ UNCHANGED <<accepting, active>>
    BY <1>9 DEF HandlerStep, CancelDequeues, CancelSignals, CancelRecords, CancelNotes, CancelAnnounces,
                AvailabilityRefreshes, RunsUnchanged
  <2>1. CASE CancelRecords(c) \/ AvailabilityRefreshes(c)
    BY <1>2, <2>0, <2>1 DEF CancelRecords, AvailabilityRefreshes, Asks
  <2>2. CASE CancelSignals(c) \/ CancelNotes(c) \/ CancelAnnounces(c)
    <3>1. /\ UNCHANGED <<queue, refresh>> /\ handler[c].at \notin {"recording", "refreshing"}
          /\ \E where \in HandlerSteps : \E b \in Builds \cup {None} : At(c, where, b)
      BY <1>1, <2>2 DEF CancelSignals, CancelNotes, CancelAnnounces, HandlerSteps, HandlerStates
    <3> QED
      BY <1>3, <1>4, <2>0, <3>1 DEF Quiet
  <2>3. CASE CancelDequeues(c)
    <3>0. handler[c].build \in Builds /\ UNCHANGED refresh
          /\ handler[c].at \notin {"recording", "refreshing"}
      BY <2>3 DEF CancelDequeues, IInv, HandlersFit
    <3>1. CASE InQueue(handler[c].build)
      <4>1. At(c, "recording", handler[c].build)
        BY <2>3, <3>1 DEF CancelDequeues
      <4>2. RefreshOwed'
        BY <1>4, <3>0, <4>1 DEF HandlerSteps
      <4> QED
        BY <2>0, <4>2 DEF Asks
    <3>2. CASE ~InQueue(handler[c].build)
      BY <1>3, <1>4, <2>0, <2>3, <3>0, <3>2 DEF CancelDequeues, HandlerSteps, Quiet
    <3> QED
      BY <3>1, <3>2
  <2> QED
    BY <1>9, <2>1, <2>2, <2>3 DEF HandlerStep
<1>10. ASSUME NEW c \in Clients, NEW b \in Builds, CancelAccepted(c, b) PROVE phase' = "up" /\ Quiet
  BY <1>3, <1>4, <1>10 DEF CancelAccepted, RunsUnchanged, Handlers, HandlerSteps, Quiet
<1>11. ASSUME NEW c \in Clients, NEW value \in BOOLEAN, SetAccepting(c, value)
       PROVE  phase' = "up" /\ Asks
  BY <1>4, <1>11 DEF SetAccepting, Handlers, HandlerSteps, Asks
<1>12. ASSUME NEW b \in Builds, ShutdownCancels(b) \/ ShutdownAwaits(b) PROVE phase' = "up" /\ Quiet
  BY <1>3, <1>4, <1>5, <1>12 DEF ShutdownCancels, ShutdownAwaits, Handlers, HandlerSteps, Quiet
<1>13. ASSUME UNCHANGED vars PROVE phase' = "up" /\ Quiet
  BY <1>3, <1>5, <1>13 DEF vars, memory, Quiet
<1>14. ~BeginShutdown /\ ~Exit /\ ~Crash /\ ~Restart
  BY DEF BeginShutdown, Exit, Crash, Restart
<1>15. phase' = "up" /\ (Asks \/ Quiet)
  BY <1>7, <1>8, <1>9, <1>10, <1>11, <1>12, <1>13, <1>14 DEF Next
<1> QED
  BY <1>6, <1>15 DEF Asks

\* No change of the load is lost between the queue and CI: in one life of a
\* process with a registrar, whenever it is idle and shows as registered, CI
\* has the current load, unless a refresh is asked for or owed by a handler.
THEOREM LoadIsAdvertised ==
  ASSUME CIRegistration = TRUE, Stops = {} PROVE RegSpec => []AdvertisedLoadCurrent
<1>1. RegInit => LoadInv
  BY InitIInv DEF RegInit, LoadInv, Init, PostFits, AdvertisedLoadCurrent
<1>2. LoadInv /\ [RegNext]_regVars => LoadInv'
  <2> SUFFICES ASSUME LoadInv, [RegNext]_regVars PROVE LoadInv'
    OBVIOUS
  <2>1. IInv'
    BY RegistrarTypes DEF LoadInv
  <2>2. CASE (Next /\ UNCHANGED registrarVars) \/ UNCHANGED regVars
    <3>1. UNCHANGED <<registrar, registration, payload, target>> /\ [Next]_vars
      BY <2>2 DEF registrarVars, regVars
    <3>2. /\ phase' = "up"
          /\ \/ refresh' \/ RefreshOwed'
             \/ Load' = Load /\ refresh' = refresh /\ ~RefreshOwed
      BY <3>1, ChangesAsk DEF LoadInv
    <3> QED
      BY <2>1, <3>1, <3>2 DEF LoadInv, PostFits, AdvertisedLoadCurrent
  <2>3. CASE RefreshTaken \/ HeartbeatDue \/ PostBuilt \/ PostSucceeds \/ PostFails
    <3>1. phase' = "up" /\ (RefreshOwed' <=> RefreshOwed) /\ Load' = Load
      BY <2>3 DEF RefreshTaken, HeartbeatDue, PostBuilt, PostSucceeds, PostFails, RestUnchanged,
         RefreshOwed, Load, LoadInv
    <3>2. CASE RefreshTaken \/ HeartbeatDue
      BY <2>1, <3>1, <3>2 DEF LoadInv, PostFits, AdvertisedLoadCurrent, RefreshTaken, HeartbeatDue
    <3>3. CASE PostBuilt
      BY <2>1, <3>1, <3>3 DEF LoadInv, PostFits, AdvertisedLoadCurrent, PostBuilt
    <3>4. CASE PostSucceeds
      BY <2>1, <3>1, <3>4 DEF LoadInv, PostFits, AdvertisedLoadCurrent, PostSucceeds
    <3>5. CASE PostFails
      BY <2>1, <3>1, <3>5 DEF LoadInv, PostFits, AdvertisedLoadCurrent, PostFails
    <3> QED
      BY <2>3, <3>2, <3>3, <3>4, <3>5
  <2> QED
    BY <2>2, <2>3 DEF RegNext
<1>3. LoadInv => AdvertisedLoadCurrent
  BY DEF LoadInv
<1> QED
  BY <1>1, <1>2, <1>3, PTL DEF RegSpec

=============================================================================
