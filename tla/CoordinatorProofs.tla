------------------------- MODULE CoordinatorProofs -------------------------
(***************************************************************************)
(* The coordinator's counts and records, for any number of requests,       *)
(* targets and dispatching goroutines, and what a success of a command     *)
(* means when its build goes through the coordinator.                      *)
(***************************************************************************)
EXTENDS CoordinatedBuild, FiniteSetTheorems, TLAPS

USE CoordinatorAssumption

-----------------------------------------------------------------------------
(***************************************************************************)
(* Types.  That a reservation count stays a natural number when a target is*)
(* dropped needs that finitely many dispatches are active, which no        *)
(* assumption on Requests is made for.                                     *)
(***************************************************************************)
Listed(a) == {r \in Requests : a[r] # None}
FinitelyActive == IsFiniteSet(Listed(active)) /\ IsFiniteSet(Listed(disk.active))
TypeInv == TypeOK /\ FinitelyActive

Unaccepted(t) == {r \in Requests : Builds(r, t) /\ ~active[r].accepted}
Bound(t) == {r \in Requests : Builds(r, t)}

\* What is active on a target is part of what is active.
LEMMA BoundFinite ==
  ASSUME TypeInv, NEW t
  PROVE  /\ IsFiniteSet(Bound(t)) /\ Cardinality(Bound(t)) \in Nat
         /\ IsFiniteSet(Unaccepted(t)) /\ Cardinality(Unaccepted(t)) \in Nat
<1>1. Bound(t) \in SUBSET Listed(active) /\ Unaccepted(t) \in SUBSET Listed(active)
  BY DEF Bound, Unaccepted, Listed, Builds
<1> QED
  BY <1>1, FS_Subset, FS_CardinalityType DEF TypeInv, FinitelyActive

LEMMA ReleasedType ==
  ASSUME NEW reserved \in [Targets -> Nat], NEW t \in Targets \cup {None}
  PROVE  Released(reserved, t) \in [Targets -> Nat]
BY DEF Released

\* Dropping targets drops dispatches that are bound to one of them and whose
\* build is not known, and nothing else.
LEMMA Dropping ==
  ASSUME TypeInv, NEW T \in SUBSET Targets, DropTargets(T)
  PROVE  /\ targets' \in [Targets -> Leases]
         /\ active' \in [Requests -> Dispatches]
         /\ reservations' \in [Targets -> Nat]
         /\ \A r \in Requests :
              active'[r] = IF \E t \in T : r \in Unaccepted(t) THEN None ELSE active[r]
         /\ \A t \in Targets :
              reservations'[t] = IF t \notin T THEN reservations[t]
                                 ELSE IF Cardinality(Unaccepted(t)) >= reservations[t] THEN 0
                                 ELSE reservations[t] - Cardinality(Unaccepted(t))
<1>1. /\ targets' = [t \in Targets |-> IF t \in T THEN None ELSE targets[t]]
      /\ active' = [r \in Requests |-> IF \E t \in T : r \in Unaccepted(t) THEN None ELSE active[r]]
      /\ reservations' = [t \in Targets |->
           IF t \notin T THEN reservations[t]
           ELSE IF Cardinality(Unaccepted(t)) >= reservations[t] THEN 0
           ELSE reservations[t] - Cardinality(Unaccepted(t))]
  BY DEF DropTargets, Unaccepted
<1>2. \A t \in Targets : Cardinality(Unaccepted(t)) \in Nat
  BY BoundFinite
<1>3. targets \in [Targets -> Leases] /\ active \in [Requests -> Dispatches]
      /\ reservations \in [Targets -> Nat]
  BY DEF TypeInv, TypeOK
<1>4. targets' \in [Targets -> Leases]
  BY <1>1, <1>3 DEF Leases
<1>5. active' \in [Requests -> Dispatches]
  BY <1>1, <1>3 DEF Dispatches
<1>6. reservations' \in [Targets -> Nat]
  BY <1>1, <1>2, <1>3
<1> QED
  BY <1>1, <1>4, <1>5, <1>6

\* An entry of the state file is an entry of the map it is saved from.
LEMMA PersistedEntries ==
  ASSUME NEW a \in [Requests -> Dispatches]
  PROVE  /\ Persisted(a) \in [Requests -> Dispatches]
         /\ Listed(Persisted(a)) \subseteq Listed(a)
BY DEF Persisted, Dispatches, Listed

LEMMA SavedType ==
  ASSUME TypeInv, NEW ok \in BOOLEAN, Save(ok),
         targets' \in [Targets -> Leases], active' \in [Requests -> Dispatches],
         results' \in [Requests -> Targets \cup {None}], IsFiniteSet(Listed(active'))
  PROVE  /\ disk' \in [targets : [Targets -> Leases], results : [Requests -> Targets \cup {None}],
                       active : [Requests -> Dispatches]]
         /\ IsFiniteSet(Listed(disk'.active))
<1>1. CASE UNCHANGED disk
  BY <1>1 DEF TypeInv, TypeOK, FinitelyActive
<1>2. CASE disk' = [targets |-> targets', results |-> results', active |-> Persisted(active')]
  <2>1. Persisted(active') \in [Requests -> Dispatches] /\ IsFiniteSet(Listed(Persisted(active')))
    BY PersistedEntries, FS_Subset
  <2> QED
    BY <1>2, <2>1
<1> QED
  BY <1>1, <1>2 DEF Save

\* One entry more, or other entries for the same requests, leave it finite.
LEMMA StillFinite ==
  ASSUME NEW a, IsFiniteSet(Listed(a)), NEW b, NEW r \in Requests,
         \A q \in Requests : q # r /\ b[q] # None => a[q] # None
  PROVE  IsFiniteSet(Listed(b))
<1>1. Listed(b) \in SUBSET (Listed(a) \cup {r})
  BY DEF Listed
<1>2. IsFiniteSet(Listed(a) \cup {r})
  BY FS_AddElement
<1> QED
  BY <1>1, <1>2, FS_Subset

LEMMA FewerFinite ==
  ASSUME NEW a, IsFiniteSet(Listed(a)), NEW b,
         \A q \in Requests : b[q] # None => a[q] # None
  PROVE  IsFiniteSet(Listed(b))
<1>1. Listed(b) \in SUBSET Listed(a)
  BY DEF Listed
<1> QED
  BY <1>1, FS_Subset

-----------------------------------------------------------------------------
\* The goroutines' places and locals, and the runner's state.
Places == {"idle", "choosing", "reserving", "starting", "marking", "tailing", "awaiting", "ending"}
Dispatching == [at : Places, request : Requests \cup {None}, untried : SUBSET Targets,
                target : Targets \cup {None}]

Fates == {"absent", "running", "ended"}
ReportStates == {"none", "sending", "waiting", "acknowledged", "refused"}

LEMMA DispatcherTypes == TypeInv => dispatcher \in [Dispatchers -> Dispatching]
BY DEF TypeInv, TypeOK, Dispatching, Places

LEMMA LeavingType ==
  ASSUME TypeInv, NEW c \in Dispatchers, NEW where \in Places, Leave(c, where) \/ Goto(c, where)
  PROVE  dispatcher' \in [Dispatchers -> Dispatching]
<1>1. dispatcher \in [Dispatchers -> Dispatching] /\ dispatcher[c] \in Dispatching
  BY DispatcherTypes
<1>2. CASE Leave(c, where)
  BY <1>1, <1>2 DEF Leave, Dispatching
<1>3. CASE Goto(c, where)
  BY <1>1, <1>3 DEF Goto, Dispatching
<1> QED
  BY <1>2, <1>3

\* Steps that touch neither the server's maps nor the state file.
LEMMA ServerUntouched ==
  ASSUME TypeInv, UNCHANGED server,
         dispatcher' \in [Dispatchers -> Dispatching],
         fate' \in [Requests -> [Targets -> Fates]],
         report' \in [Requests -> [Targets -> ReportStates]]
  PROVE  TypeInv'
BY DEF TypeInv, TypeOK, FinitelyActive, server, Dispatching, Places, Fates, ReportStates

\* Steps that change what is active, of one request or of none, and perhaps
\* reservations, without saving.
LEMMA ActiveChanges ==
  ASSUME TypeInv, UNCHANGED <<targets, results, disk, report>>,
         active' \in [Requests -> Dispatches], reservations' \in [Targets -> Nat],
         NEW r \in Requests, \A q \in Requests : q # r => active'[q] = active[q],
         dispatcher' \in [Dispatchers -> Dispatching],
         fate' \in [Requests -> [Targets -> Fates]]
  PROVE  TypeInv'
<1>1. IsFiniteSet(Listed(active'))
  <2>1. \A q \in Requests : q # r /\ active'[q] # None => active[q] # None
    OBVIOUS
  <2> QED
    BY <2>1, StillFinite DEF TypeInv, FinitelyActive
<1> QED
  BY <1>1 DEF TypeInv, TypeOK, FinitelyActive, Dispatching, Places, Fates, ReportStates

\* Steps that leave no request active that was not, and save.
LEMMA SavingStep ==
  ASSUME TypeInv, \E ok \in BOOLEAN : Save(ok),
         targets' \in [Targets -> Leases], active' \in [Requests -> Dispatches],
         reservations' \in [Targets -> Nat], results' \in [Requests -> Targets \cup {None}],
         \A q \in Requests : active'[q] # None => active[q] # None,
         dispatcher' \in [Dispatchers -> Dispatching], UNCHANGED fate,
         report' \in [Requests -> [Targets -> ReportStates]]
  PROVE  TypeInv'
<1>1. IsFiniteSet(Listed(active'))
  BY FewerFinite DEF TypeInv, FinitelyActive
<1>2. PICK ok \in BOOLEAN : Save(ok)
  OBVIOUS
<1>3. /\ disk' \in [targets : [Targets -> Leases], results : [Requests -> Targets \cup {None}],
                    active : [Requests -> Dispatches]]
      /\ IsFiniteSet(Listed(disk'.active))
  BY <1>1, <1>2, SavedType
<1> QED
  BY <1>1, <1>3 DEF TypeInv, TypeOK, FinitelyActive, Dispatching, Places, Fates, ReportStates

LEMMA PruneType ==
  ASSUME TypeInv, PruneTargets, dispatcher' \in [Dispatchers -> Dispatching], UNCHANGED runner
  PROVE  TypeInv'
<1> USE DEF runner
<1>1. Expired \in SUBSET Targets /\ DropTargets(Expired)
  BY DEF PruneTargets, Expired
<1>2. /\ targets' \in [Targets -> Leases] /\ active' \in [Requests -> Dispatches]
      /\ reservations' \in [Targets -> Nat]
      /\ \A q \in Requests : active'[q] # None => active[q] # None
  BY <1>1, Dropping
<1>3. /\ results' \in [Requests -> Targets \cup {None}]
      /\ report' \in [Requests -> [Targets -> ReportStates]]
  BY DEF PruneTargets, TypeInv, TypeOK, ReportStates
<1>4. CASE Expired = {}
  <2>1. UNCHANGED disk /\ UNCHANGED results
    BY <1>4 DEF PruneTargets
  <2>2. IsFiniteSet(Listed(active'))
    BY <1>2, FewerFinite DEF TypeInv, FinitelyActive
  <2> QED
    BY <1>2, <1>3, <2>1, <2>2 DEF TypeInv, TypeOK, FinitelyActive, Dispatching, Places, Fates, ReportStates
<1>5. CASE Expired # {}
  BY <1>2, <1>3, <1>5, SavingStep DEF PruneTargets
<1> QED
  BY <1>4, <1>5

LEMMA TypeKept == TypeInv /\ [Next]_vars => TypeInv'
<1> SUFFICES ASSUME TypeInv, [Next]_vars PROVE TypeInv'
  OBVIOUS
<1> USE DispatcherTypes
<1> USE DEF server, runner
<1>a. /\ targets \in [Targets -> Leases] /\ active \in [Requests -> Dispatches]
      /\ reservations \in [Targets -> Nat] /\ results \in [Requests -> Targets \cup {None}]
      /\ fate \in [Requests -> [Targets -> Fates]]
      /\ report \in [Requests -> [Targets -> ReportStates]]
  BY DEF TypeInv, TypeOK, Fates, ReportStates
<1>b. Fresh \in Dispatches /\ \A t \in Targets : [Fresh EXCEPT !.target = t] \in Dispatches
  BY DEF Fresh, Dispatches
<1>1. ASSUME NEW t \in Targets, NEW queued \in Loads, Register(t, queued) PROVE TypeInv'
  <2>1. targets' \in [Targets -> Leases]
    BY <1>1, <1>a DEF Register, Leases
  <2> QED
    BY <1>1, <1>a, <2>1, SavingStep DEF Register
<1>2. ASSUME NEW t \in Targets, Deregister(t) PROVE TypeInv'
  <2>1. DropTargets({t}) /\ {t} \in SUBSET Targets
    BY <1>2 DEF Deregister
  <2>2. /\ targets' \in [Targets -> Leases] /\ active' \in [Requests -> Dispatches]
        /\ reservations' \in [Targets -> Nat]
        /\ \A q \in Requests : active'[q] # None => active[q] # None
    BY <2>1, Dropping
  <2> QED
    BY <1>2, <1>a, <2>2, SavingStep DEF Deregister
<1>3. ASSUME NEW t \in Targets, LeaseRunsOut(t) PROVE TypeInv'
  <2>1. targets' \in [Targets -> Leases]
    <3>1. targets[t] \in [queued : Loads, leased : BOOLEAN]
      BY <1>3, <1>a DEF LeaseRunsOut, Available, Leases
    <3>2. [targets[t] EXCEPT !.leased = FALSE] \in Leases
      BY <3>1 DEF Leases
    <3>3. targets' = [targets EXCEPT ![t] = [targets[t] EXCEPT !.leased = FALSE]]
      BY <1>3 DEF LeaseRunsOut
    <3> QED
      BY <1>a, <3>2, <3>3
  <2> QED
    BY <1>3, <2>1 DEF LeaseRunsOut, TypeInv, TypeOK, FinitelyActive
<1>4. CASE ListTargets
  BY <1>4, PruneType DEF ListTargets
<1>5. ASSUME NEW c \in Dispatchers, NEW r \in Requests, BeginDispatch(c, r) PROVE TypeInv'
  <2>1. dispatcher' \in [Dispatchers -> Dispatching]
    BY <1>5 DEF BeginDispatch, Idle, Dispatching, Places
  <2>2. active' \in [Requests -> Dispatches]
    BY <1>5, <1>a, <1>b DEF BeginDispatch
  <2> QED
    BY <1>5, <1>a, <2>1, <2>2, ActiveChanges DEF BeginDispatch
<1>6. ASSUME NEW c \in Dispatchers, DispatchTargets(c) PROVE TypeInv'
  <2>1. dispatcher' \in [Dispatchers -> Dispatching]
    <3>1. PICK chosen \in SUBSET Targets, where \in Places :
            dispatcher' = [dispatcher EXCEPT ![c].untried = chosen, ![c].at = where]
      <4>1. PICK chosen \in SUBSET Targets :
              dispatcher' = [dispatcher EXCEPT ![c].untried = chosen,
                               ![c].at = IF chosen = {} THEN "ending" ELSE "reserving"]
        <5> DEFINE fit == {t \in Targets \ Expired : targets[t] # None /\ HasRoom(t, reservations')}
        <5>1. {fit, {}} \cup {{t} : t \in fit} \subseteq SUBSET Targets
          OBVIOUS
        <5>2. \E chosen \in {fit, {}} \cup {{t} : t \in fit} :
                dispatcher' = [dispatcher EXCEPT ![c].untried = chosen,
                                 ![c].at = IF chosen = {} THEN "ending" ELSE "reserving"]
          BY <1>6 DEF DispatchTargets
        <5> HIDE DEF fit
        <5> QED
          BY <5>1, <5>2
      <4> QED
        BY <4>1 DEF Places
    <3> QED
      BY <3>1 DEF Dispatching
  <2> QED
    BY <1>6, <2>1, PruneType DEF DispatchTargets
<1>7. ASSUME NEW c \in Dispatchers, NEW r \in Requests, NEW t \in Targets, Reserve(c, r, t)
      PROVE  TypeInv'
  <2>1. dispatcher' \in [Dispatchers -> Dispatching]
    <3>1. dispatcher[c].untried \ {t} \in SUBSET Targets
      BY DEF Dispatching
    <3>2. PICK rest \in SUBSET Targets, where \in Places :
            \/ dispatcher' = [dispatcher EXCEPT ![c].at = where, ![c].untried = rest, ![c].target = t]
            \/ dispatcher' = [dispatcher EXCEPT ![c].untried = rest, ![c].at = where]
      BY <1>7, <3>1 DEF Reserve, Places
    <3> QED
      BY <3>2 DEF Dispatching
  <2>2. active[r] # None => Released(reservations, active[r].target) \in [Targets -> Nat]
    BY <1>a, ReleasedType DEF Dispatches
  <2>3. active' \in [Requests -> Dispatches]
    BY <1>7, <1>a, <1>b DEF Reserve
  <2>4. reservations' \in [Targets -> Nat]
    BY <1>7, <1>a, <2>2 DEF Reserve
  <2>5. \A q \in Requests : q # r => active'[q] = active[q]
    BY <1>7, <1>a DEF Reserve
  <2> QED
    BY <1>7, <1>a, <2>1, <2>3, <2>4, <2>5, ActiveChanges DEF Reserve
<1>8. ASSUME NEW r \in Requests, NEW t \in Targets \cup {None}, Takes(r, t)
      PROVE  fate' \in [Requests -> [Targets -> Fates]]
  BY <1>8, <1>a DEF Takes, Fates
<1>9. ASSUME NEW c \in Dispatchers, NEW r \in Requests, StartAccepted(c, r) PROVE TypeInv'
  <2>1. dispatcher' \in [Dispatchers -> Dispatching]
    <3>1. "marking" \in Places /\ dispatcher' = [dispatcher EXCEPT ![c].at = "marking", ![c].untried = {}]
      BY <1>9 DEF StartAccepted, Places
    <3> QED
      BY <3>1 DEF Dispatching
  <2>2. dispatcher[c].target \in Targets \cup {None}
    BY DEF Dispatching
  <2> QED
    BY <1>9, <1>a, <1>8, <2>1, <2>2, ServerUntouched DEF StartAccepted
<1>10. ASSUME NEW c \in Dispatchers, NEW r \in Requests, StartRejected(c, r) PROVE TypeInv'
  <2>1. dispatcher' \in [Dispatchers -> Dispatching]
    <3>1. PICK where \in Places : dispatcher' = [dispatcher EXCEPT ![c].target = None, ![c].at = where]
      BY <1>10 DEF StartRejected, Places
    <3> QED
      BY <3>1 DEF Dispatching
  <2>2. dispatcher[c].target \in Targets \cup {None}
    BY DEF Dispatching
  <2>3. fate' \in [Requests -> [Targets -> Fates]]
    BY <1>10, <1>a, <1>8, <2>2 DEF StartRejected
  <2>4. active' \in [Requests -> Dispatches] /\ \A q \in Requests : q # r => active'[q] = active[q]
    <3>1. active' = active \/ active' = [active EXCEPT ![r] = Fresh]
      BY <1>10 DEF StartRejected
    <3> QED
      BY <1>a, <1>b, <3>1
  <2>5. reservations' \in [Targets -> Nat]
    BY <1>10, <1>a, <2>2, ReleasedType DEF StartRejected
  <2> QED
    BY <1>10, <2>1, <2>3, <2>4, <2>5, ActiveChanges DEF StartRejected
<1>11. ASSUME NEW c \in Dispatchers, NEW r \in Requests, StartBreaksOff(c, r) PROVE TypeInv'
  <2>1. dispatcher' \in [Dispatchers -> Dispatching]
    BY <1>11, LeavingType DEF StartBreaksOff, Places
  <2>2. dispatcher[c].target \in Targets \cup {None}
    BY DEF Dispatching
  <2> QED
    BY <1>11, <1>a, <1>8, <2>1, <2>2, ServerUntouched DEF StartBreaksOff
<1>12. ASSUME NEW c \in Dispatchers, NEW r \in Requests, MarkBuild(c, r) PROVE TypeInv'
  <2>1. dispatcher' \in [Dispatchers -> Dispatching]
    BY <1>12, LeavingType DEF MarkBuild, Places
  <2>2. active' \in [Requests -> Dispatches]
        /\ \A q \in Requests : active'[q] # None => active[q] # None
    <3>1. CASE UNCHANGED active
      BY <1>a, <3>1
    <3>2. CASE Builds(r, dispatcher[c].target) /\ active' = [active EXCEPT ![r].accepted = TRUE]
      <4>1. active[r] # None /\ active[r] \in [target : Targets \cup {None}, accepted : BOOLEAN]
        BY <1>a, <3>2 DEF Builds, Dispatches
      <4>2. [active[r] EXCEPT !.accepted = TRUE] \in Dispatches
        BY <4>1 DEF Dispatches
      <4>3. active' = [active EXCEPT ![r] = [active[r] EXCEPT !.accepted = TRUE]]
        BY <3>2
      <4> QED
        BY <1>a, <4>1, <4>2, <4>3
    <3> QED
      BY <1>12, <3>1, <3>2 DEF MarkBuild
  <2>3. CASE UNCHANGED <<active, disk>>
    BY <1>12, <1>a, <2>1, <2>3, ServerUntouched DEF MarkBuild
  <2>4. CASE \E ok \in BOOLEAN : Save(ok)
    BY <1>12, <1>a, <2>1, <2>2, <2>4, SavingStep DEF MarkBuild
  <2> QED
    BY <1>12, <2>3, <2>4 DEF MarkBuild
<1>13. ASSUME NEW c \in Dispatchers, NEW r \in Requests, TailEnds(c, r) PROVE TypeInv'
  <2>1. dispatcher' \in [Dispatchers -> Dispatching]
    BY <1>13, LeavingType DEF TailEnds, Places
  <2> QED
    BY <1>13, <1>a, <2>1, ServerUntouched DEF TailEnds
<1>14. ASSUME NEW c \in Dispatchers, ResultAwaited(c) PROVE TypeInv'
  <2>1. dispatcher' \in [Dispatchers -> Dispatching]
    BY <1>14, LeavingType DEF ResultAwaited, Places
  <2> QED
    BY <1>14, <1>a, <2>1, ServerUntouched DEF ResultAwaited
<1>15. ASSUME NEW r \in Requests, ReleaseDispatch(r)
       PROVE  /\ active' \in [Requests -> Dispatches] /\ reservations' \in [Targets -> Nat]
              /\ \A q \in Requests : q # r => active'[q] = active[q]
              /\ \A q \in Requests : active'[q] # None => active[q] # None
  <2>1. active' = [active EXCEPT ![r] = None] /\ None \in Dispatches
    BY <1>15 DEF ReleaseDispatch, Dispatches
  <2>2. active[r] # None => Released(reservations, active[r].target) \in [Targets -> Nat]
    BY <1>a, ReleasedType DEF Dispatches
  <2>3. reservations' \in [Targets -> Nat]
    BY <1>15, <1>a, <2>2 DEF ReleaseDispatch
  <2> QED
    BY <1>a, <2>1, <2>3
<1>16. ASSUME NEW c \in Dispatchers, NEW r \in Requests, EndDispatch(c, r) PROVE TypeInv'
  <2>1. dispatcher' \in [Dispatchers -> Dispatching]
    BY <1>16 DEF EndDispatch, Idle, Dispatching, Places
  <2> QED
    BY <1>16, <1>a, <1>15, <2>1, ActiveChanges DEF EndDispatch
<1>17. ASSUME NEW r \in Requests, NEW t \in Targets, NEW answer \in {"sending", "waiting", "acknowledged", "refused"},
              Answer(r, t, answer)
       PROVE  report' \in [Requests -> [Targets -> ReportStates]]
  BY <1>17, <1>a DEF Answer, ReportStates
<1>18. ASSUME NEW r \in Requests, NEW t \in Targets, BuildEnds(r, t) PROVE TypeInv'
  <2>1. fate' \in [Requests -> [Targets -> Fates]] /\ report' \in [Requests -> [Targets -> ReportStates]]
    BY <1>18, <1>a DEF BuildEnds, Fates, ReportStates
  <2> QED
    BY <1>18, <2>1, ServerUntouched DEF BuildEnds
<1>19. ASSUME NEW r \in Requests, NEW t \in Targets,
              ReportAnswered(r, t) \/ ReportWaited(r, t) \/ ReportGivenUp(r, t)
       PROVE  TypeInv'
  BY <1>19, <1>a, <1>17, ServerUntouched DEF ReportAnswered, ReportWaited, ReportGivenUp
<1>20. ASSUME NEW r \in Requests, NEW t \in Targets, ResultRecorded(r, t) PROVE TypeInv'
  <2>1. results' \in [Requests -> Targets \cup {None}] /\ UNCHANGED <<targets, dispatcher, fate>>
    BY <1>20, <1>a DEF ResultRecorded
  <2>2. report' \in [Requests -> [Targets -> ReportStates]]
    BY <1>20, <1>17 DEF ResultRecorded
  <2>3. \E ok \in BOOLEAN : Save(ok)
    BY <1>20 DEF ResultRecorded
  <2>4. ReleaseDispatch(r)
    BY <1>20 DEF ResultRecorded
  <2> QED
    BY <1>a, <1>15, <2>1, <2>2, <2>3, <2>4, SavingStep
<1>21. CASE Restart
  <2>1. /\ disk.targets \in [Targets -> Leases] /\ disk.active \in [Requests -> Dispatches]
        /\ disk.results \in [Requests -> Targets \cup {None}]
    BY DEF TypeInv, TypeOK
  <2>2. targets' \in [Targets -> Leases]
    BY <1>21, <2>1 DEF Restart, Leases
  <2>3. active' \in [Requests -> Dispatches]
        /\ \A q \in Requests : active'[q] # None => disk.active[q] # None
    BY <1>21, <2>1 DEF Restart, Dispatches
  <2>4. IsFiniteSet(Listed(active'))
    BY <2>3, FewerFinite DEF TypeInv, FinitelyActive
  <2>5. reservations' \in [Targets -> Nat] /\ dispatcher' \in [Dispatchers -> Dispatching]
        /\ results' \in [Requests -> Targets \cup {None}] /\ UNCHANGED fate
    BY <1>21, <2>1 DEF Restart, Idle, Dispatching, Places
  <2>6. report' \in [Requests -> [Targets -> ReportStates]]
    BY <1>21, <1>a DEF Restart, ReportStates
  <2>7. disk' = [targets |-> targets', results |-> results', active |-> active']
    BY <1>21 DEF Restart
  <2> QED
    BY <1>a, <2>2, <2>3, <2>4, <2>5, <2>6, <2>7 DEF TypeInv, TypeOK, FinitelyActive, Dispatching, Places, Fates, ReportStates
<1>22. CASE UNCHANGED vars
  BY <1>22, <1>a, ServerUntouched DEF vars
<1> QED
  BY <1>1, <1>2, <1>3, <1>4, <1>5, <1>6, <1>7, <1>9, <1>10, <1>11, <1>12, <1>13, <1>14, <1>16, <1>18,
     <1>19, <1>20, <1>21, <1>22 DEF Next, DispatchStep, RunnerStep

LEMMA TypeStarts == Init => TypeInv
<1> SUFFICES ASSUME Init PROVE TypeInv
  OBVIOUS
<1>1. TypeOK
  <2>1. Idle \in Dispatching
    BY DEF Idle, Dispatching, Places
  <2>2. dispatcher \in [Dispatchers -> Dispatching]
    BY <2>1 DEF Init
  <2> QED
    BY <2>2 DEF Init, TypeOK, Leases, Dispatches, Dispatching, Places
<1>2. Listed(active) = {} /\ Listed(disk.active) = {}
  BY DEF Init, Listed
<1> QED
  BY <1>1, <1>2, FS_EmptySet DEF TypeInv, FinitelyActive

\* The types hold, and at any time finitely many dispatches are active, in memory and
\* in the state file, whatever the sets of requests, targets and goroutines.
THEOREM CoordinatorTypes == Spec => [](TypeOK /\ FinitelyActive)
<1>1. TypeInv => TypeOK /\ FinitelyActive
  BY DEF TypeInv
<1> QED
  BY <1>1, TypeStarts, TypeKept, PTL DEF Spec

-----------------------------------------------------------------------------
(***************************************************************************)
(* Reservations.  A step binds one request, unbinds one, or drops targets. *)
(* A restart forgets all counts while the accepted dispatches come back, so*)
(* only the bound from above survives it.                                  *)
(***************************************************************************)
Counted ==
  \A t \in Targets :
    /\ reservations[t] <= Cardinality(Bound(t))
    /\ ~MayRestart => reservations[t] = Cardinality(Bound(t))

Holds(d, t) == d # None /\ d.target = t

\* The dispatches bound to a target after a step that changes one of them.
LEMMA Rebinding ==
  ASSUME TypeInv, NEW r \in Requests, NEW d, active' = [active EXCEPT ![r] = d], NEW t \in Targets
  PROVE  LET n == Cardinality(Bound(t)) IN
         /\ n \in Nat /\ (Builds(r, t) => n > 0)
         /\ Cardinality(Bound(t)') = IF Holds(d, t) THEN IF Builds(r, t) THEN n ELSE n + 1
                                     ELSE IF Builds(r, t) THEN n - 1 ELSE n
<1>1. active \in [Requests -> Dispatches]
  BY DEF TypeInv, TypeOK
<1>2. Bound(t)' = IF Holds(d, t) THEN Bound(t) \cup {r} ELSE Bound(t) \ {r}
  BY <1>1 DEF Bound, Builds, Holds
<1>3. r \in Bound(t) <=> Builds(r, t)
  BY DEF Bound
<1>4. IsFiniteSet(Bound(t)) /\ Cardinality(Bound(t)) \in Nat
  BY BoundFinite
<1>5. Builds(r, t) => Cardinality(Bound(t)) # 0
  BY <1>3, <1>4, FS_EmptySet
<1>6. /\ Cardinality(Bound(t) \cup {r}) = IF r \in Bound(t) THEN Cardinality(Bound(t)) ELSE Cardinality(Bound(t)) + 1
      /\ Cardinality(Bound(t) \ {r}) = IF r \in Bound(t) THEN Cardinality(Bound(t)) - 1 ELSE Cardinality(Bound(t))
  BY <1>4, FS_AddElement, FS_RemoveElement
<1> QED
  BY <1>2, <1>3, <1>4, <1>5, <1>6

\* A dispatch that changes from one target to another takes its reservation along.
LEMMA ReservationFollows ==
  ASSUME TypeInv, Counted, NEW r \in Requests, NEW d, active' = [active EXCEPT ![r] = d],
         \A t \in Targets :
           reservations'[t] = IF Holds(d, t) THEN IF Builds(r, t) THEN reservations[t] ELSE reservations[t] + 1
                              ELSE IF ~Builds(r, t) THEN reservations[t]
                              ELSE IF reservations[t] <= 1 THEN 0 ELSE reservations[t] - 1
  PROVE  Counted'
<1> SUFFICES ASSUME NEW t \in Targets
             PROVE  /\ reservations'[t] <= Cardinality(Bound(t)')
                    /\ ~MayRestart => reservations'[t] = Cardinality(Bound(t)')
  BY DEF Counted
<1>1. reservations[t] \in Nat
  BY DEF TypeInv, TypeOK
<1>2. /\ reservations[t] <= Cardinality(Bound(t))
      /\ ~MayRestart => reservations[t] = Cardinality(Bound(t))
  BY DEF Counted
<1>3. PICK n : n = Cardinality(Bound(t))
  OBVIOUS
<1>4. /\ n \in Nat /\ (Builds(r, t) => n > 0)
      /\ Cardinality(Bound(t)') = IF Holds(d, t) THEN IF Builds(r, t) THEN n ELSE n + 1
                                  ELSE IF Builds(r, t) THEN n - 1 ELSE n
  BY <1>3, Rebinding
<1> QED
  BY <1>1, <1>2, <1>3, <1>4

\* What Released does to the count of one target.
LEMMA ReleasedCount ==
  ASSUME TypeInv, NEW u \in Targets \cup {None}, NEW t \in Targets
  PROVE  Released(reservations, u)[t] =
           IF t # u THEN reservations[t] ELSE IF reservations[t] <= 1 THEN 0 ELSE reservations[t] - 1
<1>1. reservations \in [Targets -> Nat]
  BY DEF TypeInv, TypeOK
<1> QED
  BY <1>1 DEF Released

LEMMA CountsUnchanged ==
  ASSUME Counted, UNCHANGED <<active, reservations>>
  PROVE  Counted'
BY DEF Counted, Bound, Builds

LEMMA ReleasingCounts ==
  ASSUME TypeInv, Counted, NEW r \in Requests, ReleaseDispatch(r)
  PROVE  Counted'
<1>1. active \in [Requests -> Dispatches] /\ active' = [active EXCEPT ![r] = None]
  BY DEF ReleaseDispatch, TypeInv, TypeOK
<1>2. ASSUME NEW t \in Targets
      PROVE  reservations'[t] = IF ~Builds(r, t) THEN reservations[t]
                                ELSE IF reservations[t] <= 1 THEN 0 ELSE reservations[t] - 1
  <2>1. CASE active[r] = None
    BY <2>1 DEF ReleaseDispatch, Builds
  <2>2. CASE active[r] # None
    <3>1. active[r].target \in Targets \cup {None} /\ reservations' = Released(reservations, active[r].target)
      BY <1>1, <2>2 DEF ReleaseDispatch, Dispatches
    <3> QED
      BY <2>2, <3>1, ReleasedCount DEF Builds
  <2> QED
    BY <2>1, <2>2
<1> QED
  BY <1>1, <1>2, ReservationFollows DEF Holds

LEMMA DroppingCounts ==
  ASSUME TypeInv, Counted, NEW T \in SUBSET Targets, DropTargets(T)
  PROVE  Counted'
<1> SUFFICES ASSUME NEW t \in Targets
             PROVE  /\ reservations'[t] <= Cardinality(Bound(t)')
                    /\ ~MayRestart => reservations'[t] = Cardinality(Bound(t)')
  BY DEF Counted
<1>1. /\ \A r \in Requests : active'[r] = IF \E u \in T : r \in Unaccepted(u) THEN None ELSE active[r]
      /\ reservations'[t] = IF t \notin T THEN reservations[t]
                            ELSE IF Cardinality(Unaccepted(t)) >= reservations[t] THEN 0
                            ELSE reservations[t] - Cardinality(Unaccepted(t))
  BY Dropping
<1>2. Bound(t)' = IF t \in T THEN Bound(t) \ Unaccepted(t) ELSE Bound(t)
  BY <1>1 DEF Bound, Unaccepted, Builds
<1>3. /\ IsFiniteSet(Bound(t)) /\ Cardinality(Bound(t)) \in Nat
      /\ Cardinality(Unaccepted(t)) \in Nat /\ Bound(t) \cap Unaccepted(t) = Unaccepted(t)
      /\ Cardinality(Unaccepted(t)) <= Cardinality(Bound(t))
  <2>1. Unaccepted(t) \in SUBSET Bound(t)
    BY DEF Bound, Unaccepted
  <2> QED
    BY <2>1, BoundFinite, FS_Subset
<1>4. Cardinality(Bound(t) \ Unaccepted(t)) = Cardinality(Bound(t)) - Cardinality(Unaccepted(t))
  BY <1>3, FS_Difference
<1>5. /\ reservations[t] \in Nat /\ reservations[t] <= Cardinality(Bound(t))
      /\ ~MayRestart => reservations[t] = Cardinality(Bound(t))
  BY DEF Counted, TypeInv, TypeOK
<1> QED
  BY <1>1, <1>2, <1>3, <1>4, <1>5

LEMMA CountsKept == TypeInv /\ TypeInv' /\ Counted /\ [Next]_vars => Counted'
<1> SUFFICES ASSUME TypeInv, TypeInv', Counted, [Next]_vars PROVE Counted'
  OBVIOUS
<1>a. active \in [Requests -> Dispatches] /\ reservations \in [Targets -> Nat]
      /\ dispatcher \in [Dispatchers -> Dispatching]
  BY DispatcherTypes DEF TypeInv, TypeOK
<1>1. ASSUME NEW t \in Targets, Deregister(t) PROVE Counted'
  BY <1>1, DroppingCounts DEF Deregister
<1>2. CASE PruneTargets
  <2>1. Expired \in SUBSET Targets /\ DropTargets(Expired)
    BY <1>2 DEF PruneTargets, Expired
  <2> QED
    BY <2>1, DroppingCounts
<1>3. ASSUME NEW c \in Dispatchers, NEW r \in Requests, BeginDispatch(c, r) PROVE Counted'
  <2>1. active' = [active EXCEPT ![r] = Fresh] /\ active[r] = None /\ UNCHANGED reservations
    BY <1>3 DEF BeginDispatch
  <2>2. \A t \in Targets : ~Holds(Fresh, t) /\ ~Builds(r, t)
    BY <2>1 DEF Holds, Fresh, Builds
  <2> QED
    BY <2>1, <2>2, ReservationFollows
<1>4. ASSUME NEW c \in Dispatchers, NEW r \in Requests, NEW t \in Targets, Reserve(c, r, t)
      PROVE  Counted'
  <2>1. CASE UNCHANGED <<active, reservations>>
    BY <2>1, CountsUnchanged
  <2>2. CASE /\ active[r] # None /\ ~Builds(r, t)
             /\ active' = [active EXCEPT ![r] = [Fresh EXCEPT !.target = t]]
             /\ reservations' = [Released(reservations, active[r].target) EXCEPT ![t] = @ + 1]
    <3> DEFINE d == [Fresh EXCEPT !.target = t]
    <3>1. d # None /\ d.target = t
      BY DEF Fresh
    <3>2. active[r].target \in Targets \cup {None} /\ active[r].target # t
      BY <1>a, <2>2 DEF Dispatches, Builds
    <3>3. ASSUME NEW u \in Targets
          PROVE  reservations'[u] = IF Holds(d, u) THEN IF Builds(r, u) THEN reservations[u] ELSE reservations[u] + 1
                              ELSE IF ~Builds(r, u) THEN reservations[u]
                              ELSE IF reservations[u] <= 1 THEN 0 ELSE reservations[u] - 1
      <4>1. Released(reservations, active[r].target) \in [Targets -> Nat]
        BY <1>a, <3>2, ReleasedType
      <4> QED
        BY <2>2, <3>1, <3>2, <4>1, ReleasedCount DEF Holds, Builds
    <3> QED
      BY <2>2, <3>3, ReservationFollows
  <2>3. CASE /\ active[r] # None
             /\ active' = [active EXCEPT ![r] = Fresh]
             /\ reservations' = Released(reservations, active[r].target)
    <3>1. active[r].target \in Targets \cup {None}
      BY <1>a, <2>3 DEF Dispatches
    <3>2. \A u \in Targets : ~Holds(Fresh, u)
      BY DEF Holds, Fresh
    <3>3. \A u \in Targets :
            reservations'[u] = IF ~Builds(r, u) THEN reservations[u]
                               ELSE IF reservations[u] <= 1 THEN 0 ELSE reservations[u] - 1
      BY <2>3, <3>1, ReleasedCount DEF Builds
    <3> QED
      BY <2>3, <3>2, <3>3, ReservationFollows
  <2> QED
    BY <1>4, <2>1, <2>2, <2>3 DEF Reserve
<1>5. ASSUME NEW c \in Dispatchers, NEW r \in Requests, StartRejected(c, r) PROVE Counted'
  <2>1. CASE UNCHANGED <<active, reservations>>
    BY <2>1, CountsUnchanged
  <2>2. CASE /\ Builds(r, dispatcher[c].target)
             /\ active' = [active EXCEPT ![r] = Fresh]
             /\ reservations' = Released(reservations, dispatcher[c].target)
    <3>1. dispatcher[c].target \in Targets \cup {None}
      BY <1>a DEF Dispatching
    <3>2. \A u \in Targets : ~Holds(Fresh, u)
      BY DEF Holds, Fresh
    <3>3. \A u \in Targets :
            reservations'[u] = IF ~Builds(r, u) THEN reservations[u]
                               ELSE IF reservations[u] <= 1 THEN 0 ELSE reservations[u] - 1
      BY <2>2, <3>1, ReleasedCount DEF Builds
    <3> QED
      BY <2>2, <3>2, <3>3, ReservationFollows
  <2> QED
    BY <1>5, <2>1, <2>2 DEF StartRejected
<1>6. ASSUME NEW c \in Dispatchers, NEW r \in Requests, MarkBuild(c, r) PROVE Counted'
  <2>1. CASE UNCHANGED active
    BY <1>6, <2>1, CountsUnchanged DEF MarkBuild
  <2>2. CASE active[r] # None /\ active' = [active EXCEPT ![r].accepted = TRUE]
    <3>1. active[r] \in [target : Targets \cup {None}, accepted : BOOLEAN]
      BY <1>a, <2>2 DEF Dispatches
    <3> DEFINE d == [active[r] EXCEPT !.accepted = TRUE]
    <3>2. active' = [active EXCEPT ![r] = d]
      BY <2>2
    <3>3. d # None /\ d.target = active[r].target
      BY <3>1
    <3>4. \A u \in Targets : Holds(d, u) <=> Builds(r, u)
      BY <2>2, <3>3 DEF Holds, Builds
    <3>5. UNCHANGED reservations
      BY <1>6 DEF MarkBuild
    <3> HIDE DEF d
    <3> QED
      BY <3>2, <3>4, <3>5, ReservationFollows
  <2> QED
    BY <1>6, <2>1, <2>2 DEF MarkBuild, Builds
<1>7. ASSUME NEW r \in Requests, ReleaseDispatch(r) PROVE Counted'
  BY <1>7, ReleasingCounts
<1>8. CASE Restart
  <2>1. \A t \in Targets : reservations'[t] = 0 /\ MayRestart
    BY <1>8 DEF Restart
  <2>2. ASSUME NEW t \in Targets PROVE Cardinality(Bound(t)') \in Nat
    <3>1. Bound(t)' \in SUBSET Listed(active') /\ IsFiniteSet(Listed(active'))
      BY DEF Bound, Listed, Builds, TypeInv, FinitelyActive
    <3> QED
      BY <3>1, FS_Subset, FS_CardinalityType
  <2> QED
    BY <2>1, <2>2 DEF Counted
<1>9. CASE UNCHANGED <<active, reservations>>
  BY <1>9, CountsUnchanged
<1> QED
  BY <1>1, <1>2, <1>3, <1>4, <1>5, <1>6, <1>7, <1>8, <1>9
     DEF Next, DispatchStep, RunnerStep, Register, LeaseRunsOut, ListTargets, DispatchTargets, StartAccepted,
         StartBreaksOff, TailEnds, ResultAwaited, EndDispatch, BuildEnds, ReportAnswered, ResultRecorded,
         ReportWaited, ReportGivenUp, Answer, vars, server

LEMMA CountsStart == Init /\ TypeInv => Counted
<1> SUFFICES ASSUME Init, TypeInv, NEW t \in Targets PROVE reservations[t] = 0 /\ Cardinality(Bound(t)) = 0
  BY DEF Counted
<1>1. Bound(t) = {}
  BY DEF Init, Bound, Builds
<1> QED
  BY <1>1, FS_EmptySet DEF Init

\* As long as the coordinator does not restart, the reservations of a target are
\* the active dispatches bound to it, for any number of requests and goroutines:
\* releaseTargetReservationLocked never has to keep a count from going below zero.
THEOREM ReservationsAreExact == ASSUME ~MayRestart PROVE Spec => []ReservationsExact
<1>1. TypeInv /\ Counted => ReservationsExact
  BY DEF Counted, ReservationsExact, Bound
<1> QED
  BY <1>1, TypeStarts, TypeKept, CountsStart, CountsKept, PTL DEF Spec

\* Every reservation of a target is one of a dispatch bound to it.
NoPhantomReservation ==
  \A t \in Targets : reservations[t] <= Cardinality({r \in Requests : Builds(r, t)})

\* Through restarts and failed saves too a target never has more reservations than dispatches bound
\* to it, so dispatchBuild loses no place of a queue for good.
THEOREM ReservationsAreBacked == Spec => []NoPhantomReservation
<1>1. TypeInv /\ Counted => NoPhantomReservation
  BY DEF Counted, NoPhantomReservation, Bound
<1> QED
  BY <1>1, TypeStarts, TypeKept, CountsStart, CountsKept, PTL DEF Spec

-----------------------------------------------------------------------------
(***************************************************************************)
(* What a step can do to an active dispatch, to the goroutines' requests,  *)
(* to the results and to the state file.                                   *)
(***************************************************************************)
LEMMA ActiveMoves ==
  ASSUME TypeInv, [Next]_vars, NEW q \in Requests
  PROVE  \/ active'[q] = active[q]
         \/ active'[q] = None
         \/ active[q] # None /\ active'[q] # None /\ ~active'[q].accepted
         \/ active[q] # None /\ active'[q] # None /\ \E ok \in BOOLEAN : Save(ok)
         \/ results[q] = None /\ UNCHANGED results /\ active'[q] = Fresh
              /\ \E c \in Dispatchers : BeginDispatch(c, q)
         \/ Restart
<1> USE DEF server
<1> DEFINE Goal == \/ active'[q] = active[q]
                   \/ active'[q] = None
                   \/ active[q] # None /\ active'[q] # None /\ ~active'[q].accepted
                   \/ active[q] # None /\ active'[q] # None /\ \E ok \in BOOLEAN : Save(ok)
                   \/ results[q] = None /\ UNCHANGED results /\ active'[q] = Fresh
                        /\ \E c \in Dispatchers : BeginDispatch(c, q)
                   \/ Restart
<1>a. active \in [Requests -> Dispatches]
  BY DEF TypeInv, TypeOK
<1>b. ASSUME NEW T \in SUBSET Targets, DropTargets(T) PROVE Goal
  BY <1>b, Dropping
<1>c. Fresh # None /\ ~Fresh.accepted
  <2>1. Fresh \in [target : Targets \cup {None}, accepted : BOOLEAN] /\ ~Fresh.accepted
    BY DEF Fresh
  <2> QED
    BY <2>1
<1>d. ASSUME NEW t \in Targets
      PROVE  [Fresh EXCEPT !.target = t] # None /\ ~[Fresh EXCEPT !.target = t].accepted
  BY DEF Fresh
<1>1. ASSUME NEW t \in Targets, Deregister(t) PROVE Goal
  BY <1>1, <1>b DEF Deregister
<1>2. ASSUME PruneTargets PROVE Goal
  <2>1. Expired \in SUBSET Targets /\ DropTargets(Expired)
    BY <1>2 DEF PruneTargets, Expired
  <2> QED
    BY <2>1, <1>b
<1>3. ASSUME NEW c \in Dispatchers, NEW r \in Requests, BeginDispatch(c, r) PROVE Goal
  BY <1>3, <1>a DEF BeginDispatch
<1>4. ASSUME NEW c \in Dispatchers, NEW r \in Requests, NEW t \in Targets, Reserve(c, r, t) PROVE Goal
  <2>1. \/ active' = active
        \/ active[r] # None /\ active' = [active EXCEPT ![r] = Fresh]
        \/ active[r] # None /\ active' = [active EXCEPT ![r] = [Fresh EXCEPT !.target = t]]
    BY <1>4 DEF Reserve
  <2> QED
    BY <1>a, <1>c, <1>d, <2>1
<1>5. ASSUME NEW c \in Dispatchers, NEW r \in Requests, StartRejected(c, r) PROVE Goal
  <2>1. active' = active \/ (active[r] # None /\ active' = [active EXCEPT ![r] = Fresh])
    <3> HIDE DEF Goal
    <3>1. IF dispatcher[c].untried # {} /\ Builds(r, dispatcher[c].target)
          THEN active' = [active EXCEPT ![r] = Fresh] ELSE active' = active
      BY <1>5 DEF StartRejected
    <3> QED
      BY <3>1 DEF Builds
  <2> QED
    BY <1>a, <1>c, <2>1
<1>6. ASSUME NEW c \in Dispatchers, NEW r \in Requests, MarkBuild(c, r) PROVE Goal
  <2>1. CASE active' = active
    BY <2>1
  <2>2. CASE active[r] # None /\ active' = [active EXCEPT ![r].accepted = TRUE] /\ \E ok \in BOOLEAN : Save(ok)
    <3>1. active[r] \in [target : Targets \cup {None}, accepted : BOOLEAN]
      BY <1>a, <2>2 DEF Dispatches
    <3>2. [active[r] EXCEPT !.accepted = TRUE] # None
      BY <3>1
    <3>3. active' = [active EXCEPT ![r] = [active[r] EXCEPT !.accepted = TRUE]]
      BY <2>2
    <3> QED
      BY <1>a, <2>2, <3>2, <3>3
  <2> QED
    BY <1>6, <2>1, <2>2 DEF MarkBuild, Builds
<1>7. ASSUME NEW r \in Requests, ReleaseDispatch(r) PROVE Goal
  BY <1>7, <1>a DEF ReleaseDispatch
<1>8. ASSUME UNCHANGED active PROVE Goal
  BY <1>8
<1>9. ASSUME Restart PROVE Goal
  BY <1>9
<1> HIDE DEF Goal
<1>10. Goal
  BY <1>1, <1>2, <1>3, <1>4, <1>5, <1>6, <1>7, <1>8, <1>9
     DEF Next, DispatchStep, RunnerStep, Register, LeaseRunsOut, ListTargets, DispatchTargets, StartAccepted,
         StartBreaksOff, TailEnds, ResultAwaited, EndDispatch, BuildEnds, ReportAnswered, ResultRecorded,
         ReportWaited, ReportGivenUp, vars
<1> QED
  BY <1>10 DEF Goal

\* A goroutine takes up a request and gives it back, and keeps it in between.
LEMMA RequestsMove ==
  ASSUME TypeInv, [Next]_vars
  PROVE  \/ \A c \in Dispatchers : dispatcher'[c].request = dispatcher[c].request
         \/ \E c \in Dispatchers, r \in Requests : BeginDispatch(c, r) \/ EndDispatch(c, r)
         \/ Restart
<1> DEFINE Same == \A c \in Dispatchers : dispatcher'[c].request = dispatcher[c].request
<1>a. dispatcher \in [Dispatchers -> Dispatching]
  BY DispatcherTypes
<1>1. ASSUME NEW c \in Dispatchers, NEW where, Leave(c, where) PROVE Same
  BY <1>a, <1>1 DEF Leave, Dispatching
<1>2. ASSUME NEW c \in Dispatchers, NEW where, Goto(c, where) PROVE Same
  BY <1>a, <1>2 DEF Goto, Dispatching
<1>3. ASSUME NEW c \in Dispatchers, DispatchTargets(c) PROVE Same
  BY <1>a, <1>3 DEF DispatchTargets, Dispatching
<1>4. ASSUME NEW c \in Dispatchers, NEW r \in Requests, NEW t \in Targets, Reserve(c, r, t) PROVE Same
  BY <1>a, <1>4 DEF Reserve, Dispatching
<1>5. ASSUME NEW c \in Dispatchers, NEW r \in Requests, StartAccepted(c, r) \/ StartRejected(c, r) PROVE Same
  BY <1>a, <1>5 DEF StartAccepted, StartRejected, Dispatching
<1>6. ASSUME NEW c \in Dispatchers, NEW r \in Requests, MarkBuild(c, r) PROVE Same
  BY <1>1, <1>2, <1>6 DEF MarkBuild
<1>7. ASSUME UNCHANGED dispatcher PROVE Same
  BY <1>7
<1> HIDE DEF Same
<1>8. \/ Same
      \/ \E c \in Dispatchers, r \in Requests : BeginDispatch(c, r) \/ EndDispatch(c, r)
      \/ Restart
  BY <1>1, <1>2, <1>3, <1>4, <1>5, <1>6, <1>7
     DEF Next, DispatchStep, RunnerStep, Register, Deregister, LeaseRunsOut, ListTargets, StartBreaksOff, TailEnds,
         ResultAwaited, BuildEnds, ReportAnswered, ResultRecorded, ReportWaited, ReportGivenUp, vars
<1> QED
  BY <1>8 DEF Same

LEMMA ResultsMove ==
  ASSUME [Next]_vars
  PROVE  \/ UNCHANGED results
         \/ \E r \in Requests, t \in Targets : ResultRecorded(r, t)
         \/ Restart
<1> USE DEF server
<1>1. ASSUME NEW c \in Dispatchers, NEW r \in Requests, BeginDispatch(c, r) \/ DispatchStep(c, r)
      PROVE  UNCHANGED results
  <2>1. ASSUME NEW t \in Targets, Reserve(c, r, t) PROVE UNCHANGED results
    BY <2>1 DEF Reserve
  <2>2. ASSUME StartRejected(c, r) PROVE UNCHANGED results
    BY <2>2 DEF StartRejected
  <2> QED
    BY <1>1, <2>1, <2>2 DEF DispatchStep, BeginDispatch, StartAccepted, StartBreaksOff, MarkBuild, TailEnds, EndDispatch
<1>2. ASSUME NEW c \in Dispatchers, DispatchTargets(c) \/ ResultAwaited(c) PROVE UNCHANGED results
  BY <1>2 DEF DispatchTargets, PruneTargets, ResultAwaited
<1>3. ASSUME NEW r \in Requests, NEW t \in Targets, RunnerStep(r, t), ~ResultRecorded(r, t) PROVE UNCHANGED results
  BY <1>3 DEF RunnerStep, BuildEnds, ReportAnswered, ReportWaited, ReportGivenUp
<1> QED
  BY <1>1, <1>2, <1>3 DEF Next, Register, Deregister, LeaseRunsOut, ListTargets, PruneTargets, vars

LEMMA DiskMoves ==
  ASSUME [Next]_vars
  PROVE  UNCHANGED disk \/ (\E ok \in BOOLEAN : Save(ok)) \/ Restart
<1> USE DEF server
<1> DEFINE Goal == UNCHANGED disk \/ \E ok \in BOOLEAN : Save(ok)
<1>1. ASSUME NEW c \in Dispatchers, NEW r \in Requests, BeginDispatch(c, r) \/ DispatchStep(c, r)
      PROVE  Goal
  <2>1. ASSUME NEW t \in Targets, Reserve(c, r, t) PROVE Goal
    BY <2>1 DEF Reserve
  <2>2. ASSUME StartRejected(c, r) PROVE Goal
    BY <2>2 DEF StartRejected
  <2>3. ASSUME MarkBuild(c, r) PROVE Goal
    BY <2>3 DEF MarkBuild
  <2> QED
    BY <1>1, <2>1, <2>2, <2>3 DEF DispatchStep, BeginDispatch, StartAccepted, StartBreaksOff, TailEnds, EndDispatch
<1>2. ASSUME NEW c \in Dispatchers, DispatchTargets(c) \/ ResultAwaited(c) PROVE Goal
  BY <1>2 DEF DispatchTargets, PruneTargets, ResultAwaited
<1>3. ASSUME NEW r \in Requests, NEW t \in Targets, RunnerStep(r, t) PROVE Goal
  BY <1>3 DEF RunnerStep, BuildEnds, ReportAnswered, ResultRecorded, ReportWaited, ReportGivenUp
<1>4. ASSUME NEW t \in Targets, NEW queued \in Loads, Register(t, queued) PROVE Goal
  BY <1>4 DEF Register
<1>5. ASSUME NEW t \in Targets, Deregister(t) \/ LeaseRunsOut(t) PROVE Goal
  BY <1>5 DEF Deregister, LeaseRunsOut
<1>6. ASSUME ListTargets PROVE Goal
  BY <1>6 DEF ListTargets, PruneTargets
<1>7. ASSUME UNCHANGED vars PROVE Goal
  BY <1>7 DEF vars
<1> HIDE DEF Goal
<1>8. Goal \/ Restart
  BY <1>1, <1>2, <1>3, <1>4, <1>5, <1>6, <1>7 DEF Next
<1> QED
  BY <1>8 DEF Goal

\* Whoever changes the results saves them.
LEMMA RecordedSaves ==
  ASSUME NEW r \in Requests, NEW t \in Targets, ResultRecorded(r, t)
  PROVE  \E ok \in BOOLEAN : Save(ok)
BY DEF ResultRecorded

-----------------------------------------------------------------------------
(***************************************************************************)
(* Every active dispatch is run by a goroutine.  A dispatch that comes from*)
(* the state file has none, hence the hypothesis.                          *)
(***************************************************************************)
LEMMA OwnedKept == ~MayRestart /\ TypeInv /\ ActiveOwned /\ [Next]_vars => ActiveOwned'
<1> SUFFICES ASSUME ~MayRestart, TypeInv, ActiveOwned, [Next]_vars PROVE ActiveOwned'
  OBVIOUS
<1>a. active \in [Requests -> Dispatches] /\ dispatcher \in [Dispatchers -> Dispatching]
  BY DispatcherTypes DEF TypeInv, TypeOK
<1>1. ~Restart
  BY DEF Restart
<1>2. ASSUME NEW c \in Dispatchers, NEW r \in Requests, BeginDispatch(c, r) PROVE ActiveOwned'
  <2>1. /\ \A q \in Requests : q # r => active'[q] = active[q]
        /\ dispatcher'[c].request = r
        /\ \A k \in Dispatchers \ {c} : dispatcher'[k].request = dispatcher[k].request
    BY <1>a, <1>2 DEF BeginDispatch, Idle
  <2>2. dispatcher[c].request = None
    BY <1>2 DEF BeginDispatch, Idle
  <2> QED
    BY <2>1, <2>2 DEF ActiveOwned
<1>3. ASSUME NEW c \in Dispatchers, NEW r \in Requests, EndDispatch(c, r) PROVE ActiveOwned'
  <2>1. /\ active'[r] = None /\ \A q \in Requests : q # r => active'[q] = active[q]
        /\ \A k \in Dispatchers \ {c} : dispatcher'[k].request = dispatcher[k].request
        /\ dispatcher[c].request = r
    BY <1>a, <1>3 DEF EndDispatch, ReleaseDispatch, Here
  <2> QED
    BY <2>1 DEF ActiveOwned
<1>4. CASE /\ \A c \in Dispatchers : dispatcher'[c].request = dispatcher[c].request
           /\ ~\E c \in Dispatchers, r \in Requests : BeginDispatch(c, r)
  <2>1. \A q \in Requests : active'[q] # None => active[q] # None
    BY <1>1, <1>4, ActiveMoves
  <2> QED
    BY <1>4, <2>1 DEF ActiveOwned
<1> QED
  BY <1>1, <1>2, <1>3, <1>4, RequestsMove

\* No request_id is blocked by a dispatch that nobody runs, whatever the numbers of
\* requests, targets and goroutines, while the coordinator runs.
THEOREM ActiveDispatchesAreOwned == ASSUME ~MayRestart PROVE Spec => []ActiveOwned
<1>1. Init => ActiveOwned
  BY DEF Init, ActiveOwned
<1> QED
  BY <1>1, TypeStarts, TypeKept, OwnedKept, PTL DEF Spec

-----------------------------------------------------------------------------
(***************************************************************************)
(* Results.  A runner reports a build that ended, and nobody else records; *)
(* the record, and the runner's knowledge of it, survive a restart only if *)
(* every save succeeds.  RecordInv is the inductive invariant.             *)
(***************************************************************************)
Durable == StatePath /\ ~SaveMayFail
KeepsRecords == Durable \/ ~MayRestart

ReportedEnded == \A r \in Requests, t \in Targets : report[r][t] # "none" => fate[r][t] = "ended"
RecordedEnded(record) == \A r \in Requests : record[r] # None => fate[r][record[r]] = "ended"
ActiveUnrecorded == \A r \in Requests : active[r] # None => results[r] = None
AcknowledgedRecorded ==
  \A r \in Requests, t \in Targets : report[r][t] = "acknowledged" => results[r] = t
SavedRecorded == \A r \in Requests : disk.results[r] # None => results[r] = disk.results[r]
AcceptedSaved == \A r \in Requests, t \in Targets : Accepted(r, t) => disk.active[r] = active[r]

RecordInv ==
  /\ ReportedEnded
  /\ RecordedEnded(results) /\ RecordedEnded(disk.results)
  /\ ActiveUnrecorded /\ SavedRecorded
  /\ KeepsRecords => AcknowledgedRecorded
  /\ Durable => disk.results = results /\ AcceptedSaved

LEMMA SaveWrites ==
  ASSUME NEW ok \in BOOLEAN, Save(ok)
  PROVE  /\ \/ UNCHANGED disk
            \/ disk' = [targets |-> targets', results |-> results', active |-> Persisted(active')]
         /\ Durable => disk' = [targets |-> targets', results |-> results', active |-> Persisted(active')]
BY DEF Save, Durable

\* A build that ended stays so, and an answer to a report is given to a build that ended.
LEMMA ReportsMove ==
  ASSUME TypeInv, [Next]_vars, NEW q \in Requests, NEW u \in Targets
  PROVE  /\ fate[q][u] = "ended" => fate'[q][u] = "ended"
         /\ \/ report'[q][u] = report[q][u]
            \/ fate'[q][u] = "ended" /\ report'[q][u] = "sending"
            \/ /\ report[q][u] # "none"
               /\ report'[q][u] = "acknowledged" => results'[q] = u
<1> USE DEF runner
<1> DEFINE Fate == fate[q][u] = "ended" => fate'[q][u] = "ended"
           Report == \/ report'[q][u] = report[q][u]
                     \/ fate'[q][u] = "ended" /\ report'[q][u] = "sending"
                     \/ /\ report[q][u] # "none"
                        /\ report'[q][u] = "acknowledged" => results'[q] = u
<1>a. /\ fate \in [Requests -> [Targets -> Fates]] /\ report \in [Requests -> [Targets -> ReportStates]]
      /\ results \in [Requests -> Targets \cup {None}]
  BY DEF TypeInv, TypeOK, Fates, ReportStates
<1>1. ASSUME NEW r \in Requests, NEW t, Takes(r, t) PROVE Fate
  BY <1>1, <1>a DEF Takes
<1>2. ASSUME NEW r \in Requests, NEW t \in Targets, NEW answer, Answer(r, t, answer),
             report[r][t] # "none", answer = "acknowledged" => results'[r] = t
      PROVE  Report
  BY <1>2, <1>a DEF Answer
<1>3. ASSUME UNCHANGED fate PROVE Fate
  BY <1>3
<1>4. ASSUME UNCHANGED report PROVE Report
  BY <1>4
<1>5. ASSUME NEW r \in Requests, NEW t \in Targets, BuildEnds(r, t) PROVE Fate /\ Report
  BY <1>5, <1>a DEF BuildEnds
<1>6. ASSUME Restart PROVE Fate /\ Report
  BY <1>6, <1>a DEF Restart
<1> HIDE DEF Fate, Report
<1>7. ASSUME NEW c \in Dispatchers, NEW r \in Requests, BeginDispatch(c, r) \/ DispatchStep(c, r)
      PROVE  Fate /\ Report
  <2>1. ASSUME NEW t \in Targets, Reserve(c, r, t) PROVE UNCHANGED runner
    BY <2>1 DEF Reserve
  <2>2. ASSUME StartRejected(c, r) PROVE UNCHANGED report /\ (UNCHANGED fate \/ Takes(r, dispatcher[c].target))
    BY <2>2 DEF StartRejected
  <2>3. ASSUME StartAccepted(c, r) \/ StartBreaksOff(c, r)
        PROVE  UNCHANGED report /\ (UNCHANGED fate \/ Takes(r, dispatcher[c].target))
    BY <2>3 DEF StartAccepted, StartBreaksOff
  <2>4. ASSUME BeginDispatch(c, r) \/ MarkBuild(c, r) \/ TailEnds(c, r) \/ EndDispatch(c, r)
        PROVE  UNCHANGED runner
    BY <2>4 DEF BeginDispatch, MarkBuild, TailEnds, EndDispatch
  <2> QED
    BY <1>1, <1>3, <1>4, <1>7, <2>1, <2>2, <2>3, <2>4 DEF DispatchStep
<1>8. ASSUME NEW c \in Dispatchers, DispatchTargets(c) \/ ResultAwaited(c) PROVE Fate /\ Report
  BY <1>3, <1>4, <1>8 DEF DispatchTargets, ResultAwaited
<1>9. ASSUME NEW r \in Requests, NEW t \in Targets, ResultRecorded(r, t) PROVE Fate /\ Report
  <2>1. results'[r] = t /\ UNCHANGED fate /\ report[r][t] # "none"
    BY <1>9, <1>a DEF ResultRecorded
  <2>2. \E answer : Answer(r, t, answer)
    BY <1>9 DEF ResultRecorded
  <2> QED
    BY <1>2, <1>3, <2>1, <2>2
<1>10. ASSUME NEW r \in Requests, NEW t \in Targets,
              ReportAnswered(r, t) \/ ReportWaited(r, t) \/ ReportGivenUp(r, t)
       PROVE  Fate /\ Report
  <2>1. UNCHANGED <<results, fate>> /\ report[r][t] # "none"
    BY <1>10 DEF ReportAnswered, ReportWaited, ReportGivenUp, server
  <2>2. PICK answer : Answer(r, t, answer) /\ (answer = "acknowledged" => results[r] = t)
    BY <1>10 DEF ReportAnswered, ReportWaited, ReportGivenUp
  <2> QED
    BY <1>2, <1>3, <2>1, <2>2
<1>11. ASSUME UNCHANGED runner PROVE Fate /\ Report
  BY <1>3, <1>4, <1>11
<1>12. ASSUME NEW t \in Targets, (\E queued \in Loads : Register(t, queued)) \/ Deregister(t) \/ LeaseRunsOut(t)
       PROVE  Fate /\ Report
  BY <1>11, <1>12 DEF Register, Deregister, LeaseRunsOut
<1>13. ASSUME ListTargets \/ UNCHANGED vars PROVE Fate /\ Report
  BY <1>11, <1>13 DEF ListTargets, vars
<1>14. ASSUME NEW r \in Requests, NEW t \in Targets, RunnerStep(r, t) PROVE Fate /\ Report
  <2>1. CASE BuildEnds(r, t)
    BY <1>5, <2>1
  <2>2. CASE ResultRecorded(r, t)
    BY <1>9, <2>2
  <2>3. CASE ReportAnswered(r, t) \/ ReportWaited(r, t) \/ ReportGivenUp(r, t)
    BY <1>10, <2>3
  <2> QED
    BY <1>14, <2>1, <2>2, <2>3 DEF RunnerStep
<1>15. Fate /\ Report
  BY <1>6, <1>7, <1>8, <1>12, <1>13, <1>14 DEF Next
<1> QED
  BY <1>15 DEF Fate, Report

LEMMA RecordKept == TypeInv /\ TypeInv' /\ RecordInv /\ [Next]_vars => RecordInv'
<1> SUFFICES ASSUME TypeInv, TypeInv', RecordInv, [Next]_vars PROVE RecordInv'
  OBVIOUS
<1>a. /\ active \in [Requests -> Dispatches] /\ active' \in [Requests -> Dispatches]
      /\ results \in [Requests -> Targets \cup {None}] /\ results' \in [Requests -> Targets \cup {None}]
      /\ disk.results \in [Requests -> Targets \cup {None}]
  BY DEF TypeInv, TypeOK
<1>b. ASSUME NEW r \in Requests, NEW t \in Targets, ResultRecorded(r, t)
      PROVE  /\ results[r] = None /\ report[r][t] = "sending"
             /\ results' = [results EXCEPT ![r] = t] /\ active'[r] = None
  BY <1>a, <1>b DEF ResultRecorded, ReleaseDispatch
<1>c. ASSUME Restart
      PROVE  /\ results' = disk.results /\ disk' = [targets |-> targets', results |-> results', active |-> active']
             /\ \A r \in Requests : active'[r] = IF disk.results[r] = None THEN disk.active[r] ELSE None
             /\ MayRestart
  BY <1>c DEF Restart
<1>d. \/ UNCHANGED disk /\ UNCHANGED results
      \/ disk' = [targets |-> targets', results |-> results', active |-> Persisted(active')]
      \/ ~Durable /\ UNCHANGED disk
      \/ Restart
  BY DiskMoves, ResultsMove, RecordedSaves, SaveWrites
<1>1. ReportedEnded'
  BY ReportsMove DEF RecordInv, ReportedEnded
<1>2. RecordedEnded(results)'
  <2>1. CASE UNCHANGED results
    BY <1>a, <2>1, ReportsMove DEF RecordInv, RecordedEnded
  <2>2. ASSUME NEW r \in Requests, NEW t \in Targets, ResultRecorded(r, t) PROVE RecordedEnded(results)'
    <3>1. fate[r][t] = "ended"
      BY <1>b, <2>2 DEF RecordInv, ReportedEnded
    <3> QED
      BY <1>a, <1>b, <2>2, <3>1, ReportsMove DEF RecordInv, RecordedEnded
  <2>3. CASE Restart
    BY <1>a, <1>c, <2>3, ReportsMove DEF RecordInv, RecordedEnded
  <2> QED
    BY <2>1, <2>2, <2>3, ResultsMove
<1>3. RecordedEnded(disk.results)'
  <2>1. CASE disk'.results = results'
    BY <1>2, <2>1 DEF RecordedEnded
  <2>2. CASE UNCHANGED disk
    BY <1>a, <2>2, ReportsMove DEF RecordInv, RecordedEnded
  <2> QED
    BY <1>c, <1>d, <2>1, <2>2
<1>4. ActiveUnrecorded'
  <2> SUFFICES ASSUME NEW q \in Requests, active'[q] # None PROVE results'[q] = None
    BY DEF ActiveUnrecorded
  <2>1. CASE Restart
    BY <1>c, <2>1
  <2>2. CASE active[q] # None
    <3>1. results[q] = None
      BY <2>2 DEF RecordInv, ActiveUnrecorded
    <3> QED
      BY <1>a, <1>b, <2>1, <3>1, ResultsMove
  <2>3. CASE results[q] = None /\ UNCHANGED results
    BY <2>3
  <2> QED
    BY <2>1, <2>2, <2>3, ActiveMoves
<1>5. SavedRecorded'
  <2>1. CASE disk'.results = results'
    BY <2>1 DEF SavedRecorded
  <2>2. CASE UNCHANGED disk /\ ~Restart
    BY <1>a, <1>b, <2>2, ResultsMove DEF RecordInv, SavedRecorded
  <2> QED
    BY <1>c, <1>d, <2>1, <2>2
<1>6. KeepsRecords => AcknowledgedRecorded'
  <2> SUFFICES ASSUME KeepsRecords, NEW q \in Requests, NEW u \in Targets, report'[q][u] = "acknowledged"
               PROVE  results'[q] = u
    BY DEF AcknowledgedRecorded
  <2>1. CASE report[q][u] = "acknowledged"
    <3>1. results[q] = u
      BY <2>1 DEF RecordInv, AcknowledgedRecorded
    <3>2. CASE Restart
      BY <1>c, <3>1, <3>2 DEF RecordInv, KeepsRecords
    <3>3. CASE ~Restart
      BY <1>a, <1>b, <3>1, <3>3, ResultsMove
    <3> QED
      BY <3>2, <3>3
  <2>2. CASE report[q][u] # "acknowledged"
    BY <2>2, ReportsMove
  <2> QED
    BY <2>1, <2>2
<1>7. Durable => disk'.results = results'
  BY <1>c, <1>d DEF RecordInv
<1>8. Durable => AcceptedSaved'
  <2> SUFFICES ASSUME Durable, NEW q \in Requests, NEW u \in Targets, Accepted(q, u)'
               PROVE  disk'.active[q] = active'[q]
    BY DEF AcceptedSaved
  <2>1. active'[q] # None /\ active'[q].accepted /\ active'[q].target = u
    BY DEF Accepted, Builds
  <2>2. CASE disk' = [targets |-> targets', results |-> results', active |-> Persisted(active')]
    BY <2>1, <2>2 DEF Persisted
  <2>3. CASE UNCHANGED disk /\ active'[q] = active[q]
    BY <2>1, <2>3 DEF RecordInv, AcceptedSaved, Accepted, Builds
  <2>4. CASE Restart
    BY <1>c, <2>4
  <2>5. active'[q] = active[q] \/ Restart \/ \E ok \in BOOLEAN : Save(ok)
    <3>1. ~Fresh.accepted
      BY DEF Fresh
    <3> QED
      BY <2>1, <3>1, ActiveMoves
  <2> QED
    BY <1>d, <2>2, <2>3, <2>4, <2>5, SaveWrites
<1> QED
  BY <1>1, <1>2, <1>3, <1>4, <1>5, <1>6, <1>7, <1>8 DEF RecordInv

LEMMA RecordStarts == Init => RecordInv
BY DEF Init, RecordInv, ReportedEnded, RecordedEnded, ActiveUnrecorded, SavedRecorded, AcknowledgedRecorded,
       AcceptedSaved, Accepted, Builds

\* A result on record is of a build that ended, and the one its runner was
\* acknowledged for: without restarts whether or not saves succeed, and through
\* restarts if they do.
THEOREM ResultsAreGenuine == ASSUME KeepsRecords PROVE Spec => []ResultGenuine
<1>1. TypeInv /\ RecordInv => ResultGenuine
  BY DEF RecordInv, RecordedEnded, AcknowledgedRecorded, ResultGenuine
<1> QED
  BY <1>1, TypeStarts, TypeKept, RecordStarts, RecordKept, PTL DEF Spec

\* Results in memory and in the state file are of builds that have ended.
RecordsEnded == RecordedEnded(results) /\ RecordedEnded(disk.results)

\* What recordRunnerResult or loadState has put on record is of a build that ended
\* at its runner, whatever happens to the coordinator and to its file.
THEOREM RecordsAreOfEndedBuilds == Spec => []RecordsEnded
<1>1. RecordInv => RecordsEnded
  BY DEF RecordInv, RecordsEnded
<1> QED
  BY <1>1, TypeStarts, TypeKept, RecordStarts, RecordKept, PTL DEF Spec

\* A request is never dispatched and on record at once, through restarts too.
THEOREM NoDispatchOfRecorded == Spec => []ActiveUnrecorded
<1>1. RecordInv => ActiveUnrecorded
  BY DEF RecordInv
<1> QED
  BY <1>1, TypeStarts, TypeKept, RecordStarts, RecordKept, PTL DEF Spec

\* A result that a save has put into the state file stays there and in memory.
SavedResultKept ==
  [][\A r \in Requests : disk.results[r] # None =>
       disk'.results[r] = disk.results[r] /\ results'[r] = disk.results[r]]_vars

\* recordResult loses or replaces nothing that saveStateLocked has once written, in the
\* file or in memory: not by failed saves, restarts, late reports or second dispatches.
THEOREM SavedResultsAreKept == Spec => SavedResultKept
<1>1. ASSUME TypeInv, RecordInv, [Next]_vars
      PROVE  [\A r \in Requests : disk.results[r] # None =>
                disk'.results[r] = disk.results[r] /\ results'[r] = disk.results[r]]_vars
  <2> SUFFICES ASSUME NEW r \in Requests, disk.results[r] # None
               PROVE  disk'.results[r] = disk.results[r] /\ results'[r] = disk.results[r]
    OBVIOUS
  <2>1. results[r] = disk.results[r]
    BY <1>1 DEF RecordInv, SavedRecorded
  <2>2. results'[r] = disk.results[r]
    <3>1. CASE UNCHANGED results
      BY <2>1, <3>1
    <3>2. ASSUME NEW q \in Requests, NEW t \in Targets, ResultRecorded(q, t) PROVE results'[r] = results[r]
      BY <1>1, <3>2, <2>1 DEF ResultRecorded, TypeInv, TypeOK
    <3>3. CASE Restart
      BY <3>3 DEF Restart
    <3> QED
      BY <1>1, <2>1, <3>1, <3>2, <3>3, ResultsMove
  <2>3. UNCHANGED disk \/ disk'.results = results'
    <3>1. CASE Restart
      BY <3>1 DEF Restart
    <3> QED
      BY <1>1, <3>1, DiskMoves, SaveWrites
  <2> QED
    BY <2>2, <2>3
<1> QED
  BY <1>1, TypeStarts, TypeKept, RecordStarts, RecordKept, PTL DEF Spec, SavedResultKept

LEMMA ResultsStay ==
  ASSUME KeepsRecords, TypeInv, RecordInv, [Next]_vars, NEW r \in Requests, results[r] # None
  PROVE  results'[r] = results[r]
<1>1. CASE UNCHANGED results
  BY <1>1
<1>2. ASSUME NEW q \in Requests, NEW t \in Targets, ResultRecorded(q, t) PROVE results'[r] = results[r]
  BY <1>2 DEF ResultRecorded, TypeInv, TypeOK
<1>3. CASE Restart
  BY <1>3 DEF Restart, RecordInv, KeepsRecords
<1> QED
  BY <1>1, <1>2, <1>3, ResultsMove

\* A recorded result is never lost or replaced, by a late or a repeated report, a
\* second dispatch or a restart.
THEOREM ResultsAreKept == ASSUME KeepsRecords PROVE Spec => ResultKept
<1>1. TypeInv /\ RecordInv /\ [Next]_vars =>
        [\A r \in Requests : results[r] # None => results'[r] = results[r]]_vars
  BY ResultsStay
<1> QED
  BY <1>1, TypeStarts, TypeKept, RecordStarts, RecordKept, PTL DEF Spec, ResultKept

\* A restarted coordinator still expects the result of every accepted build, so no
\* runner's report is turned away because of the restart.
THEOREM RestartsKeepDispatches == ASSUME Durable PROVE Spec => RestartKeepsDispatches
<1>1. TypeInv /\ RecordInv /\ [Next]_vars =>
        [Restart => \A r \in Requests, t \in Targets : Accepted(r, t) => Accepted(r, t)']_vars
  <2> SUFFICES ASSUME TypeInv, RecordInv, Restart, NEW r \in Requests, NEW t \in Targets, Accepted(r, t)
               PROVE  Accepted(r, t)'
    OBVIOUS
  <2>1. active[r] # None /\ active[r].accepted /\ active[r].target = t
    BY DEF Accepted, Builds
  <2>2. disk.active[r] = active[r] /\ disk.results[r] = None
    BY <2>1 DEF RecordInv, AcceptedSaved, ActiveUnrecorded
  <2>3. active'[r] = active[r]
    BY <2>2 DEF Restart
  <2> QED
    BY <2>1, <2>3 DEF Accepted, Builds
<1> QED
  BY <1>1, TypeStarts, TypeKept, RecordStarts, RecordKept, PTL DEF Spec, RestartKeepsDispatches

-----------------------------------------------------------------------------
USE BuildAssumption

(***************************************************************************)
(* The commands, the calls and the verdicts are added to Coordinator and   *)
(* take nothing away from it: each step is one of its steps or leaves it   *)
(* alone.                                                                  *)
(***************************************************************************)
LEMMA BuildStepsAreSteps == [BuildNext]_buildVars => [Next]_vars
<1> SUFFICES ASSUME [BuildNext]_buildVars PROVE [Next]_vars
  OBVIOUS
<1>1. CASE TargetsChange
  BY <1>1 DEF TargetsChange, Next
<1>2. ASSUME NEW k \in Dispatchers, NEW r \in Requests, Post(k, r) PROVE [Next]_vars
  BY <1>2 DEF Post, Next
<1>3. ASSUME NEW k \in Dispatchers, Dispatch(k) PROVE [Next]_vars
  BY <1>3 DEF Dispatch, Next
<1>4. ASSUME NEW r \in Requests, NEW t \in Targets, Ends(r, t) \/ Reports(r, t) PROVE [Next]_vars
  BY <1>4 DEF Ends, Reports, RunnerStep, Next
<1>5. CASE Restarts
  BY <1>5 DEF Restarts, Next
<1>6. CASE UNCHANGED vars
  BY <1>6
<1> QED
  BY <1>1, <1>2, <1>3, <1>4, <1>5, <1>6
     DEF BuildNext, Reconnected, Expected, StreamEnds, ResultLookedUp, CancelDispatch, buildVars

\* Commands, cancels and reconnections are within what the coordinator's own
\* specification allows; so its theorems hold of the composition.
THEOREM BuildsAreCoordinated == BuildSpec => Spec
<1>1. BuildInit => Init
  BY DEF BuildInit
<1> QED
  BY <1>1, BuildStepsAreSteps, PTL DEF BuildSpec, Spec

-----------------------------------------------------------------------------
(***************************************************************************)
(* Types.                                                                  *)
(***************************************************************************)
Verdict == {None, "canceling", "passed", "failed", "canceled"}
Clients == [at : {"idle", "reading", "looking", "passed", "failed"},
            request : Requests \cup {None}, shown : Targets \cup {None}]
Calls == [by : {"none", "dispatch", "record", "following", "expecting", "conflict"},
          accepted : Targets \cup {None}, failed : BOOLEAN, ended : BOOLEAN]

CommandTypes ==
  /\ verdict \in [Requests -> [Targets -> Verdict]]
  /\ client \in [Dispatchers -> Clients]
  /\ call \in [Dispatchers -> Calls]

LEMMA WriteType ==
  ASSUME CommandTypes, NEW k \in Dispatchers, NEW what \in Calls, Write(k, what)
  PROVE  call' \in [Dispatchers -> Calls]
BY DEF CommandTypes, Write

LEMMA ToldType ==
  ASSUME CommandTypes, NEW k \in Dispatchers, NEW failed \in BOOLEAN
  PROVE  /\ [call[k] EXCEPT !.failed = failed] \in Calls
         /\ [call[k] EXCEPT !.ended = TRUE] \in Calls
         /\ [call[k] EXCEPT !.failed = failed, !.ended = TRUE] \in Calls
         /\ [call[k] EXCEPT !.by = "expecting"] \in Calls
         /\ \A t \in Targets \cup {None} : [call[k] EXCEPT !.accepted = t] \in Calls
<1>1. call[k] \in Calls
  BY DEF CommandTypes
<1> QED
  BY <1>1 DEF Calls

LEMMA CancelType ==
  ASSUME CommandTypes, NEW r \in Requests, NEW t, CancelAt(r, t)
  PROVE  verdict' \in [Requests -> [Targets -> Verdict]]
BY DEF CommandTypes, CancelAt, Verdict

LEMMA GoesType ==
  ASSUME CommandTypes, NEW k \in Dispatchers, NEW where \in {"looking", "passed", "failed"}, Goes(k, where)
  PROVE  client' \in [Dispatchers -> Clients] /\ \A c \in Dispatchers : client'[c].request = client[c].request
<1>1. client[k] \in Clients /\ call[k].accepted \in Targets \cup {None}
  BY DEF CommandTypes, Calls
<1> QED
  BY <1>1 DEF CommandTypes, Goes, Clients

LEMMA WritesType ==
  ASSUME TypeInv, CommandTypes, NEW k \in Dispatchers, Writes(k)
  PROVE  call' \in [Dispatchers -> Calls]
<1>1. dispatcher[k].target \in Targets \cup {None}
  BY DispatcherTypes DEF Dispatching
<1>2. \/ UNCHANGED call
      \/ Write(k, [call[k] EXCEPT !.accepted = dispatcher[k].target])
      \/ \E failed \in BOOLEAN : Write(k, [call[k] EXCEPT !.failed = failed])
      \/ Write(k, [call[k] EXCEPT !.ended = TRUE])
  BY DEF Writes
<1> QED
  BY <1>1, <1>2, ToldType, WriteType DEF CommandTypes

LEMMA CommandTypesKept == TypeInv /\ CommandTypes /\ [BuildNext]_buildVars => CommandTypes'
<1> SUFFICES ASSUME TypeInv, CommandTypes, [BuildNext]_buildVars PROVE CommandTypes'
  OBVIOUS
<1> USE DEF clientVars
<1>a. /\ verdict \in [Requests -> [Targets -> Verdict]] /\ client \in [Dispatchers -> Clients]
      /\ call \in [Dispatchers -> Calls] /\ active \in [Requests -> Dispatches]
      /\ results \in [Requests -> Targets \cup {None}]
  BY DEF CommandTypes, TypeInv, TypeOK
<1>1. CASE UNCHANGED <<verdict, clientVars>>
  BY <1>1 DEF CommandTypes
<1>2. ASSUME NEW k \in Dispatchers, NEW r \in Requests, Post(k, r) PROVE CommandTypes'
  <2>1. client' \in [Dispatchers -> Clients]
    BY <1>2, <1>a DEF Post, Unstarted, Clients
  <2>2. PICK what \in Calls : Write(k, what)
    <3>1. CASE Write(k, Response("dispatch", None, FALSE, FALSE))
      BY <3>1 DEF Response, Calls
    <3>2. CASE Write(k, Response("record", results[r], ~Passed(r), TRUE))
      <4>1. Response("record", results[r], ~Passed(r), TRUE) \in Calls
        BY <1>a DEF Response, Calls, Passed
      <4> QED
        BY <3>2, <4>1
    <3>3. CASE active[r] # None /\ Write(k, Response("following", active[r].target, FALSE, FALSE))
      BY <1>a, <3>3 DEF Response, Calls, Dispatches
    <3>4. CASE Write(k, Response("conflict", None, TRUE, TRUE))
      BY <3>4 DEF Response, Calls
    <3> QED
      BY <1>2, <3>1, <3>2, <3>3, <3>4 DEF Post
  <2> QED
    BY <1>2, <1>a, <2>1, <2>2, WriteType DEF Post, CommandTypes
<1>3. ASSUME NEW k \in Dispatchers, Dispatch(k) PROVE CommandTypes'
  <2>1. call' \in [Dispatchers -> Calls] /\ UNCHANGED client
    BY <1>3, WritesType DEF Dispatch
  <2>2. verdict' \in [Requests -> [Targets -> Verdict]]
    <3>1. CASE UNCHANGED verdict
      BY <1>a, <3>1
    <3>2. CASE CancelAt(dispatcher[k].request, dispatcher[k].target)
      BY <1>a, <3>2 DEF CancelAt, Verdict
    <3> QED
      BY <1>3, <3>1, <3>2 DEF Dispatch
  <2> QED
    BY <1>a, <2>1, <2>2 DEF CommandTypes
<1>4. ASSUME NEW k \in Dispatchers, Reconnected(k) PROVE CommandTypes'
  <2>1. Response("following", call[k].accepted, TRUE, TRUE) \in Calls
    BY <1>a DEF Response, Calls
  <2> QED
    BY <1>4, <1>a, <2>1, ToldType, WriteType DEF Reconnected, CommandTypes
<1>5. ASSUME NEW k \in Dispatchers, Expected(k) PROVE CommandTypes'
  BY <1>5, <1>a, ToldType, WriteType DEF Expected, CommandTypes
<1>6. ASSUME NEW r \in Requests, Canceled(r) PROVE verdict' \in [Requests -> [Targets -> Verdict]]
  BY <1>6, <1>a, CancelType DEF Canceled
<1>7. ASSUME NEW r \in Requests, CancelDispatch(r) PROVE CommandTypes'
  BY <1>6, <1>7, <1>a DEF CancelDispatch, CommandTypes
<1>8. ASSUME NEW k \in Dispatchers, StreamEnds(k) PROVE CommandTypes'
  <2>1. client' \in [Dispatchers -> Clients]
    BY <1>8, GoesType DEF StreamEnds
  <2>2. verdict' \in [Requests -> [Targets -> Verdict]]
    <3>1. CASE UNCHANGED verdict
      BY <1>a, <3>1
    <3>2. CASE Canceled(client[k].request)
      BY <1>a, <3>2 DEF Canceled, CancelAt, Verdict
    <3> QED
      BY <1>8, <3>1, <3>2 DEF StreamEnds
  <2> QED
    BY <1>8, <1>a, <2>1, <2>2 DEF StreamEnds, CommandTypes
<1>9. ASSUME NEW k \in Dispatchers, ResultLookedUp(k) PROVE CommandTypes'
  BY <1>9, <1>a, GoesType DEF ResultLookedUp, CommandTypes
<1>10. ASSUME NEW r \in Requests, NEW t \in Targets, Ends(r, t) PROVE CommandTypes'
  <2>1. PICK v \in Verdict : verdict' = [verdict EXCEPT ![r][t] = v]
    BY <1>10 DEF Ends, Verdict
  <2> QED
    BY <1>10, <1>a, <2>1 DEF Ends, CommandTypes
<1>11. CASE Restarts
  <2>1. call' \in [Dispatchers -> Calls]
    BY <1>11, <1>a, ToldType DEF Restarts
  <2> QED
    BY <1>11, <1>a, <2>1 DEF Restarts, CommandTypes
<1> QED
  BY <1>1, <1>2, <1>3, <1>4, <1>5, <1>7, <1>8, <1>9, <1>10, <1>11
     DEF BuildNext, TargetsChange, Reports, buildVars

LEMMA CommandTypesStart == BuildInit => CommandTypes
BY DEF BuildInit, CommandTypes, Unstarted, Unused, Verdict, Clients, Calls

\* The types hold of commands, calls and verdicts too.
THEOREM CoordinatedBuildTypes == BuildSpec => []BuildTypeOK
<1>1. TypeInv /\ CommandTypes => BuildTypeOK
  BY DEF TypeInv, CommandTypes, BuildTypeOK, Verdict, Clients, Calls
<1>2. BuildInit => Init
  BY DEF BuildInit
<1> QED
  BY <1>1, <1>2, BuildStepsAreSteps, TypeStarts, TypeKept, CommandTypesStart, CommandTypesKept, PTL DEF BuildSpec

-----------------------------------------------------------------------------
(***************************************************************************)
(* Success.  A verdict is about a build that ended and stays; a record     *)
(* stays (ResultsStay); so what a command saw when it succeeded is so for  *)
(* ever.                                                                   *)
(***************************************************************************)
VerdictsEnded ==
  \A r \in Requests, t \in Targets : verdict[r][t] \in {"passed", "failed", "canceled"} => fate[r][t] = "ended"
CommandsHaveRequests == \A k \in Dispatchers : client[k].at # "idle" => client[k].request \in Requests

SuccessInv == VerdictsEnded /\ CommandsHaveRequests /\ SuccessOnRecord

\* A cancel changes a verdict only while the build runs, its end only when it ends.
LEMMA VerdictMoves ==
  ASSUME TypeInv, CommandTypes, [BuildNext]_buildVars, NEW r \in Requests, NEW t \in Targets
  PROVE  \/ verdict'[r][t] = verdict[r][t]
         \/ fate[r][t] = "running" /\ verdict'[r][t] = "canceling"
         \/ fate[r][t] = "running" /\ fate'[r][t] = "ended"
<1> DEFINE Goal == \/ verdict'[r][t] = verdict[r][t]
                   \/ fate[r][t] = "running" /\ verdict'[r][t] = "canceling"
                   \/ fate[r][t] = "running" /\ fate'[r][t] = "ended"
<1>a. verdict \in [Requests -> [Targets -> Verdict]] /\ fate \in [Requests -> [Targets -> Fates]]
  BY DEF CommandTypes, TypeInv, TypeOK, Fates
<1>1. ASSUME NEW q, NEW u, CancelAt(q, u) PROVE Goal
  BY <1>1, <1>a DEF CancelAt
<1>2. ASSUME NEW q \in Requests, NEW u \in Targets, Ends(q, u) PROVE Goal
  BY <1>2, <1>a DEF Ends, BuildEnds
<1>3. ASSUME UNCHANGED verdict PROVE Goal
  BY <1>3
<1> HIDE DEF Goal
<1>4. ASSUME NEW q, Canceled(q) PROVE Goal
  BY <1>1, <1>3, <1>4 DEF Canceled
<1>5. ASSUME NEW k \in Dispatchers,
             \/ \E q \in Requests : Post(k, q)
             \/ Dispatch(k) \/ Reconnected(k) \/ Expected(k) \/ StreamEnds(k) \/ ResultLookedUp(k)
      PROVE  Goal
  BY <1>1, <1>3, <1>4, <1>5 DEF Post, Dispatch, Reconnected, Expected, StreamEnds, ResultLookedUp
<1>6. Goal
  BY <1>2, <1>3, <1>4, <1>5 DEF BuildNext, TargetsChange, CancelDispatch, Reports, Restarts, buildVars
<1> QED
  BY <1>6 DEF Goal

\* A command takes up its request once, and succeeds only by looking at the record.
LEMMA CommandMoves ==
  ASSUME CommandTypes, [BuildNext]_buildVars, NEW k \in Dispatchers
  PROVE  \/ client'[k] = client[k]
         \/ client'[k].at = "reading" /\ client'[k].request \in Requests
         \/ /\ client[k].at # "idle" /\ client'[k].request = client[k].request
            /\ client'[k].at = "passed" => Passed(client[k].request) /\ UNCHANGED <<vars, verdict>>
<1> DEFINE Goal == \/ client'[k] = client[k]
                   \/ client'[k].at = "reading" /\ client'[k].request \in Requests
                   \/ /\ client[k].at # "idle" /\ client'[k].request = client[k].request
                      /\ client'[k].at = "passed" => Passed(client[k].request) /\ UNCHANGED <<vars, verdict>>
<1> USE DEF clientVars
<1>a. client \in [Dispatchers -> Clients]
  BY DEF CommandTypes
<1>1. ASSUME NEW c \in Dispatchers, NEW r \in Requests, Post(c, r) PROVE Goal
  BY <1>1, <1>a DEF Post, Unstarted
<1>2. ASSUME NEW c \in Dispatchers, NEW where, Goes(c, where), client[c].at # "idle",
             where = "passed" => Passed(client[c].request) /\ UNCHANGED <<vars, verdict>>
      PROVE  Goal
  BY <1>2, <1>a DEF Goes, Clients
<1>3. ASSUME UNCHANGED client PROVE Goal
  BY <1>3
<1> HIDE DEF Goal
<1>4. ASSUME NEW c \in Dispatchers, StreamEnds(c) PROVE Goal
  BY <1>2, <1>4 DEF StreamEnds
<1>5. ASSUME NEW c \in Dispatchers, ResultLookedUp(c) PROVE Goal
  <2>1. client[c].at # "idle" /\ UNCHANGED <<vars, verdict>>
    BY <1>5 DEF ResultLookedUp
  <2>2. \/ Goes(c, "failed")
        \/ Passed(client[c].request) /\ Goes(c, "passed")
    BY <1>5 DEF ResultLookedUp
  <2> QED
    BY <1>2, <2>1, <2>2
<1>6. Goal
  BY <1>1, <1>3, <1>4, <1>5
     DEF BuildNext, TargetsChange, Dispatch, Reconnected, Expected, CancelDispatch, Ends, Reports, Restarts, buildVars
<1> QED
  BY <1>6 DEF Goal

LEMMA SuccessKept ==
  ASSUME KeepsRecords
  PROVE  TypeInv /\ CommandTypes /\ RecordInv /\ SuccessInv /\ [BuildNext]_buildVars => SuccessInv'
<1> SUFFICES ASSUME TypeInv, CommandTypes, RecordInv, SuccessInv, [BuildNext]_buildVars PROVE SuccessInv'
  OBVIOUS
<1>a. [Next]_vars
  BY BuildStepsAreSteps
<1>b. results \in [Requests -> Targets \cup {None}]
  BY DEF TypeInv, TypeOK
<1>1. VerdictsEnded'
  BY <1>a, VerdictMoves, ReportsMove DEF SuccessInv, VerdictsEnded
<1>2. CommandsHaveRequests'
  BY CommandMoves DEF SuccessInv, CommandsHaveRequests
<1>3. SuccessOnRecord'
  <2> SUFFICES ASSUME NEW k \in Dispatchers, client'[k].at = "passed"
               PROVE  LET r == client'[k].request IN results'[r] # None /\ verdict'[r][results'[r]] = "passed"
    BY DEF SuccessOnRecord
  <2>1. /\ client[k].at # "idle" /\ client'[k].request = client[k].request
        /\ Passed(client[k].request)
    BY CommandMoves DEF SuccessInv, SuccessOnRecord, Passed
  <2>2. PICK r \in Requests : r = client[k].request /\ r = client'[k].request
    BY <2>1 DEF SuccessInv, CommandsHaveRequests
  <2>3. PICK t \in Targets : t = results[r] /\ verdict[r][t] = "passed"
    BY <1>b, <2>1, <2>2 DEF Passed
  <2>4. fate[r][t] = "ended"
    BY <2>3 DEF SuccessInv, VerdictsEnded
  <2>5. results[r] # None /\ results'[r] = t
    BY <1>a, <2>3, ResultsStay
  <2>6. verdict'[r][t] = "passed"
    BY <2>3, <2>4, VerdictMoves
  <2> QED
    BY <2>2, <2>3, <2>5, <2>6
<1> QED
  BY <1>1, <1>2, <1>3 DEF SuccessInv

LEMMA SuccessStarts == BuildInit => SuccessInv
BY DEF BuildInit, SuccessInv, VerdictsEnded, CommandsHaveRequests, SuccessOnRecord, Unstarted

\* A command succeeds only while a passed build of its request is on record, and
\* that record is there for good: for any number of commands, cancels, reconnections
\* and late reports, and through restarts if the state file is written.
THEOREM SuccessIsOnRecord == ASSUME KeepsRecords PROVE BuildSpec => []SuccessOnRecord
<1>1. SuccessInv => SuccessOnRecord
  BY DEF SuccessInv
<1>2. BuildInit => Init
  BY DEF BuildInit
<1> QED
  BY <1>1, <1>2, BuildStepsAreSteps, TypeStarts, TypeKept, RecordStarts, RecordKept, CommandTypesStart,
     CommandTypesKept, SuccessStarts, SuccessKept, PTL DEF BuildSpec

=============================================================================
