--------------------------- MODULE AgentRunProofs ---------------------------
(***************************************************************************)
(* What the life of a runner process keeps to, for any mode of the tunnel, *)
(* any patience and any number of late posts: the types of what its        *)
(* goroutines share, and that a deregistration is the last word.           *)
(***************************************************************************)
EXTENDS AgentRun, TLAPS

USE AgentAssumption

-----------------------------------------------------------------------------
\* What readinessMonitor has read is there when it comes back from its lookup.
Read == monitor.at = "looking" => monitor.copy \in Readings

TypeInv == TypeOK /\ Read

MonitorStates ==
  [at : {"off", "ticking", "looking", "ended"}, copy : Readings \cup {None},
   successes : 0..Required, reads : {0}]
JoinerStates ==
  [at : {"off", "ticking", "looking", "resting", "joining", "retrying", "posting", "joined", "gone"},
   copy : Statuses \cup {None}, successes : 0..(Required - 1), reads : 0..Patience]

LEMMA RequiredSuccesses == Required \in Nat /\ Required >= 1
BY DEF Required

\* Every state a goroutine or the tunnel is put into is one of its states.
LEMMA FreshStates ==
  /\ \A state \in {"stopped", "disabled", "running", "failed"} : Status(state) \in Statuses
  /\ \A where \in {"off", "ticking", "ended"} : [Idle EXCEPT !.at = where] \in MonitorStates
  /\ \A where \in {"off", "ticking", "resting", "joining", "retrying", "posting", "joined", "gone"} :
       [Idle EXCEPT !.at = where] \in JoinerStates
  /\ Idle \in MonitorStates /\ Idle \in JoinerStates /\ JoinerGone \in JoinerStates
<1>1. 0 \in 0..Required /\ 0 \in 0..(Required - 1) /\ 0 \in 0..Patience
  BY RequiredSuccesses
<1>2. Idle \in MonitorStates /\ Idle \in JoinerStates
  BY <1>1 DEF Idle, MonitorStates, JoinerStates
<1>3. \A where \in {"off", "ticking", "ended"} : [Idle EXCEPT !.at = where] \in MonitorStates
  BY <1>1 DEF Idle, MonitorStates
<1>4. \A where \in {"off", "ticking", "resting", "joining", "retrying", "posting", "joined", "gone"} :
        [Idle EXCEPT !.at = where] \in JoinerStates
  BY <1>1 DEF Idle, JoinerStates
<1>5. \A state \in {"stopped", "disabled", "running", "failed"} : Status(state) \in Statuses
  BY DEF Status, Statuses, Reasons
<1> QED
  BY <1>2, <1>3, <1>4, <1>5 DEF JoinerGone

\* The updates of the tunnel's status.
LEMMA StatusUpdates ==
  ASSUME NEW status \in Statuses
  PROVE  /\ Ready(status) \in Statuses
         /\ \A reason \in Reasons : NotReady(status, reason) \in Statuses
         /\ [status EXCEPT !.url = TRUE, !.ready = FALSE] \in Statuses
         /\ [status EXCEPT !.connected = TRUE] \in Statuses
         /\ [status EXCEPT !.state = "stopped", !.connected = FALSE, !.ready = FALSE] \in Statuses
         /\ [status EXCEPT !.state = "failed", !.ready = FALSE] \in Statuses
         /\ status.ready \in BOOLEAN /\ status.reason \in Reasons
BY DEF Ready, NotReady, Statuses, Reasons

LEMMA ReasonTypes == \A status, resolved : Reason(status, resolved) \in Reasons
BY DEF Reason, Reasons

\* What the types are made of, in the shape the steps need.
Shared ==
  /\ mode \in Modes /\ stopped \in BOOLEAN /\ resolves \in BOOLEAN /\ revived \in BOOLEAN
  /\ main \in {"starting", "registering", "serving", "leaving", "draining", "unhooking",
               "deregistering", "deregistered", "returned"}
  /\ changes \in 0..MaxChanges

Tunnelled ==
  /\ tunnel \in Statuses /\ child \in {"none", "running", "exited"}
  /\ monitor \in MonitorStates /\ Read

Joining == joiner \in JoinerStates

Posted ==
  /\ heartbeat \in {"off", "waiting", "posting", "ended"}
  /\ post \in [Posters -> Posts \cup {None}]
  /\ late \subseteq Posts
  /\ target \in [accepting : BOOLEAN] \cup {None}

LEMMA TypeParts == TypeInv <=> Shared /\ Tunnelled /\ Joining /\ Posted
BY DEF TypeInv, TypeOK, Shared, Tunnelled, Joining, Posted, MonitorStates, JoinerStates

-----------------------------------------------------------------------------
LEMMA SharedStep == Shared /\ [Next]_vars => Shared' /\ mode' = mode
<1> SUFFICES ASSUME Shared, [Next]_vars PROVE Shared' /\ mode' = mode
  OBVIOUS
<1> USE DEF Shared, tunnelVars, postVars, world
<1>1. CASE TunnelNext
  BY <1>1 DEF TunnelNext, TunnelStarts, TunnelStartFails, Returns, UrlScanned, ConnectionScanned, ChildExits
<1>2. CASE MonitorNext \/ JoinerNext \/ HeartbeatNext
  BY <1>2 DEF MonitorNext, MonitorReads, MonitorLooks, MonitorEnds, JoinerNext, JoinerReads, JoinerLooks,
     JoinerRests, JoinerPosts, HeartbeatNext, HeartbeatPosts, HeartbeatEnds
<1>3. ASSUME NEW p \in Posters, PostArrives(p) \/ PostSucceeds(p) \/ PostFails(p) PROVE Shared' /\ mode' = mode
  BY <1>3 DEF Posters, PostArrives, PostSucceeds, PostFails, Continues, Returns
<1>4. CASE MainNext
  BY <1>4 DEF MainNext, Registered, NotRegistered, ServingEnds, Drained, Returns, Unhooked, DeregisterPosts
<1>5. CASE LateArrives
  BY <1>5 DEF LateArrives
<1>6. CASE DeregistrationTimesOut \/ Signal \/ ServerFails
  BY <1>6 DEF DeregistrationTimesOut, Returns, Signal, ServerFails
<1>7. CASE NameChanges
  BY <1>7 DEF NameChanges
<1>8. CASE UNCHANGED vars
  BY <1>8 DEF vars
<1> QED
  BY <1>1, <1>2, <1>3, <1>4, <1>5, <1>6, <1>7, <1>8 DEF Next, PostNext

\* The states the goroutines can be in do not change with the step.
LEMMA SameStates ==
  ASSUME mode' = mode
  PROVE  MonitorStates' = MonitorStates /\ JoinerStates' = JoinerStates /\ Required' = Required
BY DEF MonitorStates, JoinerStates, Required, NeedsProcess

\* Run returns, and everything it started is back where it was.
LEMMA ReturnTypes ==
  ASSUME NEW as, Returns(as)
  PROVE  /\ tunnel' \in Statuses /\ child' = "none" /\ monitor' \in MonitorStates /\ monitor'.at = "off"
         /\ joiner' \in JoinerStates /\ heartbeat' = "off"
BY FreshStates DEF Returns, Idle

LEMMA TunnelledStep ==
  ASSUME TypeInv, [Next]_vars PROVE Tunnelled'
<1>1. /\ Shared /\ Tunnelled /\ Joining /\ mode' = mode /\ mode \in Modes
  BY TypeParts, SharedStep DEF Shared
<1>2. MonitorStates' = MonitorStates /\ Statuses' = Statuses /\ Readings' = Readings
  BY <1>1, SameStates DEF Statuses, Readings
<1>3. CASE UNCHANGED tunnelVars
  BY <1>1, <1>2, <1>3 DEF Tunnelled, tunnelVars, Read
<1>4. ASSUME tunnel' \in Statuses, UNCHANGED <<child, monitor>> PROVE Tunnelled'
  BY <1>1, <1>2, <1>4 DEF Tunnelled, Read
<1>5. ASSUME NEW as, Returns(as) PROVE Tunnelled'
  BY <1>2, <1>5, ReturnTypes DEF Tunnelled, Read
<1>6. CASE TunnelStarts
  <2>1. tunnel' \in Statuses /\ child' \in {"none", "running", "exited"}
    BY <1>1, <1>6, FreshStates DEF TunnelStarts, Tunnelled
  <2>2. monitor' \in MonitorStates /\ (monitor'.at = "looking" => monitor'.copy \in Readings)
    <3>1. CASE monitor' = [Idle EXCEPT !.at = "ticking"]
      <4>1. monitor'.at = "ticking"
        BY <3>1 DEF Idle
      <4> QED
        BY <3>1, <4>1, FreshStates
    <3>2. CASE UNCHANGED monitor
      BY <1>1, <3>2 DEF Tunnelled, Read
    <3> QED
      BY <1>6, <3>1, <3>2 DEF TunnelStarts
  <2> QED
    BY <1>2, <2>1, <2>2 DEF Tunnelled, Read
<1>7. CASE UrlScanned \/ ConnectionScanned
  <2>1. tunnel \in Statuses
    BY <1>1 DEF Tunnelled
  <2> QED
    BY <1>4, <1>7, <2>1, StatusUpdates DEF UrlScanned, ConnectionScanned
<1>8. ASSUME NEW failed \in BOOLEAN, ChildExits(failed) PROVE Tunnelled'
  <2>1. tunnel \in Statuses
    BY <1>1 DEF Tunnelled
  <2>2. tunnel' \in Statuses /\ child' = "exited" /\ UNCHANGED monitor
    BY <1>8, <2>1, StatusUpdates DEF ChildExits
  <2> QED
    BY <1>1, <1>2, <2>2 DEF Tunnelled, Read
<1>9. CASE MonitorReads
  <2>1. tunnel \in Statuses /\ monitor \in MonitorStates
    BY <1>1 DEF Tunnelled
  <2> DEFINE copy == [fault |-> Reason(tunnel, TRUE), ready |-> tunnel.ready, reason |-> tunnel.reason]
  <2>2. copy \in Readings
    BY <2>1, ReasonTypes, StatusUpdates DEF Readings
  <2>3. monitor' = [monitor EXCEPT !.at = "looking", !.copy = copy]
    BY <1>9 DEF MonitorReads
  <2> HIDE DEF copy
  <2>4. monitor' \in MonitorStates /\ monitor'.copy = copy
    BY <2>1, <2>2, <2>3 DEF MonitorStates
  <2>5. UNCHANGED <<tunnel, child>>
    BY <1>9 DEF MonitorReads
  <2> QED
    BY <1>1, <1>2, <2>2, <2>4, <2>5 DEF Tunnelled, Read
<1>10. CASE MonitorLooks
  <2> DEFINE copy == monitor.copy
             reason == IF copy.fault = "none" /\ ~Resolved THEN "unresolved" ELSE copy.fault
             successes == IF reason = "none" THEN Least(monitor.successes + 1, Required) ELSE 0
             where == IF copy.fault = "not running" THEN "ended" ELSE "ticking"
  <2>1. tunnel \in Statuses /\ monitor \in MonitorStates /\ copy \in Readings
    BY <1>1, <1>10 DEF Tunnelled, Read, MonitorLooks
  <2>2. reason \in Reasons
    BY <2>1 DEF Readings, Reasons
  <2>3. successes \in 0..Required
    <3>1. monitor.successes \in 0..Required
      BY <2>1 DEF MonitorStates
    <3> QED
      BY <3>1, RequiredSuccesses DEF Least
  <2>4. /\ tunnel' \in {tunnel, Ready(tunnel), NotReady(tunnel, reason)} /\ UNCHANGED child
        /\ monitor' = [Idle EXCEPT !.at = where, !.successes = successes]
    BY <1>10 DEF MonitorLooks
  <2>5. where \in {"ended", "ticking"}
    OBVIOUS
  <2> HIDE DEF copy, reason, successes, where
  <2>6. tunnel' \in Statuses
    BY <2>1, <2>2, <2>4, StatusUpdates
  <2>7. monitor' \in MonitorStates /\ monitor'.at = where
    BY <2>3, <2>4, <2>5 DEF MonitorStates, Idle
  <2> QED
    BY <1>1, <1>2, <2>4, <2>5, <2>6, <2>7 DEF Tunnelled, Read
<1>11. CASE MonitorEnds
  <2>1. monitor' = [Idle EXCEPT !.at = "ended"] /\ UNCHANGED <<tunnel, child>>
    BY <1>11 DEF MonitorEnds
  <2>2. monitor' \in MonitorStates /\ monitor'.at = "ended"
    BY <2>1, FreshStates DEF Idle
  <2> QED
    BY <1>1, <1>2, <2>1, <2>2 DEF Tunnelled, Read
<1>12. CASE JoinerLooks
  <2>1. tunnel \in Statuses
    BY <1>1 DEF Tunnelled
  <2>2. tunnel' \in Statuses
    <3> DEFINE reason == Reason(joiner.copy, Resolved /\ ~JoinerStopped)
    <3>1. tunnel' \in {tunnel, Ready(tunnel), NotReady(tunnel, reason)}
      BY <1>12 DEF JoinerLooks
    <3>2. reason \in Reasons
      BY ReasonTypes
    <3> QED
      BY <2>1, <3>1, <3>2, StatusUpdates
  <2>3. UNCHANGED <<child, monitor>>
    BY <1>12 DEF JoinerLooks
  <2> QED
    BY <1>4, <2>2, <2>3
<1>13. CASE TunnelStartFails \/ DeregistrationTimesOut
  BY <1>5, <1>13 DEF TunnelStartFails, DeregistrationTimesOut
<1>14. CASE JoinerReads \/ JoinerRests \/ JoinerPosts \/ HeartbeatNext
  BY <1>3, <1>14 DEF JoinerReads, JoinerRests, JoinerPosts, HeartbeatNext, HeartbeatPosts, HeartbeatEnds
<1>15. CASE MainNext
  BY <1>3, <1>5, <1>15 DEF MainNext, Registered, NotRegistered, ServingEnds, Drained, Unhooked, DeregisterPosts
<1>16. ASSUME NEW p \in Posters, PostArrives(p) \/ PostSucceeds(p) \/ PostFails(p) PROVE Tunnelled'
  BY <1>3, <1>5, <1>16 DEF Posters, PostArrives, PostSucceeds, PostFails, Continues
<1>17. CASE LateArrives \/ Signal \/ ServerFails \/ NameChanges \/ UNCHANGED vars
  BY <1>3, <1>17 DEF LateArrives, Signal, ServerFails, NameChanges, vars
<1> QED
  BY <1>6, <1>7, <1>8, <1>9, <1>10, <1>11, <1>12, <1>13, <1>14, <1>15, <1>16, <1>17
     DEF Next, TunnelNext, MonitorNext, JoinerNext, PostNext

LEMMA JoiningStep ==
  ASSUME TypeInv, [Next]_vars PROVE Joining'
<1>1. /\ Shared /\ Tunnelled /\ Joining /\ mode' = mode
  BY TypeParts, SharedStep
<1>2. JoinerStates' = JoinerStates
  BY <1>1, SameStates
<1>3. CASE UNCHANGED joiner
  BY <1>1, <1>2, <1>3 DEF Joining
<1>4. ASSUME joiner' \in JoinerStates PROVE Joining'
  BY <1>2, <1>4 DEF Joining
<1>5. ASSUME NEW as, Returns(as) PROVE Joining'
  BY <1>4, <1>5, ReturnTypes
<1>6. CASE TunnelStarts \/ JoinerRests \/ JoinerPosts
  BY <1>4, <1>6, FreshStates DEF TunnelStarts, JoinerRests, JoinerPosts
<1>7. CASE JoinerReads
  <2>1. CASE UNCHANGED joiner \/ joiner' = JoinerGone \/ joiner' = [Idle EXCEPT !.at = "resting"]
    BY <1>3, <1>4, <2>1, FreshStates
  <2>2. CASE ~(joiner.reads >= Patience) /\ joiner' = [joiner EXCEPT !.at = "looking", !.copy = tunnel, !.reads = @ + 1]
    <3>1. joiner.reads + 1 \in 0..Patience
      BY <1>1, <2>2 DEF Joining, JoinerStates
    <3>2. tunnel \in Statuses
      BY <1>1 DEF Tunnelled
    <3>3. joiner' \in JoinerStates
      BY <1>1, <2>2, <3>1, <3>2 DEF Joining, JoinerStates
    <3> QED
      BY <1>4, <3>3
  <2> QED
    BY <1>7, <2>1, <2>2 DEF JoinerReads
<1>8. CASE JoinerLooks
  <2> DEFINE reason == Reason(joiner.copy, Resolved /\ ~JoinerStopped)
             successes == IF reason = "none" THEN joiner.successes + 1 ELSE 0
             where == IF joiner.copy.state = "failed" THEN "resting" ELSE "ticking"
             again(n) == [joiner EXCEPT !.at = where, !.copy = None, !.successes = n]
  <2>1. joiner.successes \in 0..(Required - 1)
    BY <1>1 DEF Joining, JoinerStates
  <2>2. successes >= Required \/ successes \in 0..(Required - 1)
    BY <2>1, RequiredSuccesses
  <2>3. \/ joiner' = [Idle EXCEPT !.at = "joining"]
        \/ \E n \in {0, successes} : ~(successes >= Required) /\ joiner' = again(n)
    BY <1>8 DEF JoinerLooks
  <2>4. ASSUME NEW n \in 0..(Required - 1) PROVE again(n) \in JoinerStates
    <3>1. where \in {"resting", "ticking"}
      OBVIOUS
    <3> HIDE DEF where
    <3> QED
      BY <1>1, <3>1 DEF Joining, JoinerStates
  <2>5. 0 \in 0..(Required - 1)
    BY RequiredSuccesses
  <2> HIDE DEF successes, again
  <2>6. joiner' \in JoinerStates
    BY <2>2, <2>3, <2>4, <2>5, FreshStates
  <2> QED
    BY <1>4, <2>6
<1>9. CASE TunnelStartFails \/ DeregistrationTimesOut
  BY <1>5, <1>9 DEF TunnelStartFails, DeregistrationTimesOut
<1>10. CASE UrlScanned \/ ConnectionScanned \/ (\E failed \in BOOLEAN : ChildExits(failed)) \/ MonitorNext \/ HeartbeatNext
  BY <1>3, <1>10 DEF UrlScanned, ConnectionScanned, ChildExits, MonitorNext, MonitorReads, MonitorLooks,
     MonitorEnds, HeartbeatNext, HeartbeatPosts, HeartbeatEnds
<1>11. CASE MainNext
  BY <1>3, <1>5, <1>11 DEF MainNext, Registered, NotRegistered, ServingEnds, Drained, Unhooked, DeregisterPosts
<1>12. ASSUME NEW p \in Posters, PostArrives(p) PROVE Joining'
  BY <1>3, <1>12 DEF PostArrives
<1>13. ASSUME NEW p \in Posters, NEW ok \in BOOLEAN, Continues(p, ok) PROVE Joining'
  BY <1>3, <1>4, <1>5, <1>13, FreshStates DEF Posters, Continues
<1>14. CASE LateArrives \/ Signal \/ ServerFails \/ NameChanges \/ UNCHANGED vars
  BY <1>3, <1>14 DEF LateArrives, Signal, ServerFails, NameChanges, vars
<1> QED
  BY <1>6, <1>7, <1>8, <1>9, <1>10, <1>11, <1>12, <1>13, <1>14
     DEF Next, TunnelNext, JoinerNext, PostNext, PostSucceeds, PostFails

\* A post tells of a load, and leaves CI with it or without the runner.
LEMMA SentTypes ==
  ASSUME post \in [Posters -> Posts \cup {None}], tunnel \in Statuses, NEW p \in Posters,
         NEW action \in {"register", "heartbeat", "deregister"}, Sent(p, action)
  PROVE  post' \in [Posters -> Posts \cup {None}]
<1> DEFINE sent == [action |-> action, accepting |-> ~NeedsProcess \/ tunnel.ready, arrived |-> FALSE]
<1>1. (~NeedsProcess \/ tunnel.ready) \in BOOLEAN
  OBVIOUS
<1>2. sent \in Posts
  BY <1>1 DEF Posts
<1>3. post' = [post EXCEPT ![p] = sent]
  BY DEF Sent
<1> HIDE DEF sent
<1> QED
  BY <1>2, <1>3

LEMMA EffectTypes ==
  \A sent \in Posts : /\ Effect(sent) \in [accepting : BOOLEAN] \cup {None}
                      /\ [sent EXCEPT !.arrived = TRUE] \in Posts
BY DEF Effect, Posts

LEMMA PostedStep ==
  ASSUME TypeInv, [Next]_vars PROVE Posted'
<1>1. /\ Shared /\ Tunnelled /\ Posted /\ tunnel \in Statuses
  BY TypeParts DEF Tunnelled
<1> USE <1>1 DEF postVars
<1>2. CASE UNCHANGED <<heartbeat, postVars>>
  BY <1>2 DEF Posted
<1>3. ASSUME NEW as, Returns(as) PROVE heartbeat' = "off"
  BY <1>3 DEF Returns
<1>4. CASE TunnelNext \/ MonitorNext
  BY <1>2, <1>3, <1>4 DEF TunnelNext, TunnelStarts, TunnelStartFails, UrlScanned, ConnectionScanned, ChildExits,
     MonitorNext, MonitorReads, MonitorLooks, MonitorEnds, Posted
<1>5. CASE JoinerReads \/ JoinerRests \/ JoinerLooks
  BY <1>2, <1>5 DEF JoinerReads, JoinerRests, JoinerLooks
<1>6. ASSUME NEW p \in Posters, NEW action \in {"register", "heartbeat", "deregister"}, Sent(p, action),
             heartbeat' \in {heartbeat, "posting"}, UNCHANGED <<late, target>>
      PROVE  Posted'
  <2>1. post' \in [Posters -> Posts \cup {None}]
    BY <1>6, SentTypes DEF Posted
  <2> QED
    BY <1>6, <2>1 DEF Posted
<1>7. CASE JoinerPosts
  <2>1. CASE UNCHANGED post
    BY <1>2, <1>7, <2>1 DEF JoinerPosts
  <2>2. CASE Sent("joiner", "register")
    BY <1>6, <1>7, <2>2 DEF JoinerPosts, Posters
  <2> QED
    BY <1>7, <2>1, <2>2 DEF JoinerPosts
<1>8. CASE HeartbeatPosts
  BY <1>6, <1>8 DEF HeartbeatPosts, Posters
<1>9. CASE HeartbeatEnds
  BY <1>9 DEF HeartbeatEnds, Posted
<1>10. CASE DeregisterPosts
  BY <1>6, <1>10 DEF DeregisterPosts, Posters
<1>11. CASE Registered \/ NotRegistered \/ ServingEnds \/ Drained \/ Unhooked
  BY <1>2, <1>3, <1>11 DEF Registered, NotRegistered, ServingEnds, Drained, Unhooked, Posted
<1>12. ASSUME NEW p \in Posters, PostArrives(p) PROVE Posted'
  <2>1. post[p] \in Posts
    BY <1>12 DEF PostArrives, Flying, Posted
  <2>2. /\ target' \in [accepting : BOOLEAN] \cup {None}
        /\ [post[p] EXCEPT !.arrived = TRUE] \in Posts
    BY <1>12, <2>1, EffectTypes DEF PostArrives
  <2>3. post' = [post EXCEPT ![p] = [post[p] EXCEPT !.arrived = TRUE]] /\ UNCHANGED <<heartbeat, late>>
    BY <1>12 DEF PostArrives, Posted
  <2> QED
    BY <2>2, <2>3 DEF Posted
<1>13. ASSUME NEW p \in Posters, NEW ok \in BOOLEAN, Continues(p, ok),
              post' = [post EXCEPT ![p] = None], late' \subseteq Posts
       PROVE  Posted'
  <2>1. heartbeat' \in {"off", "waiting", "posting", "ended"} /\ UNCHANGED target
    BY <1>3, <1>13 DEF Posters, Continues, Posted
  <2> QED
    BY <1>13, <2>1 DEF Posted
<1>14. ASSUME NEW p \in Posters, PostSucceeds(p) PROVE Posted'
  BY <1>13, <1>14 DEF PostSucceeds, Posted
<1>15. ASSUME NEW p \in Posters, PostFails(p) PROVE Posted'
  <2>1. post[p] \in Posts
    BY <1>15 DEF PostFails, Flying, Posted
  <2> QED
    BY <1>13, <1>15, <2>1 DEF PostFails, Posted
<1>16. CASE LateArrives
  <2>1. PICK sent \in late : target' = Effect(sent) /\ late' = late \ {sent}
    BY <1>16 DEF LateArrives
  <2>2. target' \in [accepting : BOOLEAN] \cup {None}
    BY <2>1, EffectTypes DEF Posted
  <2> QED
    BY <1>16, <2>1, <2>2 DEF LateArrives, Posted
<1>17. CASE DeregistrationTimesOut \/ Signal \/ ServerFails \/ NameChanges \/ UNCHANGED vars
  BY <1>2, <1>3, <1>17 DEF DeregistrationTimesOut, Signal, ServerFails, NameChanges, vars, Posted
<1> QED
  BY <1>4, <1>5, <1>7, <1>8, <1>9, <1>10, <1>11, <1>12, <1>14, <1>15, <1>16, <1>17
     DEF Next, JoinerNext, HeartbeatNext, MainNext, PostNext

LEMMA TypeStarts == Init => TypeInv
<1> SUFFICES ASSUME Init PROVE TypeInv
  OBVIOUS
<1>1. Shared
  <2>1. changes \in 0..MaxChanges
    BY DEF Init
  <2>2. stopped \in BOOLEAN /\ resolves \in BOOLEAN /\ revived \in BOOLEAN
    BY DEF Init
  <2>3. mode \in Modes /\ main = "starting"
    BY DEF Init
  <2> QED
    BY <2>1, <2>2, <2>3 DEF Shared
<1>2. Tunnelled
  <2>1. tunnel \in Statuses /\ monitor \in MonitorStates
    BY FreshStates DEF Init
  <2> QED
    BY <2>1 DEF Init, Tunnelled, Read, Idle
<1>3. Joining
  BY FreshStates DEF Init, Joining
<1>4. Posted
  BY DEF Init, Posted
<1> QED
  BY <1>1, <1>2, <1>3, <1>4, TypeParts

LEMMA TypeKept == TypeInv /\ [Next]_vars => TypeInv'
<1> SUFFICES ASSUME TypeInv, [Next]_vars PROVE TypeInv'
  OBVIOUS
<1>1. Shared' /\ Tunnelled' /\ Joining' /\ Posted'
  BY TypeParts, SharedStep, TunnelledStep, JoiningStep, PostedStep
<1>2. (TypeInv <=> Shared /\ Tunnelled /\ Joining /\ Posted)'
  BY TypeParts, PTL
<1> QED
  BY <1>1, <1>2

\* Whatever tunnel, registration and heartbeat do to the status they share, it
\* and their own states stay within what each of them expects to read.
THEOREM AgentTypes == Spec => []TypeOK
<1>1. TypeInv => TypeOK
  BY DEF TypeInv
<1> QED
  BY <1>1, TypeStarts, TypeKept, PTL DEF Spec

-----------------------------------------------------------------------------
(***************************************************************************)
(* The last word.  While Run runs, a post in flight has its goroutine wait *)
(* for it; registration is over when Run serves, the heartbeat when it     *)
(* deregisters; so nothing of the runner's own can follow what CI answered.*)
(***************************************************************************)
Waiting ==
  Running => /\ Flying("joiner") => joiner.at = "posting"
             /\ Flying("heartbeat") => heartbeat = "posting"

Places ==
  /\ main = "starting" => joiner.at = "off"
  /\ main \in {"starting", "registering"} => heartbeat = "off"
  /\ main \in {"serving", "draining", "unhooking", "deregistering"} => joiner.at = "joined"
  /\ main = "deregistering" => heartbeat = "ended"
  /\ main = "deregistered" => heartbeat = "off" /\ \A p \in Posters : ~Flying(p)

Deregisters ==
  Flying("main") =>
    /\ main \in {"deregistering", "deregistered", "returned"}
    /\ post["main"].action = "deregister"
    /\ main = "deregistering" /\ post["main"].arrived /\ ~revived => target = None

LastInv == Waiting /\ Places /\ Deregisters /\ DeregistrationIsLast

LEMMA LastUntouched ==
  ASSUME LastInv, UNCHANGED <<main, joiner, heartbeat, post, target, revived>> PROVE LastInv'
BY DEF LastInv, Waiting, Places, Deregisters, DeregistrationIsLast, Running, Flying

\* Run's end without a deregistration.
LEMMA LastReturned ==
  ASSUME LastInv, Returns("returned"), UNCHANGED post, Running, main = "deregistering" \/ ~Flying("main")
  PROVE  LastInv'
BY DEF LastInv, Waiting, Places, Deregisters, DeregistrationIsLast, Running, Flying, Returns

\* Registration moves on, and posts only while Run waits for it.
LEMMA JoinerMoves ==
  ASSUME LastInv, UNCHANGED <<main, heartbeat, target, revived>>,
         joiner.at \in {"ticking", "looking", "resting", "joining", "retrying"},
         \/ UNCHANGED post /\ joiner'.at # "posting"
         \/ /\ main = "registering" /\ joiner'.at = "posting"
            /\ \A p \in Posters \ {"joiner"} : post'[p] = post[p]
  PROVE  LastInv'
<1>1. "joiner" # "main" /\ "heartbeat" # "main" /\ "joiner" # "heartbeat"
  OBVIOUS
<1>2. post'["main"] = post["main"] /\ post'["heartbeat"] = post["heartbeat"]
  BY <1>1 DEF Posters
<1>3. Waiting'
  BY <1>2 DEF LastInv, Waiting, Running, Flying
<1>4. Places'
  BY DEF LastInv, Places, Flying
<1>5. Deregisters' /\ DeregistrationIsLast'
  BY <1>2 DEF LastInv, Deregisters, DeregistrationIsLast, Flying
<1> QED
  BY <1>3, <1>4, <1>5 DEF LastInv

\* The heartbeat moves on, and posts only while Run serves or drains.
LEMMA HeartbeatMoves ==
  ASSUME LastInv, UNCHANGED <<main, joiner, target, revived>>, heartbeat = "waiting",
         \/ UNCHANGED post /\ heartbeat' = "ended"
         \/ /\ ~HeartbeatStopped /\ heartbeat' = "posting"
            /\ \A p \in Posters \ {"heartbeat"} : post'[p] = post[p]
  PROVE  LastInv'
<1>1. "joiner" # "main" /\ "heartbeat" # "main" /\ "joiner" # "heartbeat"
  OBVIOUS
<1>2. post'["main"] = post["main"] /\ post'["joiner"] = post["joiner"]
  BY <1>1 DEF Posters
<1>3. Waiting'
  BY <1>2 DEF LastInv, Waiting, Running, Flying
<1>4. Places'
  BY DEF LastInv, Places, Flying, HeartbeatStopped
<1>5. Deregisters' /\ DeregistrationIsLast'
  BY <1>2 DEF LastInv, Deregisters, DeregistrationIsLast, Flying
<1> QED
  BY <1>3, <1>4, <1>5 DEF LastInv

\* CI's answer to a post, while the process lives or after its end.
LEMMA ArrivalKeepsLast ==
  ASSUME LastInv, TypeInv, NEW p \in Posters, PostArrives(p) PROVE LastInv'
<1>1. /\ UNCHANGED <<main, joiner, heartbeat, revived>> /\ Flying(p) /\ target' = Effect(post[p])
      /\ post \in [Posters -> Posts \cup {None}] /\ post' = [post EXCEPT ![p].arrived = TRUE]
  BY DEF PostArrives, TypeInv, TypeOK
<1>2. \A q \in Posters : (Flying(q) => post'[q].action = post[q].action) /\ (q # p => post'[q] = post[q])
  BY <1>1 DEF Posts, Flying
<1>3. main # "deregistered"
  BY <1>1 DEF LastInv, Places
<1>4. Waiting' /\ Places' /\ DeregistrationIsLast'
  BY <1>1, <1>2, <1>3 DEF LastInv, Waiting, Places, DeregistrationIsLast, Running, Flying, Posters
<1>5. Deregisters'
  <2>1. CASE p = "main"
    <3>1. post["main"].action = "deregister" /\ main \in {"deregistering", "deregistered", "returned"}
      BY <1>1, <2>1 DEF LastInv, Deregisters
    <3>2. target' = None
      BY <1>1, <2>1, <3>1 DEF Effect
    <3> QED
      BY <1>1, <1>2, <2>1, <3>1, <3>2 DEF Deregisters, Flying
  <2>2. CASE p # "main"
    <3>1. main # "deregistering"
      BY <1>1, <2>2 DEF LastInv, Waiting, Places, Running, Flying, Posters
    <3> QED
      BY <1>1, <1>2, <2>2, <3>1 DEF LastInv, Deregisters, Flying, Posters
  <2> QED
    BY <2>1, <2>2
<1> QED
  BY <1>4, <1>5 DEF LastInv

\* A goroutine whose post is over goes on.
LEMMA ContinuesKeepsLast ==
  ASSUME LastInv, TypeInv, Running, NEW p \in Posters, NEW ok \in BOOLEAN, Continues(p, ok), Flying(p),
         ok => post[p].arrived, post' = [post EXCEPT ![p] = None]
  PROVE  LastInv'
<1>1. /\ post \in [Posters -> Posts \cup {None}] /\ UNCHANGED <<target, revived>>
      /\ post'[p] = None /\ \A q \in Posters \ {p} : post'[q] = post[q]
  BY DEF TypeInv, TypeOK, Continues
<1>2. "joiner" # "main" /\ "heartbeat" # "main" /\ "joiner" # "heartbeat"
  OBVIOUS
<1>3. CASE p = "joiner"
  <2>1. /\ joiner.at = "posting" /\ UNCHANGED <<main, heartbeat>>
        /\ post'["joiner"] = None /\ post'["heartbeat"] = post["heartbeat"] /\ post'["main"] = post["main"]
    BY <1>1, <1>2, <1>3 DEF LastInv, Waiting, Continues, Posters
  <2>2. main \notin {"starting", "serving", "draining", "unhooking", "deregistering", "deregistered"}
    BY <1>3, <2>1 DEF LastInv, Places, Running
  <2>3. Waiting' /\ Places'
    BY <2>1, <2>2 DEF LastInv, Waiting, Places, Running, Flying
  <2> QED
    BY <1>1, <2>1, <2>2, <2>3 DEF LastInv, Deregisters, DeregistrationIsLast, Flying
<1>4. CASE p = "heartbeat"
  <2>1. /\ heartbeat = "posting" /\ heartbeat' = "waiting" /\ UNCHANGED <<main, joiner>>
        /\ post'["heartbeat"] = None /\ post'["joiner"] = post["joiner"] /\ post'["main"] = post["main"]
    BY <1>1, <1>2, <1>4 DEF LastInv, Waiting, Continues, Posters
  <2>2. main \notin {"starting", "registering", "deregistering", "deregistered"}
    BY <1>4, <2>1 DEF LastInv, Places, Running
  <2>3. Waiting' /\ Places'
    BY <2>1, <2>2 DEF LastInv, Waiting, Places, Running, Flying
  <2> QED
    BY <1>1, <2>1, <2>2, <2>3 DEF LastInv, Deregisters, DeregistrationIsLast, Flying
<1>5. CASE p = "main"
  <2>1. /\ main = "deregistering" /\ post'["main"] = None
        /\ post'["joiner"] = post["joiner"] /\ post'["heartbeat"] = post["heartbeat"]
    BY <1>1, <1>2, <1>5 DEF LastInv, Deregisters, Running, Posters
  <2>2. post["joiner"] = None /\ post["heartbeat"] = None
    BY <2>1 DEF LastInv, Waiting, Places, Running, Flying
  <2>3. CASE ok
    <3>1. main' = "deregistered" /\ heartbeat' = "off"
      BY <1>2, <1>5, <2>3 DEF Continues, Returns
    <3>2. ~revived => target = None
      BY <1>5, <2>1, <2>3 DEF LastInv, Deregisters
    <3>3. \A q \in Posters : post'[q] = None
      BY <2>1, <2>2 DEF Posters
    <3> QED
      BY <1>1, <3>1, <3>2, <3>3
         DEF LastInv, Waiting, Places, Deregisters, DeregistrationIsLast, Running, Flying, Posters
  <2>4. CASE ~ok
    <3>1. UNCHANGED <<main, joiner, heartbeat>>
      BY <1>2, <1>5, <2>4 DEF Continues
    <3> QED
      BY <1>1, <2>1, <2>2, <3>1
         DEF LastInv, Waiting, Places, Deregisters, DeregistrationIsLast, Running, Flying
  <2> QED
    BY <2>3, <2>4
<1> QED
  BY <1>3, <1>4, <1>5 DEF Posters

LEMMA LastKept == LastInv /\ TypeInv /\ [Next]_vars => LastInv'
<1> SUFFICES ASSUME LastInv, TypeInv, [Next]_vars PROVE LastInv'
  OBVIOUS
<1> USE DEF tunnelVars, postVars, world
<1>1. CASE TunnelStarts
  <2>1. /\ main = "starting" /\ main' = "registering" /\ joiner'.at = "ticking"
        /\ UNCHANGED <<heartbeat, post, target, revived>>
    BY <1>1 DEF TunnelStarts, Idle
  <2> QED
    BY <2>1 DEF LastInv, Waiting, Places, Deregisters, DeregistrationIsLast, Running, Flying
<1>2. CASE TunnelStartFails \/ DeregistrationTimesOut
  BY <1>2, LastReturned DEF TunnelStartFails, DeregistrationTimesOut, LastInv, Deregisters, Running
<1>3. CASE UrlScanned \/ ConnectionScanned \/ (\E failed \in BOOLEAN : ChildExits(failed)) \/ MonitorNext
  BY <1>3, LastUntouched DEF UrlScanned, ConnectionScanned, ChildExits, MonitorNext, MonitorReads, MonitorLooks, MonitorEnds
<1>4. CASE JoinerReads \/ JoinerRests
  <2>1. joiner.at \in {"ticking", "resting"} /\ joiner'.at # "posting" /\ UNCHANGED <<main, heartbeat, post, target, revived>>
    <3>1. joiner \in JoinerStates
      BY DEF TypeInv, TypeOK, JoinerStates
    <3> QED
      BY <1>4, <3>1 DEF JoinerReads, JoinerRests, JoinerGone, Idle, JoinerStates
  <2> QED
    BY <2>1, JoinerMoves
<1>5. CASE JoinerLooks
  <2>1. joiner.at = "looking" /\ joiner'.at # "posting" /\ UNCHANGED <<main, heartbeat, post, target, revived>>
    <3>1. joiner \in JoinerStates
      BY DEF TypeInv, TypeOK, JoinerStates
    <3> QED
      BY <1>5, <3>1 DEF JoinerLooks, Idle, JoinerStates
  <2> QED
    BY <2>1, JoinerMoves
<1>6. CASE JoinerPosts
  <2>1. /\ joiner.at \in {"joining", "retrying"} /\ UNCHANGED <<main, heartbeat, target, revived>>
        /\ \/ UNCHANGED post /\ joiner'.at # "posting"
           \/ /\ main = "registering" /\ joiner'.at = "posting"
              /\ \A p \in Posters \ {"joiner"} : post'[p] = post[p]
    BY <1>6 DEF JoinerPosts, JoinerStopped, JoinerGone, Idle, Sent, TypeInv, TypeOK
  <2> QED
    BY <2>1, JoinerMoves
<1>7. CASE HeartbeatPosts \/ HeartbeatEnds
  <2>1. /\ heartbeat = "waiting" /\ UNCHANGED <<main, joiner, target, revived>>
        /\ \/ UNCHANGED post /\ heartbeat' = "ended"
           \/ /\ ~HeartbeatStopped /\ heartbeat' = "posting"
              /\ \A p \in Posters \ {"heartbeat"} : post'[p] = post[p]
    BY <1>7 DEF HeartbeatPosts, HeartbeatEnds, Sent, TypeInv, TypeOK
  <2> QED
    BY <2>1, HeartbeatMoves
<1>8. CASE DeregisterPosts
  <2>1. /\ main = "deregistering" /\ UNCHANGED <<main, joiner, heartbeat, target, revived>>
        /\ post'["main"].action = "deregister" /\ post'["main"].arrived = FALSE
        /\ \A p \in Posters \ {"main"} : post'[p] = post[p]
    BY <1>8 DEF DeregisterPosts, Sent, TypeInv, TypeOK, Posters
  <2>2. post'["joiner"] = post["joiner"] /\ post'["heartbeat"] = post["heartbeat"]
    BY <2>1 DEF Posters
  <2> QED
    BY <2>1, <2>2 DEF LastInv, Waiting, Places, Deregisters, DeregistrationIsLast, Running, Flying
<1>9. ASSUME NEW p \in Posters, PostArrives(p) PROVE LastInv'
  BY <1>9, ArrivalKeepsLast
<1>10. ASSUME NEW p \in Posters, PostSucceeds(p) PROVE LastInv'
  BY <1>10, ContinuesKeepsLast DEF PostSucceeds
<1>11. ASSUME NEW p \in Posters, PostFails(p) PROVE LastInv'
  BY <1>11, ContinuesKeepsLast DEF PostFails
<1>12. CASE LateArrives
  <2>1. /\ UNCHANGED <<main, joiner, heartbeat, post>>
        /\ main \in {"deregistering", "deregistered", "returned"} => revived'
    BY <1>12 DEF LateArrives
  <2> QED
    BY <2>1 DEF LastInv, Waiting, Places, Deregisters, DeregistrationIsLast, Running, Flying
<1>13. CASE Registered \/ NotRegistered \/ ServingEnds \/ ServerFails \/ Unhooked
  <2>1. /\ UNCHANGED <<joiner, post, target, revived>>
        /\ \/ main = "registering" /\ main' = "serving" /\ joiner.at = "joined"
           \/ main = "registering" /\ main' = "leaving" /\ UNCHANGED heartbeat
           \/ main = "serving" /\ main' = "draining" /\ UNCHANGED heartbeat
           \/ main = "unhooking" /\ main' = "deregistering" /\ UNCHANGED heartbeat /\ heartbeat = "ended"
    BY <1>13 DEF Registered, NotRegistered, ServingEnds, ServerFails, Unhooked
  <2>2. main \in {"registering", "serving", "unhooking"} => ~Flying("main")
    BY DEF LastInv, Deregisters
  <2> QED
    BY <2>1, <2>2 DEF LastInv, Waiting, Places, Deregisters, DeregistrationIsLast, Running, Flying
<1>14. CASE Drained
  <2>1. CASE Returns("returned") /\ main = "leaving" /\ UNCHANGED post
    BY <2>1, LastReturned DEF LastInv, Deregisters, Running
  <2>2. CASE main = "draining" /\ main' = "unhooking" /\ UNCHANGED <<joiner, heartbeat, post, target, revived>>
    BY <2>2 DEF LastInv, Waiting, Places, Deregisters, DeregistrationIsLast, Running, Flying
  <2> QED
    BY <1>14, <2>1, <2>2 DEF Drained
<1>15. CASE Signal \/ NameChanges \/ UNCHANGED vars
  BY <1>15, LastUntouched DEF Signal, NameChanges, vars
<1> QED
  BY <1>1, <1>2, <1>3, <1>4, <1>5, <1>6, <1>7, <1>8, <1>9, <1>10, <1>11, <1>12, <1>13, <1>14, <1>15
     DEF Next, TunnelNext, JoinerNext, HeartbeatNext, PostNext, MainNext

\* Once CI has taken a runner's deregistration, the runner stays deregistered,
\* whatever its registration and heartbeat were doing when it was told to end;
\* only a post that was given up before, and arrives late, can revive it.
THEOREM DeregistrationStays == Spec => []DeregistrationIsLast
<1>1. Init => LastInv
  BY DEF Init, LastInv, Waiting, Places, Deregisters, DeregistrationIsLast, Flying, Idle, Posters
<1>2. LastInv => DeregistrationIsLast
  BY DEF LastInv
<1> QED
  BY <1>1, <1>2, TypeStarts, TypeKept, LastKept, PTL DEF Spec

=============================================================================
