------------------------------ MODULE AgentRun ------------------------------
(***************************************************************************)
(* The life of a runner process (Agent.Run in internal/agent/agent.go): it *)
(* starts the tunnel, registers with CI once the tunnel is ready, sends    *)
(* heartbeats while it serves, and deregisters on its way out.             *)
(*                                                                         *)
(* Beside Run's own goroutine there are the tunnel's monitor and its       *)
(* waiter for the child process, the goroutine that waits for readiness    *)
(* and registers, and the heartbeat.  They share the tunnel's status,      *)
(* which monitor and registration read, look up in DNS, and update from    *)
(* what they had read.  What a build queue adds to the load is the subject *)
(* of RunnerRegistration; here the load is whether the tunnel is ready.    *)
(***************************************************************************)
EXTENDS Integers

CONSTANTS
  None,
  Modes,       \* tunnel modes: "off", "named", "quick"
  Successes,   \* tunnelReadinessRequiredSuccesses, 3 in the code
  Patience,    \* how often WaitReady reads the status before it times out
  MaxChanges,  \* bound: how often the public name changes between resolving and not
  MaxLate,     \* bound: abandoned posts that may still arrive
  MayFail      \* whether posts may fail and the process, the server or the tunnel may

ASSUME AgentAssumption ==
  /\ Modes \subseteq {"off", "named", "quick"}
  /\ Successes \in Nat /\ Successes >= 1
  /\ Patience \in Nat /\ Patience > Successes
  /\ {MaxChanges, MaxLate} \subseteq Nat
  /\ MayFail \in BOOLEAN

VARIABLES
  mode,         \* config.Tunnel.Mode
  stopped,      \* whether the context of Run is canceled, by a signal or the parent's exit
  main,         \* where Run is
  tunnel,       \* Tunnel.status
  child,        \* cloudflared: "none", "running", or "exited", which closes tunnel.done
  monitor,      \* monitorReadiness: where it is, the status it read, its successes
  joiner,       \* registerWhenTunnelReady with WaitReady: the same, and its reads
  heartbeat,    \* RunHeartbeat: where it is
  post,         \* the post each goroutine has in flight, if any
  late,         \* posts given up before they arrived, which may still do so
  target,       \* outside: what CI has on record
  resolves,     \* outside: whether the public name resolves
  changes,      \* counts the changes of resolves
  revived       \* history: whether a late post has arrived

tunnelVars == <<tunnel, child, monitor>>
postVars == <<post, late, target, revived>>
world == <<resolves, changes>>
vars == <<mode, stopped, main, tunnelVars, joiner, heartbeat, postVars, world>>

-----------------------------------------------------------------------------
\* Tunnel.

NeedsProcess == mode # "off"

\* tunnelReadinessSuccessTarget
Required == IF NeedsProcess THEN Successes ELSE 1

Status(state) == [state |-> state, connected |-> FALSE, url |-> mode # "quick",
                  ready |-> FALSE, reason |-> "none"]

\* readinessError of a status that was read, with the outcome of the lookup.
Reason(status, resolved) ==
  IF ~NeedsProcess THEN "none"
  ELSE IF status.state # "running" THEN "not running"
  ELSE IF ~status.connected THEN "not connected"
  ELSE IF ~status.url THEN "no url"
  ELSE IF ~resolved THEN "unresolved"
  ELSE "none"

\* A canceled context makes the lookup fail.
Resolved == resolves /\ ~stopped

Ready(status) == [status EXCEPT !.ready = TRUE, !.reason = "none"]
NotReady(status, reason) == [status EXCEPT !.ready = FALSE, !.reason = reason]

Idle == [at |-> "off", copy |-> None, successes |-> 0, reads |-> 0]
Posters == {"joiner", "heartbeat", "main"}

Init ==
  /\ mode \in Modes
  /\ stopped = FALSE /\ main = "starting"
  /\ tunnel = Status("stopped") /\ child = "none" 
  /\ monitor = Idle /\ joiner = Idle /\ heartbeat = "off"
  /\ post = [p \in Posters |-> None] /\ late = {} /\ target = None /\ revived = FALSE
  /\ resolves \in BOOLEAN /\ changes = 0

Running == main \notin {"deregistered", "returned"}  \* Run returns in both

\* Run returns and the process ends, with all its goroutines and its child.
Returns(as) ==
  /\ main' = as
  /\ tunnel' = Status("stopped") /\ child' = "none" /\ monitor' = Idle
  /\ joiner' = Idle /\ heartbeat' = "off"

\* Start and the goroutines it starts; a failure ends Run at once.
TunnelStarts ==
  /\ main = "starting"
  /\ main' = "registering"
  /\ joiner' = [Idle EXCEPT !.at = "ticking"]
  /\ IF NeedsProcess
     THEN /\ tunnel' = Status("running") /\ child' = "running"
          /\ monitor' = [Idle EXCEPT !.at = "ticking"]
     ELSE tunnel' = Status("disabled") /\ UNCHANGED <<child, monitor>>
  /\ UNCHANGED <<mode, stopped, heartbeat, post, late, target, revived, world>>

TunnelStartFails ==
  /\ MayFail /\ NeedsProcess
  /\ main = "starting"
  /\ Returns("returned")
  /\ UNCHANGED <<mode, stopped, postVars, world>>

\* scan: a line with a URL, which only a quick tunnel takes, or with a connection.
UrlScanned ==
  /\ child = "running" /\ mode = "quick"
  /\ tunnel' = [tunnel EXCEPT !.url = TRUE, !.ready = FALSE]
  /\ UNCHANGED <<mode, stopped, main, child, monitor, joiner, heartbeat, postVars, world>>

ConnectionScanned ==
  /\ child = "running" /\ ~tunnel.connected
  /\ tunnel' = [tunnel EXCEPT !.connected = TRUE]
  /\ UNCHANGED <<mode, stopped, main, child, monitor, joiner, heartbeat, postVars, world>>

\* cloudflared exits by itself, or because the context it was started with ends.
\* The goroutine in Wait notes it: an exit without an error, or after the end of
\* the context, counts as stopped.  Then notifyDone closes the channel.
ChildExits(failed) ==
  /\ child = "running"
  /\ MayFail \/ stopped
  /\ tunnel' = IF stopped \/ ~failed
               THEN [tunnel EXCEPT !.state = "stopped", !.connected = FALSE, !.ready = FALSE]
               ELSE [tunnel EXCEPT !.state = "failed", !.ready = FALSE]
  /\ child' = "exited"
  /\ UNCHANGED <<mode, stopped, main, monitor, joiner, heartbeat, postVars, world>>

-----------------------------------------------------------------------------
\* monitorReadiness: it reads the status, looks the name up, and updates the
\* status as it is by then.

Least(a, b) == IF a <= b THEN a ELSE b

MonitorReads ==
  /\ monitor.at = "ticking"
  /\ monitor' = [monitor EXCEPT !.at = "looking",
       !.copy = [fault |-> Reason(tunnel, TRUE), ready |-> tunnel.ready, reason |-> tunnel.reason]]
  /\ UNCHANGED <<mode, stopped, main, tunnel, child, joiner, heartbeat, postVars, world>>

MonitorLooks ==
  /\ monitor.at = "looking"
  /\ LET copy == monitor.copy
         reason == IF copy.fault = "none" /\ ~Resolved THEN "unresolved" ELSE copy.fault
         successes == IF reason = "none" THEN Least(monitor.successes + 1, Required) ELSE 0
     IN /\ tunnel' = IF reason = "none" /\ successes = Required /\ ~copy.ready THEN Ready(tunnel)
                     ELSE IF reason # "none" /\ (copy.ready \/ copy.reason # reason) THEN NotReady(tunnel, reason)
                     ELSE tunnel
        /\ monitor' = [Idle EXCEPT !.at = IF copy.fault = "not running" THEN "ended" ELSE "ticking",
                                   !.successes = successes]
  /\ UNCHANGED <<mode, stopped, main, child, joiner, heartbeat, postVars, world>>

\* The select of context and ticker.
MonitorEnds ==
  /\ monitor.at = "ticking" /\ stopped
  /\ monitor' = [Idle EXCEPT !.at = "ended"]
  /\ UNCHANGED <<mode, stopped, main, tunnel, child, joiner, heartbeat, postVars, world>>

-----------------------------------------------------------------------------
\* registerWhenTunnelReady.  Its context ends with Run's wait for it.

JoinerStopped == stopped \/ main # "registering"
JoinerGone == [Idle EXCEPT !.at = "gone"]

\* WaitReady counts on its own, and counts anew when the reason changes.
JoinerLooks ==
  /\ joiner.at = "looking"
  /\ LET copy == joiner.copy
         reason == Reason(copy, Resolved /\ ~JoinerStopped)
         successes == IF reason = "none" THEN joiner.successes + 1 ELSE 0
         again(n) == [joiner EXCEPT !.at = IF copy.state = "failed" THEN "resting" ELSE "ticking",
                                    !.copy = None, !.successes = n]
     IN IF successes >= Required
        THEN tunnel' = Ready(tunnel) /\ joiner' = [Idle EXCEPT !.at = "joining"]
        ELSE IF copy.reason # reason
        THEN tunnel' = NotReady(tunnel, reason) /\ joiner' = again(0)
        ELSE joiner' = again(successes) /\ UNCHANGED tunnel
  /\ UNCHANGED <<mode, stopped, main, child, monitor, heartbeat, postVars, world>>

\* Mutant of JoinerReads: a tunnel that is not ready in time ends the registration.
JoinerReadsOnce ==
  /\ joiner.at = "ticking"
  /\ joiner' = IF JoinerStopped \/ joiner.reads >= Patience THEN JoinerGone
               ELSE [joiner EXCEPT !.at = "looking", !.copy = tunnel, !.reads = @ + 1]
  /\ UNCHANGED <<mode, stopped, main, tunnelVars, heartbeat, postVars, world>>

\* Mutant of JoinerReads: the wait for readiness has no end.
JoinerReadsOn ==
  /\ joiner.at = "ticking"
  /\ joiner' = IF JoinerStopped THEN JoinerGone
               ELSE [joiner EXCEPT !.at = "looking", !.copy = tunnel, !.reads = @ + 1]
  /\ UNCHANGED <<mode, stopped, main, tunnelVars, heartbeat, postVars, world>>

\* The first read and the one at a tick, or the end of the 30 seconds or of the context.
JoinerReads ==
  /\ joiner.at = "ticking"
  /\ joiner' = IF JoinerStopped THEN JoinerGone
               ELSE IF joiner.reads >= Patience THEN [Idle EXCEPT !.at = "resting"]
               ELSE [joiner EXCEPT !.at = "looking", !.copy = tunnel, !.reads = @ + 1]
  /\ UNCHANGED <<mode, stopped, main, tunnelVars, heartbeat, postVars, world>>

\* Five seconds later the wait starts over.
JoinerRests ==
  /\ joiner.at = "resting"
  /\ joiner' = IF JoinerStopped THEN JoinerGone ELSE [Idle EXCEPT !.at = "ticking"]
  /\ UNCHANGED <<mode, stopped, main, tunnelVars, heartbeat, post, late, target, revived, world>>

-----------------------------------------------------------------------------
\* Registrar.  A post tells whether the runner takes builds; it may arrive and
\* be answered, or be given up before or after it arrives.

Flying(p) == post[p] # None
Effect(sent) == IF sent.action = "deregister" THEN None ELSE [accepting |-> sent.accepting]

\* Mutant of Sent: the load is not asked for.
SentAccepting(p, action) ==
  post' = [post EXCEPT ![p] = [action |-> action, accepting |-> TRUE, arrived |-> FALSE]]

\* buildLoad with tunnelAvailableForRegistration
Sent(p, action) ==
  post' = [post EXCEPT ![p] = [action |-> action, accepting |-> ~NeedsProcess \/ tunnel.ready, arrived |-> FALSE]]

\* Register, at first and after five seconds' delay.
JoinerPosts ==
  /\ joiner.at \in {"joining", "retrying"}
  /\ IF JoinerStopped
     THEN joiner' = JoinerGone /\ UNCHANGED post
     ELSE /\ joiner' = [Idle EXCEPT !.at = "posting"]
          /\ Sent("joiner", "register")
  /\ UNCHANGED <<mode, stopped, main, tunnelVars, heartbeat, late, target, revived, world>>

\* RunHeartbeat, by its ticker.
HeartbeatStopped == stopped \/ main \in {"unhooking", "deregistering"}

HeartbeatPosts ==
  /\ heartbeat = "waiting" /\ ~HeartbeatStopped
  /\ heartbeat' = "posting"
  /\ Sent("heartbeat", "heartbeat")
  /\ UNCHANGED <<mode, stopped, main, tunnelVars, joiner, late, target, revived, world>>

HeartbeatEnds ==
  /\ heartbeat = "waiting" /\ HeartbeatStopped
  /\ heartbeat' = "ended"
  /\ UNCHANGED <<mode, stopped, main, tunnelVars, joiner, postVars, world>>

\* DeregisterWithRetry
DeregisterPosts ==
  /\ main = "deregistering" /\ ~Flying("main")
  /\ Sent("main", "deregister")
  /\ UNCHANGED <<mode, stopped, main, tunnelVars, joiner, heartbeat, late, target, revived, world>>

\* CI takes a post, even from a process that is gone.
PostArrives(p) ==
  /\ Flying(p) /\ ~post[p].arrived
  /\ target' = Effect(post[p])
  /\ post' = [post EXCEPT ![p].arrived = TRUE]
  /\ UNCHANGED <<mode, stopped, main, tunnelVars, joiner, heartbeat, late, revived, world>>

\* What becomes of the goroutine whose post has succeeded or failed.
Continues(p, ok) ==
  /\ CASE p = "joiner" ->
            /\ joiner' = IF ok THEN [Idle EXCEPT !.at = "joined"]
                         ELSE IF JoinerStopped THEN JoinerGone ELSE [Idle EXCEPT !.at = "retrying"]
            /\ UNCHANGED <<main, tunnelVars, heartbeat>>
       [] p = "heartbeat" -> heartbeat' = "waiting" /\ UNCHANGED <<main, tunnelVars, joiner>>
       [] p = "main" -> IF ok THEN Returns("deregistered")
                        ELSE UNCHANGED <<main, tunnelVars, joiner, heartbeat>>
  /\ UNCHANGED <<mode, stopped, target, revived, world>>

\* A 2xx answer.
PostSucceeds(p) ==
  /\ Running /\ Flying(p) /\ post[p].arrived
  /\ post' = [post EXCEPT ![p] = None]
  /\ Continues(p, TRUE)
  /\ UNCHANGED late

\* An error, the client's timeout, or the end of the post's context.
ContextOver(p) == (p = "joiner" /\ JoinerStopped) \/ (p = "heartbeat" /\ HeartbeatStopped)

PostFails(p) ==
  /\ Running /\ Flying(p)
  /\ MayFail \/ ContextOver(p)
  /\ post' = [post EXCEPT ![p] = None]
  /\ \/ UNCHANGED late
     \/ ~post[p].arrived /\ late = {} /\ MaxLate > 0 /\ late' = {post[p]}
  /\ Continues(p, FALSE)

\* A post that was given up arrives after all.
LateArrives ==
  /\ \E sent \in late : target' = Effect(sent) /\ late' = late \ {sent}
  /\ revived' = (revived \/ main \in {"deregistering", "deregistered", "returned"})
  /\ UNCHANGED <<mode, stopped, main, tunnelVars, joiner, heartbeat, post, world>>

-----------------------------------------------------------------------------
\* Run.

\* registerWhenTunnelReadyOrServerFails returns the registrar, ...
Registered ==
  /\ main = "registering" /\ joiner.at = "joined"
  /\ main' = "serving"
  /\ heartbeat' = "waiting"
  /\ UNCHANGED <<mode, stopped, tunnelVars, joiner, postVars, world>>

\* ... or what ended the wait for it: then nothing is deregistered.
NotRegistered ==
  /\ main = "registering"
  /\ stopped \/ joiner.at = "gone" \/ child = "exited"
  /\ main' = "leaving"
  /\ UNCHANGED <<mode, stopped, tunnelVars, joiner, heartbeat, postVars, world>>

\* The last select.
ServingEnds ==
  /\ main = "serving"
  /\ stopped \/ child = "exited"
  /\ main' = "draining"
  /\ UNCHANGED <<mode, stopped, tunnelVars, joiner, heartbeat, postVars, world>>

\* The HTTP server stops with an error, which both selects also wait for.
ServerFails ==
  /\ MayFail
  /\ main \in {"registering", "serving"}
  /\ main' = IF main = "registering" THEN "leaving" ELSE "draining"
  /\ UNCHANGED <<mode, stopped, tunnelVars, joiner, heartbeat, postVars, world>>

\* shutdownBuilds and shutdownServer, each within its time.
Drained ==
  \/ /\ main = "draining"
     /\ main' = "unhooking"
     /\ UNCHANGED <<mode, stopped, tunnelVars, joiner, heartbeat, postVars, world>>
  \/ /\ main = "leaving"
     /\ Returns("returned")
     /\ UNCHANGED <<mode, stopped, postVars, world>>

\* Mutant of Unhooked: the heartbeat is stopped and not waited for.
UnhookedAtOnce ==
  /\ main = "unhooking"
  /\ main' = "deregistering"
  /\ UNCHANGED <<mode, stopped, tunnelVars, joiner, heartbeat, postVars, world>>

\* Mutant of Unhooked: the heartbeat runs in Run's own context.
UnhookedByContext ==
  /\ main = "unhooking" /\ heartbeat = "ended" /\ stopped
  /\ main' = "deregistering"
  /\ UNCHANGED <<mode, stopped, tunnelVars, joiner, heartbeat, postVars, world>>

\* stopHeartbeat, and <-heartbeatDone.
Unhooked ==
  /\ main = "unhooking" /\ heartbeat = "ended"
  /\ main' = "deregistering"
  /\ UNCHANGED <<mode, stopped, tunnelVars, joiner, heartbeat, postVars, world>>

\* The ten seconds for the deregistration are over.
DeregistrationTimesOut ==
  /\ MayFail
  /\ main = "deregistering"
  /\ Returns("returned")
  /\ UNCHANGED <<mode, stopped, postVars, world>>

\* SIGINT, SIGTERM, or the exit of the app that started the runner.
Signal ==
  /\ Running /\ ~stopped
  /\ stopped' = TRUE
  /\ UNCHANGED <<mode, main, tunnelVars, joiner, heartbeat, postVars, world>>

NameChanges ==
  /\ Running /\ changes < MaxChanges
  /\ resolves' = ~resolves /\ changes' = changes + 1
  /\ UNCHANGED <<mode, stopped, main, tunnelVars, joiner, heartbeat, postVars>>

TunnelNext ==
  \/ TunnelStarts \/ TunnelStartFails \/ UrlScanned \/ ConnectionScanned
  \/ (\E failed \in BOOLEAN : ChildExits(failed))
MonitorNext == MonitorReads \/ MonitorLooks \/ MonitorEnds
JoinerNext == JoinerReads \/ JoinerLooks \/ JoinerRests \/ JoinerPosts
HeartbeatNext == HeartbeatPosts \/ HeartbeatEnds
PostNext == \E p \in Posters : PostArrives(p) \/ PostSucceeds(p) \/ PostFails(p)
MainNext == Registered \/ NotRegistered \/ ServingEnds \/ Drained \/ Unhooked \/ DeregisterPosts

Next ==
  \/ TunnelNext \/ MonitorNext \/ JoinerNext \/ HeartbeatNext \/ PostNext \/ MainNext
  \/ LateArrives \/ DeregistrationTimesOut
  \/ Signal \/ ServerFails \/ NameChanges

Spec == Init /\ [][Next]_vars

\* Goroutines that can run do, and a child that was killed exits.  A post ends by
\* its timeout; CI takes one at last if it is sent again and again.
Fairness ==
  /\ WF_vars(TunnelStarts \/ MainNext) /\ WF_vars(DeregistrationTimesOut)
  /\ WF_vars(\E failed \in BOOLEAN : stopped /\ ChildExits(failed))
  /\ WF_vars(MonitorNext) /\ WF_vars(JoinerNext) /\ WF_vars(HeartbeatNext)
  /\ WF_vars(\E p \in Posters : PostSucceeds(p) \/ PostFails(p))
  /\ SF_vars(\E p \in {"joiner", "heartbeat"} : PostArrives(p))
  /\ SF_vars(\E p \in {"joiner", "heartbeat"} : PostSucceeds(p))

FairSpec == Spec /\ Fairness

-----------------------------------------------------------------------------
(***************************************************************************)
(* Properties.                                                             *)
(***************************************************************************)
Reasons == {"none", "not running", "not connected", "no url", "unresolved"}

Statuses ==
  [state : {"stopped", "disabled", "running", "failed"}, connected : BOOLEAN, url : BOOLEAN,
   ready : BOOLEAN, reason : Reasons]

Readings == [fault : Reasons, ready : BOOLEAN, reason : Reasons]

Posts == [action : {"register", "heartbeat", "deregister"}, accepting : BOOLEAN, arrived : BOOLEAN]

TypeOK ==
  /\ mode \in Modes
  /\ {stopped, resolves, revived} \subseteq BOOLEAN
  /\ main \in {"starting", "registering", "serving", "leaving", "draining", "unhooking",
               "deregistering", "deregistered", "returned"}
  /\ tunnel \in Statuses
  /\ child \in {"none", "running", "exited"}
  /\ monitor \in [at : {"off", "ticking", "looking", "ended"}, copy : Readings \cup {None},
                  successes : 0..Required, reads : {0}]
  /\ joiner \in [at : {"off", "ticking", "looking", "resting", "joining", "retrying",
                       "posting", "joined", "gone"}, copy : Statuses \cup {None},
                 successes : 0..(Required - 1), reads : 0..Patience]
  /\ heartbeat \in {"off", "waiting", "posting", "ended"}
  /\ post \in [Posters -> Posts \cup {None}]
  /\ late \subseteq Posts
  /\ target \in [accepting : BOOLEAN] \cup {None}
  /\ changes \in 0..MaxChanges

\* A runner that has deregistered stays deregistered: no heartbeat of its own
\* comes after the deregistration, unless one that was given up before arrives late.
DeregistrationIsLast ==
  main = "deregistered" /\ ~revived => target = None

\* Run ends after a signal and after the end of the tunnel, whatever
\* the other goroutines are doing.
RunEnds ==
  (stopped \/ child = "exited") ~> ~Running

\* docs/operations.md: a slow connector or delayed DNS does not permanently skip
\* registration: it comes once the tunnel stays usable, unless a signal, the tunnel's
\* end or the server's ends the wait for it.
Usable == NeedsProcess => resolves /\ (Running => tunnel.connected /\ tunnel.url)
WaitCutShort == stopped \/ child = "exited" \/ (main = "leaving" /\ joiner.at # "gone")
RegistrationComes ==
  <>[]Usable => ((main = "registering") ~> (main = "serving" \/ WaitCutShort))

\* A tunnel that is not ready any more is not advertised for long, although its
\* readiness asks for no heartbeat, and although posts may arrive late.
LossAdvertised ==
  (main = "serving" /\ ~tunnel.ready) ~>
    (main # "serving" \/ tunnel.ready \/ (target # None /\ (target.accepting => ~NeedsProcess)))

=============================================================================
