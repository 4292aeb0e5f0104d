---------------------------- MODULE BuildProcess ----------------------------
(***************************************************************************)
(* One runJob (internal/agent/build.go) and the processes it deals with:   *)
(* git in the workspace, the command with what it forks, the goroutine of  *)
(* watchBuildProcess (build_process_unix.go), the one that os/exec starts  *)
(* for the context, and caffeinate (power.go).                             *)
(*                                                                         *)
(* Processes other than the command's own are Children.  A process may end *)
(* of itself at any time or never, ignore SIGTERM, close its output and    *)
(* fork; a child may leave the process group if MayLeaveGroup.  A process  *)
(* ID is never reused.                                                     *)
(***************************************************************************)
EXTENDS Integers, FiniteSets

CONSTANTS
  Children,       \* processes the command may fork
  Command,        \* the process that runJob starts
  MayLeaveGroup   \* whether a child may call setsid

ASSUME ProcessAssumption ==
  /\ Command \notin Children /\ IsFiniteSet(Children)
  /\ MayLeaveGroup \in BOOLEAN

VARIABLES
  at,         \* where runJob is
  ctx,        \* its context: "live", "canceled" or "timed out"
  gits,       \* git commands still to run: clone, fetch, checkout
  git,        \* the one running: "off", "running", "ok" or "bad"
  helper,     \* whether a helper of git has its output open
  workspace,  \* "none", "made" (by prepareWorkspace) or "removed"
  running,    \* processes of the build
  forked,     \* children that have been forked
  holding,    \* running processes with the output pipes open
  deaf,       \* running processes that ignore SIGTERM
  left,       \* running processes outside the group
  termed,     \* running processes that got a SIGTERM
  exit,       \* how the command ended: "none" yet, "zero", "nonzero", "signal"
  guard,      \* watchBuildProcess: "off", "watching", "grace" or "over"
  interrupt,  \* os/exec's: "watching", or what its SIGTERM came to
  power,      \* whether caffeinate runs
  record      \* exit code and error of the LedgerRecord

jobVars == <<at, ctx, gits, git, helper, workspace, record>>
processes == <<running, forked, holding, deaf, left, termed, exit>>
watchers == <<guard, interrupt, power>>
processVars == <<jobVars, processes, watchers>>

NoRecord == [exit |-> -1, error |-> "unset"]

ProcessInit ==
  /\ at = "queued" /\ ctx = "live"
  /\ gits \in {0, 3}
  /\ git = "off" /\ helper = FALSE /\ workspace = "none"
  /\ running = {} /\ forked = {} /\ holding = {} /\ deaf = {} /\ left = {} /\ termed = {}
  /\ exit = "none" /\ guard = "off" /\ interrupt = "watching" /\ power = FALSE
  /\ record = NoRecord

-----------------------------------------------------------------------------
\* The context.
Canceled ==
  /\ at \notin {"queued", "ended"} /\ ctx = "live"
  /\ ctx' = "canceled"
  /\ UNCHANGED <<at, gits, git, helper, workspace, record, processes, watchers>>

TimesOut ==
  /\ at \notin {"queued", "ended"} /\ ctx = "live"
  /\ ctx' = "timed out"
  /\ UNCHANGED <<at, gits, git, helper, workspace, record, processes, watchers>>

-----------------------------------------------------------------------------
\* canceledQueuedRecord, for a build that never leaves the queue.
QueuedCanceled ==
  /\ at = "queued"
  /\ at' = "ended" /\ record' = [exit |-> -1, error |-> "build canceled"]
  /\ UNCHANGED <<ctx, gits, git, helper, workspace, processes, watchers>>

JobBegins ==
  /\ at = "queued"
  /\ at' = IF gits = 0 THEN "starting" ELSE "preparing"
  /\ UNCHANGED <<ctx, gits, git, helper, workspace, record, processes, watchers>>

\* finishWithError, with the workspace's cleanup.
FinishWithError(error) ==
  /\ record' = [exit |-> -1, error |-> error]
  /\ workspace' = IF workspace = "made" THEN "removed" ELSE workspace
  /\ at' = "ended"

WorkspaceMade ==
  /\ at = "preparing" /\ workspace = "none"
  /\ workspace' = "made"
  /\ UNCHANGED <<at, ctx, gits, git, helper, record, processes, watchers>>

PrepareFails ==
  /\ at = "preparing" /\ workspace = "none"
  /\ FinishWithError("other")
  /\ UNCHANGED <<ctx, gits, git, helper, processes, watchers>>

\* runGit: Start fails when the context is over.
GitStarts ==
  /\ at = "preparing" /\ workspace = "made" /\ git = "off"
  /\ \/ ctx = "live" /\ git' = "running" /\ helper' \in BOOLEAN
     \/ git' = "bad" /\ UNCHANGED helper
  /\ UNCHANGED <<at, ctx, gits, workspace, record, processes, watchers>>

GitEnds ==
  /\ git = "running"
  /\ git' \in {"ok", "bad"}
  /\ UNCHANGED <<at, ctx, gits, helper, workspace, record, processes, watchers>>

\* CommandContext kills git, and only git.
GitKilled ==
  /\ git = "running" /\ ctx # "live"
  /\ git' = "bad"
  /\ UNCHANGED <<at, ctx, gits, helper, workspace, record, processes, watchers>>

HelperEnds ==
  /\ helper /\ git # "running"
  /\ helper' = FALSE
  /\ UNCHANGED <<at, ctx, gits, git, workspace, record, processes, watchers>>

\* CombinedOutput returns when git has ended and nobody has its output open; its
\* error is told in words, so that a canceled context is not recognised in it.
GitReturns ==
  /\ git \in {"ok", "bad"} /\ ~helper
  /\ git' = "off"
  /\ \/ /\ git = "bad" /\ FinishWithError("other") /\ UNCHANGED gits
     \/ /\ git = "ok" /\ gits' = gits - 1
        /\ at' = IF gits = 1 THEN "starting" ELSE at
        /\ UNCHANGED <<workspace, record>>
  /\ UNCHANGED <<ctx, helper, processes, watchers>>

-----------------------------------------------------------------------------
CommandStarts ==
  /\ at = "starting" /\ ctx = "live"
  /\ at' = "running"
  /\ running' = {Command} /\ holding' = {Command}
  /\ deaf' \in {{}, {Command}}
  /\ guard' = "watching" /\ power' \in BOOLEAN
  /\ UNCHANGED <<ctx, gits, git, helper, workspace, record, forked, left, termed, exit, interrupt>>

\* command.Start returns the context's own error when that is over.
StartFails ==
  /\ at = "starting"
  /\ FinishWithError(IF ctx = "canceled" THEN "build canceled" ELSE "other")
  /\ UNCHANGED <<ctx, gits, git, helper, processes, watchers>>

\* command.Wait's error: the exit status, or else what interrupting came to.
WaitFails == exit # "zero" \/ interrupt \in {"sent", "denied"}

\* Both scanners are at the end and command.Wait has returned.
CommandWaited ==
  /\ at = "running" /\ holding = {} /\ exit # "none"
  /\ at' = "unwinding"
  /\ record' =
       IF ~WaitFails THEN [exit |-> 0, error |-> "none"]
       ELSE [exit |-> IF exit = "nonzero" THEN 1 ELSE -1,
             error |-> CASE ctx = "timed out" -> "build timed out"
                         [] ctx = "canceled"  -> "build canceled"
                         [] OTHER             -> "other"]
  /\ UNCHANGED <<ctx, gits, git, helper, workspace, processes, watchers>>

\* The deferred calls: caffeinate is killed and awaited, and done closed...
GuardsStopped ==
  /\ at = "unwinding"
  /\ at' = "cleaning" /\ power' = FALSE
  /\ UNCHANGED <<ctx, gits, git, helper, workspace, record, processes, guard, interrupt>>

\* ...then the workspace removed.
CleanedUp ==
  /\ at = "cleaning"
  /\ at' = "ended" /\ workspace' = IF workspace = "made" THEN "removed" ELSE workspace
  /\ UNCHANGED <<ctx, gits, git, helper, record, processes, watchers>>

JobStep ==
  \/ JobBegins \/ WorkspaceMade \/ PrepareFails \/ GitStarts \/ GitReturns
  \/ CommandStarts \/ StartFails \/ CommandWaited \/ GuardsStopped \/ CleanedUp

-----------------------------------------------------------------------------
\* signalBuildProcessGroup: a group of which only the dead command is left may
\* take the signal or, on macOS, refuse it; one that is gone does not exist.
InGroup == running \ left
Reaped == at \in {"unwinding", "cleaning", "ended"}

Signaled ==
  IF InGroup # {} THEN {"sent"} ELSE IF Reaped THEN {"missed"} ELSE {"sent", "denied"}

\* watchBuildProcess sees the context's end.
GuardSignals ==
  /\ guard = "watching" /\ ctx # "live"
  /\ \E s \in Signaled : guard' = IF s = "denied" THEN "over" ELSE "grace"
  /\ termed' = termed \cup InGroup
  /\ UNCHANGED <<jobVars, running, forked, holding, deaf, left, exit, interrupt, power>>

\* Mutant of GuardKills: a process that ignores SIGTERM is left alone.
GuardGivesUp ==
  /\ guard = "grace"
  /\ guard' = "over"
  /\ UNCHANGED <<jobVars, processes, interrupt, power>>

\* The grace period is over: SIGKILL.
GuardKills ==
  /\ guard = "grace"
  /\ guard' = "over"
  /\ running' = running \cap left /\ holding' = holding \cap left
  /\ deaf' = deaf \cap left /\ termed' = termed \cap left
  /\ exit' = IF Command \in running THEN "signal" ELSE exit
  /\ UNCHANGED <<jobVars, forked, left, interrupt, power>>

\* done is closed: the goroutine ends, in its grace period too.
GuardReleased ==
  /\ guard \in {"watching", "grace"} /\ at \in {"cleaning", "ended"}
  /\ guard' = "over"
  /\ UNCHANGED <<jobVars, processes, interrupt, power>>

GuardStep == GuardSignals \/ GuardKills \/ GuardReleased

\* os/exec sees the context's end and calls command.Cancel.
Interrupts ==
  /\ at = "running" /\ interrupt = "watching" /\ ctx # "live"
  /\ interrupt' \in Signaled
  /\ termed' = termed \cup InGroup
  /\ UNCHANGED <<jobVars, running, forked, holding, deaf, left, exit, guard, power>>

\* caffeinate ends with the process it watches, or by its context.
PowerEnds ==
  /\ power /\ (Command \notin running \/ ctx # "live")
  /\ power' = FALSE
  /\ UNCHANGED <<jobVars, processes, guard, interrupt>>

-----------------------------------------------------------------------------
\* The processes.
Gone(p) ==
  /\ p \in running
  /\ running' = running \ {p} /\ holding' = holding \ {p}
  /\ deaf' = deaf \ {p} /\ left' = left \ {p} /\ termed' = termed \ {p}
  /\ exit' \in IF p # Command THEN {exit}
               ELSE {"zero", "nonzero"} \cup (IF p \in termed \ deaf THEN {"signal"} ELSE {})
  /\ UNCHANGED <<jobVars, forked, watchers>>

\* A SIGTERM that is not ignored ends a process, sooner or later.
Obeys(p) == p \in termed \ deaf /\ Gone(p)

ClosesOutput(p) ==
  /\ p \in holding
  /\ holding' = holding \ {p}
  /\ UNCHANGED <<jobVars, running, forked, deaf, left, termed, exit, watchers>>

Forks(p, c) ==
  /\ p \in running /\ c \notin forked
  /\ forked' = forked \cup {c} /\ running' = running \cup {c}
  /\ holding' \in {holding} \cup (IF p \in holding THEN {holding \cup {c}} ELSE {})
  /\ deaf' \in {deaf, deaf \cup {c}}
  /\ left' \in (IF p \in left THEN {} ELSE {left})
                 \cup (IF p \in left \/ MayLeaveGroup THEN {left \cup {c}} ELSE {})
  /\ UNCHANGED <<jobVars, termed, exit, watchers>>

ProcessStep ==
  \/ \E p \in running : Gone(p) \/ ClosesOutput(p) \/ \E c \in Children : Forks(p, c)
  \/ GitEnds \/ GitKilled \/ HelperEnds

ProcessNext ==
  \/ Canceled \/ TimesOut \/ QueuedCanceled
  \/ JobStep \/ GuardStep \/ Interrupts \/ PowerEnds \/ ProcessStep

-----------------------------------------------------------------------------
\* The values the variables take.
ProcessTypeOK ==
  /\ at \in {"queued", "preparing", "starting", "running", "unwinding", "cleaning", "ended"}
  /\ ctx \in {"live", "canceled", "timed out"}
  /\ gits \in 0..3 /\ git \in {"off", "running", "ok", "bad"} /\ helper \in BOOLEAN
  /\ workspace \in {"none", "made", "removed"}
  /\ running \subseteq forked \cup {Command} /\ forked \subseteq Children
  /\ holding \subseteq running /\ deaf \subseteq running /\ left \subseteq running
  /\ termed \subseteq running
  /\ exit \in {"none", "zero", "nonzero", "signal"}
  /\ guard \in {"off", "watching", "grace", "over"}
  /\ interrupt \in {"watching", "sent", "denied", "missed"}
  /\ power \in BOOLEAN
  /\ record \in [exit : {-1, 0, 1},
       error : {"unset", "none", "build canceled", "build timed out", "other"}]

=============================================================================
