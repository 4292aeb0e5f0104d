---------------------------- MODULE BuildService ----------------------------
(***************************************************************************)
(* What a runner promises its CI about the builds it accepts, without the  *)
(* goroutines, locks and files that keep the promise: one slot, a line in  *)
(* order of acceptance, one verdict per build, reports that carry that     *)
(* verdict, and a slot that is handed on only when the report is settled.  *)
(***************************************************************************)
EXTENDS Integers, Sequences

CONSTANTS Builds, None

VARIABLES
  slot,     \* the build that holds the machine, or None
  line,     \* accepted builds waiting for the slot, first come first
  fate,     \* what has become of each build
  settled,  \* builds about which CI is owed nothing any more
  receipts  \* what CI has been told: pairs of a build and a verdict

service == <<slot, line, fate, settled, receipts>>

Outcomes == {"passed", "failed", "canceled"}
Decided(b) == fate[b] \in Outcomes
InLine(b) == \E i \in DOMAIN line : line[i] = b

Init ==
  /\ slot = None /\ line = <<>> /\ settled = {} /\ receipts = {}
  /\ fate = [b \in Builds |-> "absent"]

\* A new build takes the free slot or joins the end of the line.
Accept(b) ==
  /\ fate[b] = "absent"
  /\ \/ /\ slot = None
        /\ slot' = b
        /\ fate' = [fate EXCEPT ![b] = "running"]
        /\ UNCHANGED line
     \/ /\ slot # None
        /\ line' = Append(line, b)
        /\ fate' = [fate EXCEPT ![b] = "waiting"]
        /\ UNCHANGED slot
  /\ UNCHANGED <<settled, receipts>>

\* A cancel takes a build out of the line; the others keep their order.
Withdraw(b) ==
  /\ \E k \in DOMAIN line :
       /\ line[k] = b
       /\ line' = SubSeq(line, 1, k - 1) \o SubSeq(line, k + 1, Len(line))
  /\ UNCHANGED <<slot, fate, settled, receipts>>

\* The one verdict of a build: of the build in the slot, or canceled for a
\* build withdrawn from the line.  Without a callback it is settled at once.
Decide(b, verdict) ==
  /\ \/ slot = b /\ fate[b] = "running"
     \/ fate[b] = "waiting" /\ ~InLine(b) /\ verdict = "canceled"
  /\ fate' = [fate EXCEPT ![b] = verdict]
  /\ settled' \in {settled, settled \cup {b}}
  /\ UNCHANGED <<slot, line, receipts>>

\* CI is told the verdict, possibly more than once, while it is owed one.
Tell(b) ==
  /\ Decided(b) /\ b \notin settled
  /\ receipts' = receipts \cup {<<b, fate[b]>>}
  /\ UNCHANGED <<slot, line, fate, settled>>

Settle(b) ==
  /\ Decided(b)
  /\ settled' = settled \cup {b}
  /\ UNCHANGED <<slot, line, fate, receipts>>

\* The slot goes to the head of the line, once the report is settled.
Release(b) ==
  /\ slot = b /\ Decided(b) /\ b \in settled
  /\ \/ line = <<>> /\ slot' = None /\ UNCHANGED <<line, fate>>
     \/ /\ line # <<>>
        /\ slot' = Head(line)
        /\ line' = Tail(line)
        /\ fate' = [fate EXCEPT ![Head(line)] = "running"]
  /\ UNCHANGED <<settled, receipts>>

\* The runner loses its memory; what CI has been told stays told.
Forget ==
  /\ slot' = None /\ line' = <<>> /\ settled' = {}
  /\ fate' = [b \in Builds |-> IF fate[b] = "absent" THEN "absent" ELSE "lost"]
  /\ UNCHANGED receipts

Next ==
  \/ \E b \in Builds : Accept(b) \/ Withdraw(b) \/ Tell(b) \/ Settle(b) \/ Release(b)
  \/ \E b \in Builds, verdict \in Outcomes : Decide(b, verdict)
  \/ Forget

Spec == Init /\ [][Next]_service

=============================================================================
