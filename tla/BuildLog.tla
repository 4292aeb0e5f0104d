------------------------------ MODULE BuildLog ------------------------------
(***************************************************************************)
(* What the log of a build promises to whoever follows it, whatever        *)
(* happens to the connections in between: every event once and in order,   *)
(* except for stretches that are announced as truncated, and those only    *)
(* before the last Retained events.                                        *)
(***************************************************************************)
EXTENDS Integers, Sequences

CONSTANT Retained  \* how many of the latest events are always there to be read

VARIABLES
  from,     \* the sequence number the reader wants to read after
  written,  \* how many events there have been
  output    \* what the reader has been shown, in order

log == <<from, written, output>>

Position == IF output = <<>> THEN from ELSE output[Len(output)].seq

Init == from \in Nat /\ written = 0 /\ output = <<>>

Write == written' = written + 1 /\ UNCHANGED <<from, output>>

\* The event that follows the position.
Show ==
  /\ Position < written
  /\ output' = Append(output, [seq |-> Position + 1, gap |-> FALSE])
  /\ UNCHANGED <<from, written>>

\* A notice that everything up to s is gone.
Skip(s) ==
  /\ Position < s /\ s <= written - Retained
  /\ output' = Append(output, [seq |-> s, gap |-> TRUE])
  /\ UNCHANGED <<from, written>>

Next == Write \/ Show \/ \E s \in 1..written : Skip(s)

Spec == Init /\ [][Next]_log

=============================================================================
