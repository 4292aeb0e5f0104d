\* No tunnel, or a quick one, which names itself; one success counts for three, and
\* a wait for readiness reads twice.  The public name changes once, any post may fail,
\* and one that was given up may arrive late.
CONSTANTS
  None = none
  Modes = {"off", "quick"}
  Successes = 1
  Patience = 2
  MaxChanges = 1
  MaxLate = 1
  MayFail = TRUE
SPECIFICATION FairSpec
INVARIANTS TypeOK DeregistrationIsLast
PROPERTIES RunEnds RegistrationComes LossAdvertised
\* A process that has returned does nothing more.
CHECK_DEADLOCK FALSE
