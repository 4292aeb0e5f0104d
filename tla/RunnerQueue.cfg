\* Three builds without callbacks: a queue of two, pruning down to one retained
\* build, two cancel handlers at once, a reliable ledger, no restart.
CONSTANTS
  Builds = {b1, b2, b3}
  Requests = {r1, r2, r3}
  Clients = {c1, c2}
  Shutdown = shutdown
  None = none
  MaxQueuedBuilds = 2
  MaxRetainedBuilds = 1
  ReportAttempts = 1
  Callbacks = {FALSE}
  CIRegistration = FALSE
  LedgerMayFail = FALSE
  MayPause = FALSE
  Stops = {}
SPECIFICATION Spec
SYMMETRY Symmetric
INVARIANTS SlotHeld QueueSound
PROPERTIES QueuedCancelNeverRuns VerdictStaysVisible ServiceImplemented
\* A runner nobody calls and whose builds are finished rests.
CHECK_DEADLOCK FALSE
