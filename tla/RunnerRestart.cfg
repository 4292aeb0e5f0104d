\* Two builds in a process that may crash and restart at any point,
\* with a ledger whose writes may fail, and clients that pause and resume it.
CONSTANTS
  Builds = {b1, b2}
  Requests = {r1, r2}
  Clients = {c1}
  Shutdown = shutdown
  None = none
  MaxQueuedBuilds = 1
  MaxRetainedBuilds = 1
  ReportAttempts = 1
  Callbacks = {TRUE}
  CIRegistration = TRUE
  LedgerMayFail = TRUE
  MayPause = TRUE
  Stops = {"crash"}
SPECIFICATION Spec
SYMMETRY Symmetric
INVARIANTS ReportsTrue
PROPERTIES VerdictNeverChanges ServiceImplemented
