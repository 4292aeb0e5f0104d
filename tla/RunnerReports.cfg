\* Two builds with callbacks and two report attempts under fairness, in a process
\* that may be shut down and started again.
CONSTANTS
  Builds = {1, 2}
  Requests = {1, 2}
  Clients = {c1}
  Shutdown = shutdown
  None = none
  MaxQueuedBuilds = 1
  MaxRetainedBuilds = 1
  ReportAttempts = 2
  Callbacks = {TRUE}
  CIRegistration = FALSE
  LedgerMayFail = FALSE
  MayPause = FALSE
  Stops = {"shutdown"}
SPECIFICATION FairSpec
CONSTRAINTS InOrder QuietDrain
INVARIANTS TypeOK ReportsTrue StreamTellsRecord LedgerFinal
PROPERTIES ReportBeforeNextStart BuildsClose ShutdownDrains
