\* Two builds without callbacks beside the registrar; the pause flag may change
\* at any time and any post may fail.
CONSTANTS
  Builds = {b1, b2}
  Requests = {r1, r2}
  Clients = {c1}
  Shutdown = shutdown
  None = none
  MaxQueuedBuilds = 1
  MaxRetainedBuilds = 1
  ReportAttempts = 1
  Callbacks = {FALSE}
  CIRegistration = TRUE
  LedgerMayFail = FALSE
  MayPause = TRUE
  Stops = {}
SPECIFICATION RegSpec
SYMMETRY Symmetric
INVARIANTS AdvertisedLoadCurrent
