\* A build with at most two log lines and a stream that retains two events, beside
\* a command that starts it or tails it from the first or second event; a request is
\* repeated once, and anything that may break or be interrupted does.
CONSTANTS
  Retained = 2
  MaxLogs = 2
  Callbacks = {TRUE, FALSE}
  MayCrash = TRUE
  MayBreak = {"cut", "reset"}
  Modes = {"start", "tail"}
  Afters = {0, 1}
  Retries = 1
  MayFail = TRUE
  MayInterrupt = TRUE
SPECIFICATION FairSpec
INVARIANTS TypeOK SuccessGenuine ReportFailureShown NoWorkLeft
PROPERTIES LogKept CommandEnds
\* A command that has ended does nothing more.
CHECK_DEADLOCK FALSE
