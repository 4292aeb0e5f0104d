\* Two requests, two targets and two dispatching goroutines; targets come and go,
\* calls to runners are answered.  The state file does not matter here.
CONSTANTS
  Requests = {r1, r2}
  Targets = {m1, m2}
  Dispatchers = {d1, d2}
  None = none
  QueueLimit = 1
  Loads = {0}
  Leaving = {"deregister"}
  AnswersMayBeLost = FALSE
  StatePath = FALSE
  SaveMayFail = FALSE
  MayRestart = FALSE
SPECIFICATION Spec
SYMMETRY Symmetric
INVARIANTS ReservationsExact ActiveOwned ResultGenuine
