\* One request, two targets and two goroutines under fairness; calls may break off,
\* targets leave in both ways, and the coordinator, which keeps no state file, restarts.
\* No symmetry, because of liveness.
CONSTANTS
  Requests = {r1}
  Targets = {m1, m2}
  Dispatchers = {d1, d2}
  None = none
  QueueLimit = 1
  Loads = {0}
  Leaving = {"deregister", "expire"}
  AnswersMayBeLost = TRUE
  StatePath = FALSE
  SaveMayFail = FALSE
  MayRestart = TRUE
SPECIFICATION FairSpec
PROPERTIES DispatchEnds
