\* One request that two commands dispatch while leases run out; expected to be
\* violated.
CONSTANTS
  Requests = {r1}
  Targets = {m1, m2}
  Dispatchers = {d1, d2}
  None = none
  QueueLimit = 1
  Loads = {0}
  Leaving = {"expire"}
  AnswersMayBeLost = TRUE
  StatePath = FALSE
  SaveMayFail = FALSE
  MayRestart = FALSE
SPECIFICATION BuildSpec
SYMMETRY Symmetric
INVARIANTS FailedBuildFails
