\* One request that two commands dispatch, two targets, in a coordinator that may
\* restart at any point; calls may break off, saves succeed, targets stay.
CONSTANTS
  Requests = {r1}
  Targets = {m1, m2}
  Dispatchers = {d1, d2}
  None = none
  QueueLimit = 1
  Loads = {0}
  Leaving = {}
  AnswersMayBeLost = TRUE
  StatePath = TRUE
  SaveMayFail = FALSE
  MayRestart = TRUE
SPECIFICATION BuildSpec
SYMMETRY Symmetric
INVARIANTS BuildTypeOK SuccessOnRecord
PROPERTIES ResultKept RestartKeepsDispatches
