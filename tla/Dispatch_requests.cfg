SPECIFICATION Spec
CONSTRAINT MCBound
CONSTANTS
  q1 = q1
  q2 = q2
  NoSession = NoSession
  Requests = {q1, q2}
  session <- MCsession
  Replicas = 2
  Nodes <- MCSingle
  retryNumber = 1
  MaxPenalty = 1
  Wrap = 2
INVARIANTS DispatchTypeOK LoadExact NothingRuns
PROPERTIES SessionHome PicksActive BoundedWork
