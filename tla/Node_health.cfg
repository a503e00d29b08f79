SPECIFICATION FairSpec
CONSTANTS
  Callers = {r1, r2}
  penaltySize = 2
  penaltyMaxSize = 3
  Wrap = 16
INVARIANTS PenaltyExact PenaltyBound
PROPERTIES DownDetected UpDetected PenaltyFades
