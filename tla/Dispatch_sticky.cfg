SPECIFICATION FairSpec
CONSTANTS
  q1 = q1
  q2 = q2
  NoSession = NoSession
  Requests = {q2}
  session <- MCsession
  Replicas = 2
  Nodes <- MCNodes
  retryNumber = 0
  MaxPenalty = 1
  Wrap = 2
PROPERTIES StickyPicksActive
