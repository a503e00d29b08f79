SPECIFICATION Spec
CONSTANTS
  Requests = {r1}
  Services = {heartbeat}
  Pools <- MCDefaultPool
  MaxVersion = 2
INVARIANT OldKept
