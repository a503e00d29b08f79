SPECIFICATION FairSpec
CONSTANTS
  r1 = r1
  r2 = r2
  r3 = r3
  u1 = u1
  u2 = u2
  c1 = c1
  h1 = h1
  Requests = {r1, r2, r3}
  Users = {u1, u2}
  ClusterUsers = {c1}
  Hosts = {h1, h2}
  Wrap = 4
  wildcarded = {r3}
  user <- MCuser
  packet <- MCpacket
  toUser <- MCtoUser
  maxConcurrentQueries <- MCmaxConcurrentQueries
  reqPerMin <- MCnone
  maxQueueSize <- MCmaxQueueSize
  tokensBurst <- MCnone
INVARIANTS ConcurrencyLimit CountersExact QueueExact
PROPERTIES QueuedReturns Admits
CONSTRAINT MCHostBound
