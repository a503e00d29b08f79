SPECIFICATION RateSpec
CONSTANTS
  r1 = r1
  r2 = r2
  r3 = r3
  u1 = u1
  u2 = u2
  c1 = c1
  Requests = {r1, r2, r3}
  Users = {u1, u2}
  ClusterUsers = {c1}
  Hosts = {h1, h2}
  Wrap = 16
  wildcarded = {}
  user <- MCuser
  packet <- MCpacket
  toUser <- MCtoUser
  maxConcurrentQueries <- MCnone
  reqPerMin <- MCreqPerMin
  maxQueueSize <- MCnone
  tokensBurst <- MCtokensBurst
SYMMETRY MCSymmetry
INVARIANTS RateOvershoot ConnectionsExact
