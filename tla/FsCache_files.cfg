SPECIFICATION FairSpec
CONSTRAINT MCGets
CONSTANTS
  k1 = k1
  p1 = p1
  p2 = p2
  Keys = {k1}
  Puts = {p1, p2}
  Gets = {g1}
  NoPut = NoPut
  key <- MCkey
  length <- MClength
  maxSize = 1
  Wrap = 64
  MaxFailures = 1
INVARIANTS FsTypeOK WholeAnswer
PROPERTIES ServableKept SizeHeals OutdatedGoes
CHECK_DEADLOCK FALSE
