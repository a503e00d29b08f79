SPECIFICATION FairSpec
CONSTRAINTS MCSizes MCFaults
CONSTANTS
  p1 = p1
  Puts = {p1, p2}
  Gets = {g1}
  Sizes = {1, 3}
  Meta = 1
  Chunk = 2
  Bulk = 1
  Inline = 3
  MaxLate = 1
  NoValue = NoValue
  Torn = Torn
INVARIANTS Published HonestRead
PROPERTIES ReadEnds Atomic
CHECK_DEADLOCK FALSE
