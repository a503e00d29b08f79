SPECIFICATION Spec
CONSTANTS
  N = 3
  MaxConn = 1
  MaxPen = 1
  MaxUint = 15
INVARIANTS PickedWasUp PickedLeast QuietPick
CHECK_DEADLOCK FALSE
