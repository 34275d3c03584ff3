\* A send with a limit of one, visited twice at once.
CONSTANTS
  Send = {s1}
  Request = {r1, r2}
  None = none
  Settings <- Choices
  MaxTime = 1
  MaxCount = 2
  Base = 2
  Decimals = 3
  Finest = 4
  Hours = {1, 2, 3}
SPECIFICATION Spec
SYMMETRY Symmetry
INVARIANTS
  LimitHolds
CHECK_DEADLOCK FALSE
