\* Two handlers at a time; the clock moves once.
CONSTANTS
  Secret = {k1}
  NoSecret = none
  Request = {r1, r2}
  MaxStep = 1
  MaxRow = 2
  MaxCode = 2
SPECIFICATION Spec
SYMMETRY Symmetry
INVARIANTS
  TypeOK
  ReplayExplained
  SpentRecoveryExplained
CHECK_DEADLOCK FALSE
