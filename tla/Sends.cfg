\* One send, two requests at a time; the clock moves once.
CONSTANTS
  Send = {s1}
  Request = {r1, r2}
  None = none
  Settings <- Choices
  MaxTime = 1
  MaxCount = 2
  Base = 2
  Decimals = 3
  Finest = 4
  Hours = {1, 2, 3}
SPECIFICATION Spec
SYMMETRY Symmetry
INVARIANTS
  TypeOK
  OvershootBounded
  ServedCounted
  OrphanExplained
  MissingFileExplained
  PassesOnTime
PROPERTIES
  DeletedStaysDeleted
  PasswordOutlivesEdits
CHECK_DEADLOCK FALSE
