\* Two owners, and two requests at a time.
CONSTANTS
  User = {u1, u2}
  Member = {m1, m2, m3}
  Collection = {}
  None = none
  Request = {r1, r2}
SPECIFICATION Spec
SYMMETRY Symmetry
PROPERTIES
  LastOwnerStays
CHECK_DEADLOCK FALSE
