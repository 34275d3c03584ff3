\* Two users logging in with one device identifier at the same time.
CONSTANTS
  User = {u1, u2}
  ClientId = {d1}
  GeneratedId = {g1}
  Password = {p1}
  UserKey = {k1}
  Request = {r1, r2}
  MaxStamp = 3
  MaxJti = 2
SPECIFICATION Spec
SYMMETRY Symmetry
INVARIANTS
  DeviceTokenMatchesOwner
CHECK_DEADLOCK FALSE
