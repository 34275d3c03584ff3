\* The promise of delete_devices_for_user, under in-flight grants.
CONSTANTS
  User = {u1, u2}
  ClientId = {d1}
  GeneratedId = {g1}
  Password = {p1}
  UserKey = {k1}
  Request = {r1, r2}
  MaxStamp = 3
  MaxJti = 2
SPECIFICATION Spec
SYMMETRY Symmetry
INVARIANTS
  RefreshMatchesStamp
CHECK_DEADLOCK FALSE
