\* Two requests at a time, any statement may be a handler's last.
CONSTANTS
  User = {u1, u2}
  ClientId = {d1}
  GeneratedId = {g1}
  Password = {p1, p2}
  UserKey = {k1, k2}
  Request = {r1, r2}
  MaxStamp = 3
  MaxJti = 2
SPECIFICATION Spec
SYMMETRY Symmetry
INVARIANTS
  TypeOK
  StaleSessionExplained
  VaultKeyOpens
PROPERTIES
  SupersededTokenStaysDead
  RevokedAccessStaysRevoked
CHECK_DEADLOCK FALSE
