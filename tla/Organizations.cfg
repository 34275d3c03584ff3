\* Two users, three memberships, or two and one collection.
CONSTANTS
  User = {u1, u2}
  Member = {m1, m2, m3}
  Collection = {c1}
  None = none
  Request = {r1, r2}
SPECIFICATION Spec
SYMMETRY Symmetry
CONSTRAINT RolesOrAccess
INVARIANTS
  TypeOK
  MembershipsBounded
  GrantsHang
  NothingLeft
PROPERTIES
  OwnerLossExplained
  PrivilegesByOwners
CHECK_DEADLOCK FALSE
