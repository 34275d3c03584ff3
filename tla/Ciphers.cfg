\* One cipher, one collection, two users, two handlers at a time.
CONSTANTS
  Cipher = {c1}
  User = {u1, u2}
  Org = org
  Collection = {l1}
  None = none
  Request = {r1, r2}
SPECIFICATION Spec
SYMMETRY Symmetry
CONSTRAINT OneMember
INVARIANTS
  TypeOK
  KeysExplained
  LinksAsAsked
  SyncMissesNothing
PROPERTIES
  WrittenByEntitled
  RefinesVault
