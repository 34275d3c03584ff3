\* Two pairs, two handlers that sign, two clients, two handlers that write; the
\* alarm rings two ticks after it is set and is tried twice.
CONSTANTS
  Key = {k1, k2}
  Request = {r1, r2}
  None = none
  Socket = {s1, s2}
  Interval = 2
  Attempts = 2
  Writers = {w1, w2}
  Off = off
SPECIFICATION Spec
INVARIANTS
  TypeOK
  TokensHonoured
  LockedOut
  AlarmArmed
  ToldOfWrites
PROPERTIES
  KeysSettle
  KeptAlive
  FallsQuiet
