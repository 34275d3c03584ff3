--------------------------- MODULE SessionsProofs ---------------------------
(***************************************************************************)
(* Proofs about Sessions, for any users, devices, passwords, keys, number   *)
(* of concurrent requests and bounds.                                       *)
(***************************************************************************)
EXTENDS Sessions, TLAPS

-----------------------------------------------------------------------------
(* The operators the actions are built from. *)

LEMMA MintedTokenType ==
  ASSUME TypeOK, NEW u \in User, NEW d \in DeviceId, NEW s \in Nat
  PROVE  MintedToken(u, d, s) \in Token
BY Zenon DEF MintedToken, Token, TypeOK, StampIs

LEMMA SetTokenType ==
  ASSUME devices \subseteq DeviceRow, Unique(devices),
         NEW d, NEW t \in Token
  PROVE  SetToken(d, t) \subseteq DeviceRow /\ Unique(SetToken(d, t))
BY DEF SetToken, DeviceRow, Unique

LEMMA UpsertedType ==
  ASSUME devices \subseteq DeviceRow, Unique(devices),
         NEW d \in DeviceId, NEW u \in User, NEW t \in Token
  PROVE  Upserted(d, u, t) \subseteq DeviceRow /\ Unique(Upserted(d, u, t))
<1>1. CASE \E row \in devices : row.uuid = d
  BY <1>1, SetTokenType DEF Upserted
<1>2. CASE ~ \E row \in devices : row.uuid = d
  BY <1>2 DEF Upserted, DeviceRow, Unique
<1>. QED BY <1>1, <1>2

LEMMA RotatedType ==
  ASSUME NEW c \in Change, NEW row \in UserRow, nextStamp \in Nat
  PROVE  /\ Rotated(c, row) \in UserRow
         /\ Rotated(c, row).uuid = row.uuid
         /\ Rotated(c, row).stamp = nextStamp
BY DEF Rotated, Change, UserRow

-----------------------------------------------------------------------------
(* Type correctness.  Primary keys stay unique because ids are generated     *)
(* fresh, so the two invariants are proved together.                        *)

TypeInv == TypeOK /\ Generated

LEMMA TypeInit == Init => TypeInv
BY DEF Init, TypeInv, TypeOK, Generated, Unique

LEMMA RegisterType ==
  ASSUME TypeInv, NEW u \in User, Register(u) PROVE TypeInv'
<1>1. PICK new \in UserRow : /\ users' = users \cup {new}
                             /\ new.uuid = u /\ new.stamp = nextStamp
  <2>1. PICK p \in Password, k \in UserKey : users' = users \cup
          {[uuid |-> u, stamp |-> nextStamp, pw |-> p,
            akey |-> [pw |-> p, key |-> k], priv |-> k, api |-> FALSE]}
    BY DEF Register
  <2>. DEFINE new == [uuid |-> u, stamp |-> nextStamp, pw |-> p,
                      akey |-> [pw |-> p, key |-> k], priv |-> k, api |-> FALSE]
  <2>2. nextStamp \in Nat
    BY DEF TypeInv, TypeOK
  <2>3. new \in UserRow /\ new.uuid = u /\ new.stamp = nextStamp
    BY <2>2 DEF UserRow
  <2>. HIDE DEF new
  <2>4. users' = users \cup {new}
    BY <2>1 DEF new
  <2>. QED BY <2>3, <2>4
<1>2. TypeOK'
  <2>1. \A row \in users : row.uuid # u
    BY DEF Register, TypeInv, Generated
  <2>2. users' \subseteq UserRow /\ Unique(users')
    BY <1>1, <2>1 DEF TypeInv, TypeOK, Unique
  <2>. QED BY <2>2 DEF Register, TypeInv, TypeOK
<1>3. Generated'
  <2>1. \A row \in users' : row.uuid \in registered' /\ row.stamp < nextStamp'
    BY <1>1 DEF Register, TypeInv, TypeOK, Generated, UserRow
  <2>2. \A l \in logins' : l.user \in registered' /\ l.stamp < nextStamp'
    BY DEF Register, TypeInv, TypeOK, Generated, Login
  <2>3. \A f \in refreshes' : f.tok \in handed' /\ f.stamp < nextStamp'
    BY DEF Register, TypeInv, TypeOK, Generated, Refresh
  <2>4. \A c \in changes' : c.user \in registered' /\ c.stamp < nextStamp'
    BY DEF Register, TypeInv, TypeOK, Generated, Change
  <2>5. \A a \in access' : a.sub \in registered' /\ a.stamp < nextStamp'
    BY DEF Register, TypeInv, TypeOK, Generated, AccessToken
  <2>6. /\ \A d \in devices' : d.user \in registered'
        /\ \A t \in handed' : t.sub \in registered' /\ t.jti < nextJti'
    BY DEF Register, TypeInv, Generated
  <2>. QED BY <2>1, <2>2, <2>3, <2>4, <2>5, <2>6 DEF Generated
<1>. QED BY <1>2, <1>3 DEF TypeInv

LEMMA BeginLoginType ==
  ASSUME TypeInv, NEW r \in Request, NEW g, BeginLogin(r, g) PROVE TypeInv'
<1>1. PICK row \in users, d \in DeviceId, pc \in {"find_device", "upsert_device"} :
        logins' = logins \cup {[id |-> r, user |-> row.uuid,
                    stamp |-> row.stamp, dev |-> d, pc |-> pc]}
  BY DEF BeginLogin, DeviceId
<1>2. TypeOK'
  BY <1>1 DEF BeginLogin, TypeInv, TypeOK, Login, UserRow
<1>3. Generated'
  BY <1>1 DEF BeginLogin, TypeInv, Generated
<1>. QED BY <1>2, <1>3 DEF TypeInv

LEMMA LoginFindDeviceType ==
  ASSUME TypeInv, NEW l \in logins, LoginFindDevice(l) PROVE TypeInv'
<1>1. PICK d \in DeviceId : logins' = (logins \ {l}) \cup
                      {[l EXCEPT !.dev = d, !.pc = "upsert_device"]}
  BY DEF LoginFindDevice
<1>2. TypeOK'
  BY <1>1 DEF LoginFindDevice, TypeInv, TypeOK, Login
<1>3. Generated'
  BY <1>1 DEF LoginFindDevice, TypeInv, TypeOK, Login, Generated
<1>. QED BY <1>2, <1>3 DEF TypeInv

\* Storing and handing over a token, which both grants end with.
LEMMA StoreTokenType ==
  ASSUME TypeInv, NEW u \in User, NEW d \in DeviceId, NEW s \in Nat,
         u \in registered, s < nextStamp,
         HandOver(MintedToken(u, d, s), s)
  PROVE  /\ handed \subseteq handed' /\ handed' \subseteq Token
         /\ access' \subseteq AccessToken
         /\ nextJti' \in Nat
         /\ \A t \in handed' : t.sub \in registered /\ t.jti < nextJti'
         /\ \A a \in access' : a.sub \in registered /\ a.stamp < nextStamp
<1>1. MintedToken(u, d, s) \in Token
  BY MintedTokenType DEF TypeInv
<1>2. /\ MintedToken(u, d, s).jti = nextJti
      /\ MintedToken(u, d, s).sub = u
  BY DEF MintedToken
<1>. QED BY <1>1, <1>2 DEF HandOver, TypeInv, TypeOK, Generated, AccessToken, Token

LEMMA LoginUpsertDeviceType ==
  ASSUME TypeInv, NEW l \in logins, LoginUpsertDevice(l) PROVE TypeInv'
<1>. DEFINE t == MintedToken(l.user, l.dev, l.stamp)
<1>0. /\ l.user \in User /\ l.dev \in DeviceId /\ l.stamp \in Nat
      /\ l.user \in registered /\ l.stamp < nextStamp
  BY DEF TypeInv, TypeOK, Login, Generated
<1>1. t \in Token
  BY <1>0, MintedTokenType DEF TypeInv
<1>2. Upserted(l.dev, l.user, t) \subseteq DeviceRow
      /\ Unique(Upserted(l.dev, l.user, t))
  BY <1>0, <1>1, UpsertedType DEF TypeInv, TypeOK
<1>3. \A d \in Upserted(l.dev, l.user, t) : d.user \in registered
  BY <1>0, <1>1 DEF Upserted, SetToken, TypeInv, TypeOK, Generated, DeviceRow
<1>4. HandOver(t, l.stamp) /\ devices' = Upserted(l.dev, l.user, t)
  BY DEF LoginUpsertDevice
<1>5. /\ handed \subseteq handed' /\ handed' \subseteq Token
      /\ access' \subseteq AccessToken
      /\ nextJti' \in Nat
      /\ \A x \in handed' : x.sub \in registered /\ x.jti < nextJti'
      /\ \A a \in access' : a.sub \in registered /\ a.stamp < nextStamp
  BY <1>0, <1>4, StoreTokenType
<1>. HIDE DEF t
<1>6. TypeOK'
  BY <1>2, <1>4, <1>5 DEF LoginUpsertDevice, TypeInv, TypeOK
<1>7. Generated'
  BY <1>3, <1>4, <1>5 DEF LoginUpsertDevice, TypeInv, Generated
<1>. QED BY <1>6, <1>7 DEF TypeInv

LEMMA RefreshType ==
  ASSUME TypeInv,
         \/ \E r \in Request : BeginRefresh(r)
         \/ \E f \in refreshes : RefreshFindDevice(f)
         \/ \E f \in refreshes : AbandonRefresh(f)
  PROVE  TypeInv'
<1>1. ASSUME NEW r \in Request, BeginRefresh(r) PROVE TypeInv'
  <2>1. PICK t \in handed, row \in users : refreshes' = refreshes \cup
          {[id |-> r, tok |-> t, stamp |-> row.stamp, pc |-> "find_device"]}
    BY <1>1 DEF BeginRefresh
  <2>. QED
    BY <1>1, <2>1 DEF BeginRefresh, TypeInv, TypeOK, Generated, Refresh, UserRow
<1>2. ASSUME NEW f \in refreshes, RefreshFindDevice(f) PROVE TypeInv'
  BY <1>2 DEF RefreshFindDevice, TypeInv, TypeOK, Generated, Refresh
<1>3. ASSUME NEW f \in refreshes, AbandonRefresh(f) PROVE TypeInv'
  BY <1>3 DEF AbandonRefresh, TypeInv, TypeOK, Generated
<1>. QED BY <1>1, <1>2, <1>3

LEMMA RefreshUpdateTokenType ==
  ASSUME TypeInv, NEW f \in refreshes, RefreshUpdateToken(f) PROVE TypeInv'
<1>. DEFINE t == Successor(f)
<1>0. /\ f.tok.sub \in User /\ f.tok.device \in DeviceId /\ f.stamp \in Nat
      /\ f.tok \in handed /\ f.tok.sub \in registered /\ f.stamp < nextStamp
  BY DEF TypeInv, TypeOK, Refresh, Token, Generated
<1>1. t \in Token
  BY <1>0, MintedTokenType DEF TypeInv, Successor
<1>2. /\ SetToken(f.tok.device, t) \subseteq DeviceRow
      /\ Unique(SetToken(f.tok.device, t))
  BY <1>1, SetTokenType DEF TypeInv, TypeOK
<1>3. \A d \in SetToken(f.tok.device, t) : d.user \in registered
  BY <1>1 DEF SetToken, TypeInv, TypeOK, Generated, DeviceRow
<1>4. HandOver(t, f.stamp) /\ devices' = SetToken(f.tok.device, t)
  BY DEF RefreshUpdateToken
<1>5. /\ handed \subseteq handed' /\ handed' \subseteq Token
      /\ access' \subseteq AccessToken
      /\ nextJti' \in Nat
      /\ \A x \in handed' : x.sub \in registered /\ x.jti < nextJti'
      /\ \A a \in access' : a.sub \in registered /\ a.stamp < nextStamp
  BY <1>0, <1>4, StoreTokenType DEF Successor
<1>. HIDE DEF t
<1>6. TypeOK'
  BY <1>2, <1>4, <1>5 DEF RefreshUpdateToken, TypeInv, TypeOK
<1>7. Generated'
  BY <1>3, <1>4, <1>5 DEF RefreshUpdateToken, TypeInv, Generated
<1>. QED BY <1>6, <1>7 DEF TypeInv

LEMMA BeginChangeType ==
  ASSUME TypeInv, NEW r \in Request, NEW op \in Changes, BeginChange(r, op)
  PROVE  TypeInv'
<1>1. PICK a \in access, p \in Password, q \in Password, k \in UserKey :
        changes' = changes \cup
          {[id |-> r, op |-> op, user |-> a.sub, stamp |-> a.stamp,
            pw |-> p, newPw |-> q, key |-> k, pc |-> "verify"]}
  BY DEF BeginChange
<1>2. TypeOK'
  BY <1>1 DEF BeginChange, TypeInv, TypeOK, Change, AccessToken
<1>3. Generated'
  BY <1>1 DEF BeginChange, TypeInv, TypeOK, Generated
<1>. QED BY <1>2, <1>3 DEF TypeInv

LEMMA RotateStampType ==
  ASSUME TypeInv, NEW c \in changes, RotateStamp(c) PROVE TypeInv'
<1>0. c \in Change /\ users \subseteq UserRow /\ nextStamp \in Nat
  BY DEF TypeInv, TypeOK
<1>1. \A row \in users : /\ Rotated(c, row) \in UserRow
                          /\ Rotated(c, row).uuid = row.uuid
                          /\ Rotated(c, row).stamp = nextStamp
  BY <1>0, RotatedType
<1>2. \A row \in users' : \E old \in users :
         /\ row.uuid = old.uuid
         /\ row = IF old.uuid = c.user THEN Rotated(c, old) ELSE old
  BY <1>1 DEF RotateStamp
<1>3. users' \subseteq UserRow /\ Unique(users')
  BY <1>0, <1>1, <1>2 DEF TypeInv, TypeOK, Unique
<1>4. changes' = (changes \ {c}) \cup {[c EXCEPT !.pc = "purge"]}
  BY DEF RotateStamp
<1>5. changes' \subseteq Change
  BY <1>0, <1>4 DEF TypeInv, TypeOK, Change
<1>6. TypeOK'
  BY <1>0, <1>3, <1>5 DEF RotateStamp, TypeInv, TypeOK, Change
<1>7. Generated'
  <2>1. \A row \in users' : row.uuid \in registered' /\ row.stamp < nextStamp'
    BY <1>0, <1>1, <1>2 DEF RotateStamp, TypeInv, Generated, UserRow
  <2>2. \A l \in logins' : l.user \in registered' /\ l.stamp < nextStamp'
    BY <1>0 DEF RotateStamp, TypeInv, TypeOK, Generated, Login
  <2>3. \A f \in refreshes' : f.tok \in handed' /\ f.stamp < nextStamp'
    BY <1>0 DEF RotateStamp, TypeInv, TypeOK, Generated, Refresh
  <2>4. \A x \in changes' : x.user \in registered' /\ x.stamp < nextStamp'
    <3>1. \A x \in changes' : \E y \in changes :
             x.user = y.user /\ x.stamp = y.stamp
      BY <1>0, <1>4 DEF Change
    <3>. QED
      BY <1>0, <3>1 DEF RotateStamp, TypeInv, TypeOK, Generated, Change
  <2>5. \A a \in access' : a.sub \in registered' /\ a.stamp < nextStamp'
    BY <1>0 DEF RotateStamp, TypeInv, TypeOK, Generated, AccessToken
  <2>6. /\ \A d \in devices' : d.user \in registered'
        /\ \A t \in handed' : t.sub \in registered' /\ t.jti < nextJti'
    BY DEF RotateStamp, TypeInv, Generated
  <2>. QED BY <2>1, <2>2, <2>3, <2>4, <2>5, <2>6 DEF Generated
<1>. QED BY <1>6, <1>7 DEF TypeInv

LEMMA WriteApiKeyType ==
  ASSUME TypeInv, NEW c \in changes, WriteApiKey(c) PROVE TypeInv'
<1>1. users' = {IF row.uuid = c.user THEN [row EXCEPT !.api = TRUE] ELSE row :
                 row \in users}
  BY DEF WriteApiKey
<1>2. users \subseteq UserRow
  BY DEF TypeInv, TypeOK
<1>3. \A row \in users' : \E old \in users :
         /\ row = IF old.uuid = c.user THEN [old EXCEPT !.api = TRUE] ELSE old
         /\ row.uuid = old.uuid /\ row.stamp = old.stamp
         /\ row \in UserRow
  BY <1>1, <1>2 DEF UserRow
<1>4. users' \subseteq UserRow /\ Unique(users')
  <2>1. ASSUME NEW r \in users', NEW s \in users', r.uuid = s.uuid
        PROVE  r = s
    <3>1. PICK x \in users, y \in users :
            /\ r = IF x.uuid = c.user THEN [x EXCEPT !.api = TRUE] ELSE x
            /\ s = IF y.uuid = c.user THEN [y EXCEPT !.api = TRUE] ELSE y
            /\ r.uuid = x.uuid /\ s.uuid = y.uuid
      BY <1>3
    <3>2. x = y
      BY <2>1, <3>1 DEF TypeInv, TypeOK, Unique
    <3>. QED BY <3>1, <3>2
  <2>. QED BY <1>3, <2>1 DEF Unique
<1>5. TypeOK'
  BY <1>4 DEF WriteApiKey, TypeInv, TypeOK
<1>6. Generated'
  BY <1>3 DEF WriteApiKey, TypeInv, TypeOK, Generated
<1>. QED BY <1>5, <1>6 DEF TypeInv

\* The other steps of a change only advance it or delete rows.
LEMMA ChangeType ==
  ASSUME TypeInv, NEW c \in changes,
         \/ VerifyPassword(c) \/ PurgeDevices(c) \/ DeleteDevices(c)
         \/ DeleteUser(c) \/ AbandonChange(c)
  PROVE  TypeInv'
<1>0. c \in Change
  BY DEF TypeInv, TypeOK
<1>1. \A p \in {"write", "delete_user"} :
        /\ [c EXCEPT !.pc = p] \in Change
        /\ [c EXCEPT !.pc = p].user = c.user
        /\ [c EXCEPT !.pc = p].stamp = c.stamp
  BY <1>0 DEF Change
<1>2. CASE VerifyPassword(c)
  <2>1. \/ changes' = changes \ {c}
        \/ changes' = (changes \ {c}) \cup {[c EXCEPT !.pc = "write"]}
    BY <1>2 DEF VerifyPassword
  <2>. QED BY <1>1, <1>2, <2>1 DEF VerifyPassword, TypeInv, TypeOK, Generated
<1>3. CASE PurgeDevices(c)
  BY <1>0, <1>3 DEF PurgeDevices, DevicesWithout, TypeInv, TypeOK, Generated, Unique
<1>4. CASE DeleteDevices(c)
  <2>1. /\ changes' = (changes \ {c}) \cup {[c EXCEPT !.pc = "delete_user"]}
        /\ devices' \subseteq devices
    BY <1>4 DEF DeleteDevices, DevicesWithout
  <2>. QED
    BY <1>1, <1>4, <2>1 DEF DeleteDevices, TypeInv, TypeOK, Generated, Unique
<1>5. CASE DeleteUser(c)
  BY <1>0, <1>5 DEF DeleteUser, TypeInv, TypeOK, Generated, Unique
<1>6. CASE AbandonChange(c)
  BY <1>0, <1>6 DEF AbandonChange, TypeInv, TypeOK, Generated, Change
<1>. QED BY <1>2, <1>3, <1>4, <1>5, <1>6

LEMMA TypeNext == TypeInv /\ [Next]_vars => TypeInv'
<1>. SUFFICES ASSUME TypeInv, [Next]_vars PROVE TypeInv'
  OBVIOUS
<1>1. ASSUME NEW u \in User, Register(u) PROVE TypeInv'
  BY <1>1, RegisterType
<1>2. ASSUME NEW r \in Request, Begin(r) PROVE TypeInv'
  BY <1>2, BeginLoginType, RefreshType, BeginChangeType DEF Begin
<1>3. ASSUME NEW l \in logins, LoginStep(l) PROVE TypeInv'
  <2>1. CASE AbandonLogin(l)
    BY <2>1 DEF AbandonLogin, TypeInv, TypeOK, Generated
  <2>. QED
    BY <1>3, <2>1, LoginFindDeviceType, LoginUpsertDeviceType DEF LoginStep
<1>4. ASSUME NEW f \in refreshes, RefreshStep(f) PROVE TypeInv'
  BY <1>4, RefreshType, RefreshUpdateTokenType DEF RefreshStep
<1>5. ASSUME NEW c \in changes, ChangeStep(c) PROVE TypeInv'
  BY <1>5, RotateStampType, WriteApiKeyType, ChangeType DEF ChangeStep
<1>6. CASE UNCHANGED vars
  BY <1>6 DEF vars, TypeInv, TypeOK, Generated, Unique
<1>. QED BY <1>1, <1>2, <1>3, <1>4, <1>5, <1>6 DEF Next

LEMMA TypeInvariant == Spec => []TypeInv
BY TypeInit, TypeNext, PTL DEF Spec

\* The tables are well-formed and their primary keys unique.
THEOREM TypeCorrect == Spec => []TypeOK
<1>1. TypeInv => TypeOK
  BY DEF TypeInv
<1>. QED BY <1>1, TypeInvariant, PTL
-----------------------------------------------------------------------------
(* What replaces a stored token is new: it was never handed out before.      *)

LEMMA StoredTokens ==
  ASSUME TypeInv, NEW t \in Token, NEW d, NEW u
  PROVE  /\ {x.token : x \in SetToken(d, t)} \subseteq Stored \cup {t}
         /\ {x.token : x \in Upserted(d, u, t)} \subseteq Stored \cup {t}
<1>1. {x.token : x \in SetToken(d, t)} \subseteq Stored \cup {t}
  BY DEF TypeInv, TypeOK, DeviceRow, SetToken, Stored
<1>2. CASE \E row \in devices : row.uuid = d
  BY <1>1, <1>2 DEF Upserted
<1>3. CASE ~ \E row \in devices : row.uuid = d
  BY <1>1, <1>3 DEF Upserted, Stored
<1>. QED BY <1>1, <1>2, <1>3

\* A step that stores a token stores one nobody holds yet; any other step
\* stores none.
LEMMA StoredStep ==
  ASSUME TypeInv, [Next]_vars, NEW t \in handed, t \notin Stored
  PROVE  t \notin Stored'
<1>. USE DEF Stored
<1>1. ASSUME NEW l \in logins, LoginUpsertDevice(l) PROVE t \notin Stored'
  <2>. DEFINE new == MintedToken(l.user, l.dev, l.stamp)
  <2>1. new \in Token
    BY MintedTokenType DEF TypeInv, TypeOK, Login
  <2>2. new.jti = nextJti /\ t.jti < nextJti /\ nextJti \in Nat
    BY DEF MintedToken, TypeInv, TypeOK, Generated
  <2>3. devices' = Upserted(l.dev, l.user, new)
    BY <1>1 DEF LoginUpsertDevice
  <2>. HIDE DEF new
  <2>4. Stored' \subseteq Stored \cup {new}
    BY <2>1, <2>3, StoredTokens
  <2>. QED BY <2>2, <2>4
<1>2. ASSUME NEW f \in refreshes, RefreshUpdateToken(f) PROVE t \notin Stored'
  <2>. DEFINE new == Successor(f)
  <2>1. new \in Token
    BY MintedTokenType DEF TypeInv, TypeOK, Refresh, Token, Successor
  <2>2. new.jti = nextJti /\ t.jti < nextJti /\ nextJti \in Nat
    BY DEF Successor, MintedToken, TypeInv, TypeOK, Generated
  <2>3. devices' = SetToken(f.tok.device, new)
    BY <1>2 DEF RefreshUpdateToken
  <2>. HIDE DEF new
  <2>4. Stored' \subseteq Stored \cup {new}
    BY <2>1, <2>3, StoredTokens
  <2>. QED BY <2>2, <2>4
<1>3. ASSUME NEW c \in changes, PurgeDevices(c) \/ DeleteDevices(c)
      PROVE  t \notin Stored'
  BY <1>3 DEF PurgeDevices, DeleteDevices, DevicesWithout
<1>4. CASE UNCHANGED devices
  BY <1>4
<1>5. \/ UNCHANGED devices
      \/ \E l \in logins : LoginUpsertDevice(l)
      \/ \E f \in refreshes : RefreshUpdateToken(f)
      \/ \E c \in changes : PurgeDevices(c) \/ DeleteDevices(c)
  BY DEF Next, vars, Register, Begin, BeginLogin, BeginRefresh, BeginChange,
         LoginStep, LoginFindDevice, AbandonLogin,
         RefreshStep, RefreshFindDevice, AbandonRefresh,
         ChangeStep, VerifyPassword, RotateStamp, WriteApiKey, DeleteUser,
         AbandonChange
<1>. QED BY <1>1, <1>2, <1>3, <1>4, <1>5

\* Refresh token rotation: a token that was rotated out, replaced by a login
\* or purged is never accepted again.
THEOREM SupersededTokens == Spec => SupersededTokenStaysDead
<1>1. TypeInv /\ [Next]_vars =>
        [\A t \in handed : t \notin Stored => t \notin Stored']_vars
  BY StoredStep
<1>. QED BY <1>1, TypeInvariant, PTL DEF Spec, SupersededTokenStaysDead

-----------------------------------------------------------------------------
(* Stamps: the users rows of the next state, seen from this one.             *)

\* A row keeps its credentials, or it is rewritten under a stamp that no token
\* and no handler has seen.
LEMMA UsersStep ==
  ASSUME TypeInv, [Next]_vars, NEW row \in users'
  PROVE  \/ row.stamp = nextStamp
         \/ \E old \in users : /\ row.uuid = old.uuid /\ row.stamp = old.stamp
                               /\ row.pw = old.pw /\ row.akey = old.akey
                               /\ row.priv = old.priv
<1>. DEFINE Kept == \E old \in users :
                      /\ row.uuid = old.uuid /\ row.stamp = old.stamp
                      /\ row.pw = old.pw /\ row.akey = old.akey
                      /\ row.priv = old.priv
<1>1. CASE users' = users
  BY <1>1
<1>2. ASSUME NEW u \in User, Register(u) PROVE row.stamp = nextStamp \/ Kept
  BY <1>2 DEF Register
<1>3. ASSUME NEW c \in changes, RotateStamp(c)
      PROVE  row.stamp = nextStamp \/ Kept
  <2>1. PICK old \in users :
          row = IF old.uuid = c.user THEN Rotated(c, old) ELSE old
    BY <1>3 DEF RotateStamp
  <2>2. Rotated(c, old).stamp = nextStamp
    BY RotatedType DEF TypeInv, TypeOK
  <2>. QED BY <2>1, <2>2
<1>4. ASSUME NEW c \in changes, WriteApiKey(c) PROVE Kept
  <2>1. PICK old \in users :
          row = IF old.uuid = c.user THEN [old EXCEPT !.api = TRUE] ELSE old
    BY <1>4 DEF WriteApiKey
  <2>. QED BY <2>1 DEF TypeInv, TypeOK, UserRow
<1>5. ASSUME NEW c \in changes, DeleteUser(c) PROVE Kept
  BY <1>5 DEF DeleteUser
<1>6. \/ users' = users
      \/ \E u \in User : Register(u)
      \/ \E c \in changes : RotateStamp(c) \/ WriteApiKey(c) \/ DeleteUser(c)
  BY DEF Next, vars, Begin, BeginLogin, BeginRefresh, BeginChange,
         LoginStep, LoginFindDevice, LoginUpsertDevice, AbandonLogin,
         RefreshStep, RefreshFindDevice, RefreshUpdateToken, AbandonRefresh,
         ChangeStep, VerifyPassword, PurgeDevices, DeleteDevices, AbandonChange
<1>. QED BY <1>1, <1>2, <1>3, <1>4, <1>5, <1>6

\* Stamp rotation revokes access tokens for good.
THEOREM RevokedAccess == Spec => RevokedAccessStaysRevoked
<1>1. ASSUME TypeInv, [Next]_vars, NEW a \in access, ~Valid(a)
      PROVE  ~(Valid(a)')
  <2>1. a.stamp < nextStamp /\ nextStamp \in Nat
    BY <1>1 DEF TypeInv, TypeOK, Generated
  <2>2. ASSUME NEW row \in users', row.uuid = a.sub, row.stamp = a.stamp
        PROVE  FALSE
    <3>1. row.stamp # nextStamp
      BY <2>1, <2>2
    <3>. QED BY <1>1, <2>2, <3>1, UsersStep DEF Valid, StampIs
  <2>. QED BY <2>2 DEF Valid, StampIs
<1>2. TypeInv /\ [Next]_vars =>
        [\A a \in access : ~Valid(a) => ~(Valid(a)')]_vars
  BY <1>1
<1>. QED BY <1>2, TypeInvariant, PTL DEF Spec, RevokedAccessStaysRevoked
-----------------------------------------------------------------------------
(* The vault key opens.  A credential write that finds the stamp it           *)
(* authenticated under finds the row it authenticated against, because every  *)
(* write of those columns also writes a fresh stamp.                          *)

VaultInv == TypeInv /\ ChangesKnowRow /\ VaultKeyOpens

\* A handler that begins or advances knows what ChangesKnowRow says.
LEMMA ChangesStep ==
  ASSUME TypeInv, ChangesKnowRow, [Next]_vars, NEW c \in changes'
  PROVE  /\ c.op # "password" => c.newPw = c.pw
         /\ c.stamp < nextStamp
         /\ \A row \in users : row.uuid = c.user /\ row.stamp = c.stamp =>
              /\ c.op # "keys" => c.key = row.akey.key
              /\ c.pc = "write" => c.pw = row.pw
<1>. DEFINE Knows ==
       /\ c.op # "password" => c.newPw = c.pw
       /\ c.stamp < nextStamp
       /\ \A row \in users : row.uuid = c.user /\ row.stamp = c.stamp =>
            /\ c.op # "keys" => c.key = row.akey.key
            /\ c.pc = "write" => c.pw = row.pw
<1>1. CASE c \in changes
  BY <1>1 DEF ChangesKnowRow, TypeInv, Generated
<1>2. ASSUME NEW r \in Request, NEW op \in Changes, BeginChange(r, op),
             c \notin changes
      PROVE  Knows
  <2>1. PICK a \in access, row \in users, p \in Password, q \in Password,
             k \in UserKey :
          /\ row.uuid = a.sub /\ row.stamp = a.stamp
          /\ op # "password" => q = p
          /\ op # "keys" => k = row.akey.key
          /\ c = [id |-> r, op |-> op, user |-> a.sub, stamp |-> a.stamp,
                  pw |-> p, newPw |-> q, key |-> k, pc |-> "verify"]
    BY <1>2 DEF BeginChange
  <2>. QED BY <2>1 DEF TypeInv, TypeOK, Unique, Generated
<1>3. ASSUME NEW b \in changes, VerifyPassword(b), c \notin changes
      PROVE  Knows
  <2>1. PICK row \in users :
          /\ row.uuid = b.user /\ row.pw = b.pw
          /\ c = [b EXCEPT !.pc = "write"]
    BY <1>3 DEF VerifyPassword
  <2>2. b \in Change
    BY DEF TypeInv, TypeOK
  <2>. QED
    BY <2>1, <2>2 DEF ChangesKnowRow, TypeInv, TypeOK, Unique, Generated, Change
<1>4. ASSUME NEW b \in changes, RotateStamp(b) \/ DeleteDevices(b),
             c \notin changes
      PROVE  Knows
  <2>1. c = [b EXCEPT !.pc = "purge"] \/ c = [b EXCEPT !.pc = "delete_user"]
    BY <1>4 DEF RotateStamp, DeleteDevices
  <2>2. b \in Change
    BY DEF TypeInv, TypeOK
  <2>. QED
    BY <2>1, <2>2 DEF ChangesKnowRow, TypeInv, TypeOK, Generated, Change
<1>5. \/ changes' \subseteq changes
      \/ \E r \in Request, op \in Changes : BeginChange(r, op)
      \/ \E b \in changes :
           VerifyPassword(b) \/ RotateStamp(b) \/ DeleteDevices(b)
  BY DEF Next, vars, Register, Begin, BeginLogin, BeginRefresh,
         LoginStep, LoginFindDevice, LoginUpsertDevice, AbandonLogin,
         RefreshStep, RefreshFindDevice, RefreshUpdateToken, AbandonRefresh,
         ChangeStep, PurgeDevices, WriteApiKey, DeleteUser, AbandonChange
<1>. QED BY <1>1, <1>2, <1>3, <1>4, <1>5

LEMMA ChangesKnowRowNext ==
  TypeInv /\ ChangesKnowRow /\ [Next]_vars => ChangesKnowRow'
<1>. SUFFICES ASSUME TypeInv, ChangesKnowRow, [Next]_vars,
                     NEW c \in changes'
              PROVE  /\ c.op # "password" => c.newPw = c.pw
                     /\ \A row \in users' :
                          row.uuid = c.user /\ row.stamp = c.stamp =>
                            /\ c.op # "keys" => c.key = row.akey.key
                            /\ c.pc = "write" => c.pw = row.pw
  BY DEF ChangesKnowRow
<1>1. /\ c.op # "password" => c.newPw = c.pw
      /\ c.stamp < nextStamp
      /\ \A row \in users : row.uuid = c.user /\ row.stamp = c.stamp =>
           /\ c.op # "keys" => c.key = row.akey.key
           /\ c.pc = "write" => c.pw = row.pw
  BY ChangesStep
<1>2. nextStamp \in Nat
  BY DEF TypeInv, TypeOK
<1>3. ASSUME NEW row \in users', row.uuid = c.user, row.stamp = c.stamp
      PROVE  /\ c.op # "keys" => c.key = row.akey.key
             /\ c.pc = "write" => c.pw = row.pw
  <2>1. row.stamp # nextStamp
    BY <1>1, <1>2, <1>3
  <2>2. PICK old \in users : /\ row.uuid = old.uuid /\ row.stamp = old.stamp
                             /\ row.pw = old.pw /\ row.akey = old.akey
    BY <2>1, UsersStep
  <2>. QED BY <1>1, <1>3, <2>2
<1>. QED BY <1>1, <1>3

LEMMA VaultNext == VaultInv /\ [Next]_vars => VaultKeyOpens'
<1>. SUFFICES ASSUME VaultInv, [Next]_vars,
                     NEW row \in users', row.uuid \notin lost'
              PROVE  row.akey.pw = row.pw /\ row.akey.key = row.priv
  BY DEF VaultKeyOpens
<1>. USE DEF VaultInv
<1>1. lost \subseteq lost'
  BY DEF Next, vars, Register, Begin, BeginLogin, BeginRefresh, BeginChange,
         LoginStep, LoginFindDevice, LoginUpsertDevice, AbandonLogin,
         RefreshStep, RefreshFindDevice, RefreshUpdateToken, AbandonRefresh,
         ChangeStep, VerifyPassword, PurgeDevices, RotateStamp, WriteApiKey,
         DeleteDevices, DeleteUser, AbandonChange
<1>2. CASE \E old \in users : /\ row.uuid = old.uuid
                              /\ row.pw = old.pw /\ row.akey = old.akey
                              /\ row.priv = old.priv
  BY <1>1, <1>2 DEF VaultKeyOpens
<1>3. ASSUME NEW u \in User, Register(u), row \notin users
      PROVE  row.akey.pw = row.pw /\ row.akey.key = row.priv
  BY <1>3 DEF Register
<1>4. ASSUME NEW c \in changes, RotateStamp(c), row \notin users
      PROVE  row.akey.pw = row.pw /\ row.akey.key = row.priv
  <2>1. PICK old \in users : old.uuid = c.user /\ row = Rotated(c, old)
    BY <1>4 DEF RotateStamp
  <2>2. c \in Change /\ old \in UserRow /\ nextStamp \in Nat
    BY DEF TypeInv, TypeOK
  <2>3. row.uuid = c.user
    BY <2>1, <2>2, RotatedType
  <2>4. old.akey.pw = old.pw /\ old.akey.key = old.priv
    BY <1>1, <2>1, <2>3 DEF VaultKeyOpens
  <2>5. CASE c.op = "stamp"
    BY <2>1, <2>2, <2>4, <2>5 DEF Rotated, UserRow
  <2>6. CASE c.op # "stamp"
    <3>1. StampIs(c.user, c.stamp)
      BY <1>4, <2>3, <2>6 DEF RotateStamp
    <3>2. old.stamp = c.stamp
      BY <2>1, <3>1 DEF StampIs, TypeInv, TypeOK, Unique
    <3>3. /\ c.op # "password" => c.newPw = c.pw
          /\ c.op # "keys" => c.key = old.akey.key
          /\ c.pw = old.pw
      BY <1>4, <2>1, <3>2 DEF RotateStamp, ChangesKnowRow
    <3>4. c.op \in {"password", "keys"}
      BY <1>4, <2>6 DEF RotateStamp, Rotations
    <3>. QED BY <2>1, <2>2, <2>4, <3>3, <3>4 DEF Rotated, UserRow
  <2>. QED BY <2>5, <2>6
<1>5. row.stamp = nextStamp \/ \E old \in users :
        /\ row.uuid = old.uuid /\ row.pw = old.pw /\ row.akey = old.akey
        /\ row.priv = old.priv
  BY UsersStep
<1>6. CASE row.stamp = nextStamp
  <2>1. row \notin users
    BY <1>6 DEF TypeInv, TypeOK, Generated
  <2>2. ASSUME NEW c \in changes, WriteApiKey(c) PROVE FALSE
    <3>1. PICK old \in users :
            row = IF old.uuid = c.user THEN [old EXCEPT !.api = TRUE] ELSE old
      BY <2>2 DEF WriteApiKey
    <3>2. row.stamp = old.stamp
      BY <3>1 DEF TypeInv, TypeOK, UserRow
    <3>. QED BY <1>6, <3>2 DEF TypeInv, TypeOK, Generated
  <2>3. \/ users' \subseteq users
        \/ \E u \in User : Register(u)
        \/ \E c \in changes : RotateStamp(c) \/ WriteApiKey(c)
    BY DEF Next, vars, Begin, BeginLogin, BeginRefresh, BeginChange,
           LoginStep, LoginFindDevice, LoginUpsertDevice, AbandonLogin,
           RefreshStep, RefreshFindDevice, RefreshUpdateToken, AbandonRefresh,
           ChangeStep, VerifyPassword, PurgeDevices, DeleteDevices, DeleteUser,
           AbandonChange
  <2>. QED BY <1>3, <1>4, <2>1, <2>2, <2>3
<1>. QED BY <1>2, <1>5, <1>6

\* Password and key changes never lock a user out of the vault, except by
\* overwriting a change committed after they authenticated.
THEOREM VaultStaysOpen == Spec => []VaultKeyOpens
<1>1. Init => ChangesKnowRow /\ VaultKeyOpens
  BY DEF Init, ChangesKnowRow, VaultKeyOpens
<1>. QED BY <1>1, TypeInit, TypeNext, ChangesKnowRowNext, VaultNext, PTL
         DEF Spec, VaultInv
-----------------------------------------------------------------------------
(* Refresh tokens across a rotation of the security stamp.                   *)

Explained(d) == \/ d.user \in cut
                \/ \E c \in changes : c.user = d.user /\ c.pc = "purge"
                \/ ~d.token.timely

\* What is explained stays explained for as long as the row exists.
LEMMA ExplainedStep ==
  ASSUME TypeInv, [Next]_vars, NEW d \in devices, d \in devices', Explained(d)
  PROVE  Explained(d)'
<1>1. CASE ~d.token.timely
  BY <1>1 DEF Explained
<1>2. CASE d.user \in cut
  <2>1. d.user \in cut'
    <3>1. ASSUME NEW c \in changes, PurgeDevices(c) PROVE d.user \in cut'
      BY <1>2, <3>1 DEF PurgeDevices, DevicesWithout
    <3>2. ASSUME NEW c \in changes, AbandonChange(c) PROVE d.user \in cut'
      BY <1>2, <3>2 DEF AbandonChange
    <3>3. \/ cut' = cut
          \/ \E c \in changes : PurgeDevices(c) \/ AbandonChange(c)
      BY DEF Next, vars, Register, Begin, BeginLogin, BeginRefresh, BeginChange,
             LoginStep, LoginFindDevice, LoginUpsertDevice, AbandonLogin,
             RefreshStep, RefreshFindDevice, RefreshUpdateToken, AbandonRefresh,
             ChangeStep, VerifyPassword, RotateStamp, WriteApiKey,
             DeleteDevices, DeleteUser
    <3>. QED BY <1>2, <3>1, <3>2, <3>3
  <2>. QED BY <2>1 DEF Explained
<1>3. ASSUME NEW c \in changes, c.user = d.user, c.pc = "purge"
      PROVE  Explained(d)'
  <2>1. CASE PurgeDevices(c)
    BY <1>3, <2>1 DEF PurgeDevices, DevicesWithout
  <2>2. CASE AbandonChange(c)
    BY <1>3, <2>2 DEF AbandonChange, Explained
  <2>3. CASE c \in changes'
    BY <1>3, <2>3 DEF Explained
  <2>4. c \in changes' \/ PurgeDevices(c) \/ AbandonChange(c)
    BY <1>3 DEF Next, vars, Register, Begin, BeginLogin, BeginRefresh, BeginChange,
                LoginStep, LoginFindDevice, LoginUpsertDevice, AbandonLogin,
                RefreshStep, RefreshFindDevice, RefreshUpdateToken, AbandonRefresh,
                ChangeStep, VerifyPassword, RotateStamp, PurgeDevices, WriteApiKey,
                DeleteDevices, DeleteUser, AbandonChange
  <2>. QED BY <2>1, <2>2, <2>3, <2>4
<1>. QED BY <1>1, <1>2, <1>3 DEF Explained

\* A row turns stale by the rotation of its own user's stamp, which goes on to
\* purge the user's devices.
LEMMA TurnsStale ==
  ASSUME TypeInv, [Next]_vars, NEW d \in devices, ~Stale(d), Stale(d)'
  PROVE  Explained(d)'
<1>1. PICK row \in users' : row.uuid = d.user /\ row.stamp # d.token.epoch
  BY DEF Stale
<1>2. d.user = d.token.sub
  BY DEF Stale
<1>3. row \notin users
  BY <1>1, <1>2 DEF Stale
<1>4. ASSUME NEW u \in User, Register(u) PROVE FALSE
  <2>1. row.uuid = u
    BY <1>3, <1>4 DEF Register
  <2>. QED BY <1>1, <1>4, <2>1 DEF Register, TypeInv, Generated
<1>5. ASSUME NEW c \in changes, WriteApiKey(c) PROVE FALSE
  <2>1. PICK old \in users :
          row = IF old.uuid = c.user THEN [old EXCEPT !.api = TRUE] ELSE old
    BY <1>5 DEF WriteApiKey
  <2>2. row.uuid = old.uuid /\ row.stamp = old.stamp
    BY <2>1 DEF TypeInv, TypeOK, UserRow
  <2>. QED BY <1>1, <1>2, <2>2 DEF Stale
<1>6. ASSUME NEW c \in changes, RotateStamp(c) PROVE Explained(d)'
  <2>1. PICK old \in users :
          row = IF old.uuid = c.user THEN Rotated(c, old) ELSE old
    BY <1>6 DEF RotateStamp
  <2>2. c \in Change /\ old \in UserRow /\ nextStamp \in Nat
    BY DEF TypeInv, TypeOK
  <2>3. d.user = c.user
    BY <1>1, <1>3, <2>1, <2>2, RotatedType
  <2>4. [c EXCEPT !.pc = "purge"] \in changes'
    BY <1>6 DEF RotateStamp
  <2>5. [c EXCEPT !.pc = "purge"].user = d.user /\ [c EXCEPT !.pc = "purge"].pc = "purge"
    BY <2>2, <2>3 DEF Change
  <2>. QED BY <2>4, <2>5 DEF Explained
<1>7. \/ users' \subseteq users
      \/ \E u \in User : Register(u)
      \/ \E c \in changes : RotateStamp(c) \/ WriteApiKey(c)
  BY DEF Next, vars, Begin, BeginLogin, BeginRefresh, BeginChange,
         LoginStep, LoginFindDevice, LoginUpsertDevice, AbandonLogin,
         RefreshStep, RefreshFindDevice, RefreshUpdateToken, AbandonRefresh,
         ChangeStep, VerifyPassword, PurgeDevices, DeleteDevices, DeleteUser,
         AbandonChange
<1>. QED BY <1>3, <1>4, <1>5, <1>6, <1>7

\* A row written stale carries a token that was not timely.
LEMMA WrittenStale ==
  ASSUME TypeInv, [Next]_vars, NEW d \in devices', d \notin devices, Stale(d)'
  PROVE  ~d.token.timely
<1>1. PICK row \in users' : row.uuid = d.user /\ row.stamp # d.token.epoch
  BY DEF Stale
<1>2. d.user = d.token.sub
  BY DEF Stale
<1>3. ASSUME NEW u \in User, NEW e \in DeviceId, NEW s \in Nat,
             d.token = MintedToken(u, e, s), users' = users
      PROVE  ~d.token.timely
  <2>. DEFINE b == StampIs(u, s)
  <2>1. d.token = [sub |-> u, device |-> e, jti |-> nextJti,
                   epoch |-> s, timely |-> b]
    BY <1>3 DEF MintedToken
  <2>2. ~b
    BY <1>1, <1>2, <1>3, <2>1 DEF StampIs, TypeInv, TypeOK, Unique
  <2>. HIDE DEF b
  <2>. QED BY <2>1, <2>2
<1>4. ASSUME NEW l \in logins, LoginUpsertDevice(l) PROVE ~d.token.timely
  <2>. DEFINE t == MintedToken(l.user, l.dev, l.stamp)
  <2>1. l.user \in User /\ l.dev \in DeviceId /\ l.stamp \in Nat
    BY DEF TypeInv, TypeOK, Login
  <2>2. devices' = Upserted(l.dev, l.user, t) /\ users' = users
    BY <1>4 DEF LoginUpsertDevice
  <2>. HIDE DEF t
  <2>3. d.token = t
    BY <2>2 DEF Upserted, SetToken, TypeInv, TypeOK, DeviceRow
  <2>. QED BY <1>3, <2>1, <2>2, <2>3 DEF t
<1>5. ASSUME NEW f \in refreshes, RefreshUpdateToken(f) PROVE ~d.token.timely
  <2>. DEFINE t == Successor(f)
  <2>1. f.tok.sub \in User /\ f.tok.device \in DeviceId /\ f.stamp \in Nat
    BY DEF TypeInv, TypeOK, Refresh, Token
  <2>2. devices' = SetToken(f.tok.device, t) /\ users' = users
    BY <1>5 DEF RefreshUpdateToken
  <2>. HIDE DEF t
  <2>3. d.token = t
    BY <2>2 DEF SetToken, TypeInv, TypeOK, DeviceRow
  <2>. QED BY <1>3, <2>1, <2>2, <2>3 DEF t, Successor
<1>6. \/ devices' \subseteq devices
      \/ \E l \in logins : LoginUpsertDevice(l)
      \/ \E f \in refreshes : RefreshUpdateToken(f)
  BY DEF Next, vars, Register, Begin, BeginLogin, BeginRefresh, BeginChange,
         LoginStep, LoginFindDevice, AbandonLogin,
         RefreshStep, RefreshFindDevice, AbandonRefresh,
         ChangeStep, VerifyPassword, RotateStamp, PurgeDevices, WriteApiKey,
         DeleteDevices, DevicesWithout, DeleteUser, AbandonChange
<1>. QED BY <1>4, <1>5, <1>6

\* The only ways a refresh token outlives a rotation of its user's stamp.
THEOREM StaleSessions == Spec => []StaleSessionExplained
<1>1. Init => StaleSessionExplained
  BY DEF Init, StaleSessionExplained
<1>2. TypeInv /\ StaleSessionExplained /\ [Next]_vars => StaleSessionExplained'
  <2>1. SUFFICES ASSUME TypeInv, StaleSessionExplained, [Next]_vars,
                        NEW d \in devices', Stale(d)'
                 PROVE  Explained(d)'
    BY DEF StaleSessionExplained, Explained
  <2>2. CASE d \notin devices
    BY <2>1, <2>2, WrittenStale DEF Explained
  <2>3. CASE d \in devices /\ Stale(d)
    BY <2>1, <2>3, ExplainedStep DEF StaleSessionExplained, Explained
  <2>4. CASE d \in devices /\ ~Stale(d)
    BY <2>1, <2>4, TurnsStale
  <2>. QED BY <2>2, <2>3, <2>4
<1>. QED BY <1>1, <1>2, TypeInvariant, PTL DEF Spec

-----------------------------------------------------------------------------
(* One handler at a time: what the comments promise of refresh tokens and of  *)
(* device rows is broken by nothing but handlers that overlap.                *)

OneAtATime == \A r, s \in Request : r = s

Solo ==
  /\ \A l, m \in logins : l = m
  /\ \A f, g \in refreshes : f = g
  /\ \A c, e \in changes : c = e
  /\ logins # {} => refreshes = {} /\ changes = {}
  /\ refreshes # {} => changes = {}

\* The grant in flight works under the stamp its user has now, on a device row
\* that is that user's.
LoginsKnow ==
  \A l \in logins :
    /\ StampIs(l.user, l.stamp)
    /\ l.pc = "upsert_device" =>
         \A d \in devices : d.uuid = l.dev => d.user = l.user

RefreshesKnow ==
  \A f \in refreshes :
    /\ StampIs(f.tok.sub, f.stamp)
    /\ f.pc = "update_token" =>
         \A d \in devices : d.uuid = f.tok.device => d.user = f.tok.sub

DevicesTrue == \A d \in devices : d.token.timely /\ d.token.sub = d.user

AloneInv == Solo /\ LoginsKnow /\ RefreshesKnow /\ DevicesTrue

LEMMA Idle ==
  ASSUME OneAtATime, TypeInv, NEW r \in Request, r \notin Busy
  PROVE  logins = {} /\ refreshes = {} /\ changes = {}
<1>1. /\ \A l \in logins : l.id \in Request /\ l.id \in Busy
      /\ \A f \in refreshes : f.id \in Request /\ f.id \in Busy
      /\ \A c \in changes : c.id \in Request /\ c.id \in Busy
  BY DEF TypeInv, TypeOK, Login, Refresh, Change, Busy
<1>. QED BY <1>1 DEF OneAtATime

LEMMA SetTokenKeeps ==
  ASSUME TypeInv, DevicesTrue, NEW d, NEW t \in Token, t.timely,
         \A row \in devices : row.uuid = d => row.user = t.sub
  PROVE  \A x \in SetToken(d, t) : x.token.timely /\ x.token.sub = x.user
<1>. TAKE x \in SetToken(d, t)
<1>1. PICK row \in devices :
        x = IF row.uuid = d THEN [row EXCEPT !.token = t] ELSE row
  BY DEF SetToken
<1>2. row \in DeviceRow
  BY DEF TypeInv, TypeOK
<1>3. CASE row.uuid = d
  <2>1. x.token = t /\ x.user = row.user
    BY <1>1, <1>2, <1>3 DEF DeviceRow
  <2>. QED BY <1>3, <2>1
<1>4. CASE row.uuid # d
  BY <1>1, <1>4 DEF DevicesTrue
<1>. QED BY <1>3, <1>4

LEMMA AloneBegin ==
  ASSUME OneAtATime, TypeInv, AloneInv, NEW r \in Request, Begin(r)
  PROVE  AloneInv'
<1>1. ASSUME NEW g, BeginLogin(r, g) PROVE AloneInv'
  <2>1. logins = {} /\ refreshes = {} /\ changes = {}
    BY <1>1, Idle DEF BeginLogin
  <2>2. PICK row \in users, d \in DeviceId, pc \in {"find_device", "upsert_device"} :
          /\ logins' = {[id |-> r, user |-> row.uuid, stamp |-> row.stamp,
                         dev |-> d, pc |-> pc]}
          /\ pc = "upsert_device" => Unused(d)
    BY <1>1, <2>1 DEF BeginLogin, DeviceId
  <2>. DEFINE l == [id |-> r, user |-> row.uuid, stamp |-> row.stamp,
                    dev |-> d, pc |-> pc]
  <2>4. /\ logins' = {l} /\ l.user = row.uuid /\ l.stamp = row.stamp
        /\ l.dev = d /\ l.pc = pc
    BY <2>2
  <2>. HIDE DEF l
  <2>5. /\ StampIs(l.user, l.stamp)
        /\ l.pc = "upsert_device" => \A x \in devices : x.uuid # l.dev
    BY <2>2, <2>4 DEF StampIs, Unused
  <2>3. UNCHANGED <<users, devices, refreshes, changes>>
    BY <1>1 DEF BeginLogin
  <2>. QED BY <2>1, <2>3, <2>4, <2>5 DEF AloneInv, Solo, LoginsKnow, RefreshesKnow,
                                   DevicesTrue, StampIs
<1>2. CASE BeginRefresh(r)
  <2>1. logins = {} /\ refreshes = {} /\ changes = {}
    BY <1>2, Idle DEF BeginRefresh
  <2>2. PICK t \in handed, row \in users :
          /\ row.uuid = t.sub
          /\ refreshes' = {[id |-> r, tok |-> t, stamp |-> row.stamp,
                            pc |-> "find_device"]}
    BY <1>2, <2>1 DEF BeginRefresh
  <2>. DEFINE f == [id |-> r, tok |-> t, stamp |-> row.stamp, pc |-> "find_device"]
  <2>4. refreshes' = {f} /\ f.tok = t /\ f.stamp = row.stamp /\ f.pc = "find_device"
    BY <2>2
  <2>. HIDE DEF f
  <2>5. StampIs(f.tok.sub, f.stamp)
    BY <2>2, <2>4 DEF StampIs
  <2>3. UNCHANGED <<users, devices, logins, changes>>
    BY <1>2 DEF BeginRefresh
  <2>. QED BY <2>1, <2>3, <2>4, <2>5 DEF AloneInv, Solo, LoginsKnow, RefreshesKnow,
                                   DevicesTrue, StampIs
<1>3. ASSUME NEW op \in Changes, BeginChange(r, op) PROVE AloneInv'
  <2>1. logins = {} /\ refreshes = {} /\ changes = {}
    BY <1>3, Idle DEF BeginChange
  <2>2. PICK c : changes' = {c}
    BY <1>3, <2>1 DEF BeginChange
  <2>3. UNCHANGED <<users, devices, logins, refreshes>>
    BY <1>3 DEF BeginChange
  <2>. QED BY <2>1, <2>2, <2>3 DEF AloneInv, Solo, LoginsKnow, RefreshesKnow,
                                   DevicesTrue
<1>. QED BY <1>1, <1>2, <1>3 DEF Begin

LEMMA AloneLogin ==
  ASSUME TypeInv, AloneInv, NEW l \in logins, LoginStep(l) PROVE AloneInv'
<1>1. logins = {l} /\ refreshes = {} /\ changes = {}
  BY DEF AloneInv, Solo
<1>2. l \in Login
  BY DEF TypeInv, TypeOK
<1>3. CASE LoginFindDevice(l)
  <2>1. PICK d \in DeviceId :
          /\ ChosenDevice(l, d)
          /\ logins' = {[l EXCEPT !.dev = d, !.pc = "upsert_device"]}
    BY <1>1, <1>3 DEF LoginFindDevice
  <2>. DEFINE m == [l EXCEPT !.dev = d, !.pc = "upsert_device"]
  <2>2. logins' = {m} /\ m.user = l.user /\ m.stamp = l.stamp /\ m.dev = d
    BY <1>2, <2>1 DEF Login
  <2>. HIDE DEF m
  <2>3. \A row \in devices : row.uuid = d => row.user = l.user
    BY <2>1 DEF ChosenDevice, Unused
  <2>4. UNCHANGED <<users, devices, refreshes, changes>>
    BY <1>3 DEF LoginFindDevice
  <2>. QED BY <1>1, <2>2, <2>3, <2>4 DEF AloneInv, Solo, LoginsKnow,
                                         RefreshesKnow, DevicesTrue, StampIs
<1>4. CASE LoginUpsertDevice(l)
  <2>. DEFINE t == MintedToken(l.user, l.dev, l.stamp)
  <2>1. t \in Token
    BY <1>2, MintedTokenType DEF TypeInv, TypeOK, Login
  <2>2. t.timely /\ t.sub = l.user
    BY DEF MintedToken, AloneInv, LoginsKnow
  <2>3. \A row \in devices : row.uuid = l.dev => row.user = l.user
    BY <1>4 DEF LoginUpsertDevice, AloneInv, LoginsKnow
  <2>4. devices' = Upserted(l.dev, l.user, t)
    BY <1>4 DEF LoginUpsertDevice
  <2>. HIDE DEF t
  <2>5. \A x \in devices' : x.token.timely /\ x.token.sub = x.user
    <3>1. CASE \E row \in devices : row.uuid = l.dev
      <4>1. devices' = SetToken(l.dev, t)
        BY <2>4, <3>1 DEF Upserted
      <4>. QED BY <2>1, <2>2, <2>3, <4>1, SetTokenKeeps DEF AloneInv
    <3>2. CASE ~ \E row \in devices : row.uuid = l.dev
      <4>1. devices' = devices \cup {[uuid |-> l.dev, user |-> l.user, token |-> t]}
        BY <2>4, <3>2 DEF Upserted
      <4>. QED BY <2>2, <4>1 DEF AloneInv, DevicesTrue
    <3>. QED BY <3>1, <3>2
  <2>6. logins' = {} /\ refreshes' = {} /\ changes' = {}
    BY <1>1, <1>4 DEF LoginUpsertDevice
  <2>. QED BY <2>5, <2>6 DEF AloneInv, Solo, LoginsKnow, RefreshesKnow, DevicesTrue
<1>5. CASE AbandonLogin(l)
  BY <1>1, <1>5 DEF AbandonLogin, AloneInv, Solo, LoginsKnow, RefreshesKnow,
                    DevicesTrue
<1>. QED BY <1>3, <1>4, <1>5 DEF LoginStep

LEMMA AloneRefresh ==
  ASSUME TypeInv, AloneInv, NEW f \in refreshes, RefreshStep(f) PROVE AloneInv'
<1>1. logins = {} /\ refreshes = {f} /\ changes = {}
  BY DEF AloneInv, Solo
<1>2. f \in Refresh
  BY DEF TypeInv, TypeOK
<1>3. CASE RefreshFindDevice(f)
  <2>. DEFINE g == [f EXCEPT !.pc = "update_token"]
  <2>1. refreshes' = {g} /\ g.tok = f.tok /\ g.stamp = f.stamp
    BY <1>1, <1>2, <1>3 DEF RefreshFindDevice, Refresh
  <2>. HIDE DEF g
  <2>2. \A d \in devices : d.uuid = f.tok.device => d.user = f.tok.sub
    BY <1>3 DEF RefreshFindDevice, AloneInv, DevicesTrue, TypeInv, TypeOK, Unique
  <2>3. UNCHANGED <<users, devices, logins, changes>>
    BY <1>3 DEF RefreshFindDevice
  <2>. QED BY <1>1, <2>1, <2>2, <2>3 DEF AloneInv, Solo, LoginsKnow,
                                         RefreshesKnow, DevicesTrue, StampIs
<1>4. CASE RefreshUpdateToken(f)
  <2>. DEFINE t == Successor(f)
  <2>1. t \in Token
    BY <1>2, MintedTokenType DEF TypeInv, TypeOK, Refresh, Token, Successor
  <2>2. t.timely /\ t.sub = f.tok.sub
    BY DEF Successor, MintedToken, AloneInv, RefreshesKnow
  <2>3. \A d \in devices : d.uuid = f.tok.device => d.user = f.tok.sub
    BY <1>4 DEF RefreshUpdateToken, AloneInv, RefreshesKnow
  <2>4. devices' = SetToken(f.tok.device, t)
    BY <1>4 DEF RefreshUpdateToken
  <2>. HIDE DEF t
  <2>5. \A x \in devices' : x.token.timely /\ x.token.sub = x.user
    BY <2>1, <2>2, <2>3, <2>4, SetTokenKeeps DEF AloneInv
  <2>6. logins' = {} /\ refreshes' = {} /\ changes' = {}
    BY <1>1, <1>4 DEF RefreshUpdateToken
  <2>. QED BY <2>5, <2>6 DEF AloneInv, Solo, LoginsKnow, RefreshesKnow, DevicesTrue
<1>5. CASE AbandonRefresh(f)
  BY <1>1, <1>5 DEF AbandonRefresh, AloneInv, Solo, LoginsKnow, RefreshesKnow,
                    DevicesTrue
<1>. QED BY <1>3, <1>4, <1>5 DEF RefreshStep

LEMMA AloneChange ==
  ASSUME TypeInv, AloneInv, NEW c \in changes, ChangeStep(c) PROVE AloneInv'
<1>1. logins = {} /\ refreshes = {} /\ changes = {c}
  BY DEF AloneInv, Solo
<1>2. logins' = {} /\ refreshes' = {}
  BY <1>1 DEF ChangeStep, VerifyPassword, RotateStamp, PurgeDevices, WriteApiKey,
              DeleteDevices, DeleteUser, AbandonChange
<1>3. \A d, e \in changes' : d = e
  BY <1>1 DEF ChangeStep, VerifyPassword, RotateStamp, PurgeDevices, WriteApiKey,
              DeleteDevices, DeleteUser, AbandonChange
<1>4. devices' \subseteq devices
  BY DEF ChangeStep, VerifyPassword, RotateStamp, PurgeDevices, WriteApiKey,
         DeleteDevices, DeleteUser, AbandonChange, DevicesWithout
<1>. QED BY <1>2, <1>3, <1>4 DEF AloneInv, Solo, LoginsKnow, RefreshesKnow,
                                 DevicesTrue

LEMMA AloneNext == OneAtATime /\ TypeInv /\ AloneInv /\ [Next]_vars => AloneInv'
<1>. SUFFICES ASSUME OneAtATime, TypeInv, AloneInv, [Next]_vars PROVE AloneInv'
  OBVIOUS
<1>1. ASSUME NEW u \in User, Register(u) PROVE AloneInv'
  <2>1. /\ users \subseteq users'
        /\ UNCHANGED <<devices, logins, refreshes, changes>>
    BY <1>1 DEF Register
  <2>. QED BY <2>1 DEF AloneInv, Solo, LoginsKnow, RefreshesKnow, DevicesTrue,
                       StampIs
<1>2. CASE UNCHANGED vars
  BY <1>2 DEF vars, AloneInv, Solo, LoginsKnow, RefreshesKnow, DevicesTrue, StampIs
<1>. QED BY <1>1, <1>2, AloneBegin, AloneLogin, AloneRefresh, AloneChange DEF Next

LEMMA AloneInvariant == OneAtATime => (Spec => [](TypeInv /\ AloneInv))
<1>. SUFFICES ASSUME OneAtATime PROVE Spec => [](TypeInv /\ AloneInv)
  OBVIOUS
<1>1. Init => AloneInv
  BY DEF Init, AloneInv, Solo, LoginsKnow, RefreshesKnow, DevicesTrue
<1>2. TypeInv /\ AloneInv /\ [Next]_vars => AloneInv'
  BY AloneNext
<1>. QED BY <1>1, <1>2, TypeInvariant, PTL DEF Spec

\* The promise of delete_devices_for_user, "no stale device row": a rotation
\* that has completed leaves no refresh token issued under an older stamp.
THEOREM RefreshMatchesStampAlone == OneAtATime => (Spec => []RefreshMatchesStamp)
<1>. SUFFICES ASSUME OneAtATime PROVE Spec => []RefreshMatchesStamp
  OBVIOUS
<1>1. AloneInv /\ StaleSessionExplained => RefreshMatchesStamp
  BY DEF AloneInv, DevicesTrue, StaleSessionExplained, RefreshMatchesStamp
<1>. QED BY <1>1, AloneInvariant, StaleSessions, PTL

\* The promise of handle_password_grant, that a device row is never filed under
\* a user whose token it does not hold.
THEOREM DeviceTokenMatchesOwnerAlone ==
  OneAtATime => (Spec => []DeviceTokenMatchesOwner)
<1>. SUFFICES ASSUME OneAtATime PROVE Spec => []DeviceTokenMatchesOwner
  OBVIOUS
<1>1. AloneInv => DeviceTokenMatchesOwner
  BY DEF AloneInv, DevicesTrue, DeviceTokenMatchesOwner
<1>. QED BY <1>1, AloneInvariant, PTL
\* A change that has not written yet works under the stamp its user has now.
ChangesCurrent ==
  \A c \in changes : c.pc \in {"verify", "write"} => StampIs(c.user, c.stamp)

CurrentInv == ChangesCurrent /\ lost = {}

LEMMA NothingLost ==
  ASSUME OneAtATime, TypeInv, AloneInv, CurrentInv, [Next]_vars
  PROVE  CurrentInv'
<1>. USE DEF CurrentInv
<1>1. ASSUME NEW u \in User, Register(u) PROVE ChangesCurrent' /\ lost' = {}
  <2>1. users \subseteq users' /\ UNCHANGED <<changes, lost>>
    BY <1>1 DEF Register
  <2>. QED BY <2>1 DEF ChangesCurrent, StampIs
<1>2. ASSUME NEW r \in Request, NEW op \in Changes, BeginChange(r, op)
      PROVE  ChangesCurrent' /\ lost' = {}
  <2>1. changes = {}
    BY <1>2, Idle DEF BeginChange
  <2>2. PICK c : /\ changes' = {c}
                 /\ StampIs(c.user, c.stamp)
    <3>1. PICK a \in access, row \in users :
            /\ row.uuid = a.sub /\ row.stamp = a.stamp
            /\ \E p, q \in Password, k \in UserKey :
                 changes' = {[id |-> r, op |-> op, user |-> a.sub, stamp |-> a.stamp,
                              pw |-> p, newPw |-> q, key |-> k, pc |-> "verify"]}
      BY <1>2, <2>1 DEF BeginChange
    <3>2. PICK p, q \in Password, k \in UserKey :
            changes' = {[id |-> r, op |-> op, user |-> a.sub, stamp |-> a.stamp,
                         pw |-> p, newPw |-> q, key |-> k, pc |-> "verify"]}
      BY <3>1
    <3>. DEFINE c == [id |-> r, op |-> op, user |-> a.sub, stamp |-> a.stamp,
                      pw |-> p, newPw |-> q, key |-> k, pc |-> "verify"]
    <3>3. changes' = {c} /\ c.user = a.sub /\ c.stamp = a.stamp
      BY <3>2
    <3>. HIDE DEF c
    <3>. QED BY <3>1, <3>3 DEF StampIs
  <2>3. UNCHANGED <<users, lost>>
    BY <1>2 DEF BeginChange
  <2>. QED BY <2>2, <2>3 DEF ChangesCurrent, StampIs
<1>3. ASSUME NEW c \in changes, ChangeStep(c) PROVE ChangesCurrent' /\ lost' = {}
  <2>1. changes = {c} /\ c \in Change
    BY DEF AloneInv, Solo, TypeInv, TypeOK
  <2>2. CASE VerifyPassword(c)
    <3>. DEFINE d == [c EXCEPT !.pc = "write"]
    <3>1. d.user = c.user /\ d.stamp = c.stamp
      BY <2>1 DEF Change
    <3>2. changes' \subseteq {d} /\ c.pc = "verify" /\ UNCHANGED <<users, lost>>
      BY <2>1, <2>2 DEF VerifyPassword
    <3>. QED BY <3>1, <3>2 DEF ChangesCurrent, StampIs
  <2>3. CASE RotateStamp(c)
    <3>1. /\ changes' = {[c EXCEPT !.pc = "purge"]}
          /\ c.pc = "write"
          /\ lost' = IF c.op = "stamp" \/ StampIs(c.user, c.stamp)
                     THEN lost ELSE lost \cup {c.user}
      BY <2>1, <2>3 DEF RotateStamp
    <3>2. [c EXCEPT !.pc = "purge"].pc = "purge"
      BY <2>1 DEF Change
    <3>. QED BY <3>1, <3>2 DEF ChangesCurrent
  <2>4. CASE DeleteDevices(c)
    <3>1. [c EXCEPT !.pc = "delete_user"].pc = "delete_user"
      BY <2>1 DEF Change
    <3>. QED BY <2>1, <2>4, <3>1 DEF DeleteDevices, ChangesCurrent
  <2>5. CASE PurgeDevices(c) \/ WriteApiKey(c) \/ DeleteUser(c) \/ AbandonChange(c)
    BY <2>1, <2>5 DEF PurgeDevices, WriteApiKey, DeleteUser, AbandonChange,
                      ChangesCurrent
  <2>. QED BY <1>3, <2>2, <2>3, <2>4, <2>5 DEF ChangeStep
<1>4. CASE UNCHANGED <<users, changes, lost>>
  BY <1>4 DEF ChangesCurrent, StampIs
<1>5. \/ \E u \in User : Register(u)
      \/ \E r \in Request, op \in Changes : BeginChange(r, op)
      \/ \E c \in changes : ChangeStep(c)
      \/ UNCHANGED <<users, changes, lost>>
  BY DEF Next, Begin, BeginLogin, BeginRefresh, LoginStep, LoginFindDevice,
         LoginUpsertDevice, AbandonLogin, RefreshStep, RefreshFindDevice,
         RefreshUpdateToken, AbandonRefresh, vars
<1>. QED BY <1>1, <1>2, <1>3, <1>4, <1>5

\* Without overlapping requests no sequence of password, KDF and key changes,
\* each of which may stop after any statement, locks a user out of the vault.
THEOREM VaultOpensAlone ==
  OneAtATime =>
    (Spec => [](\A row \in users : /\ row.akey.pw = row.pw
                                   /\ row.akey.key = row.priv))
<1>. SUFFICES ASSUME OneAtATime
              PROVE  Spec => [](\A row \in users : /\ row.akey.pw = row.pw
                                                   /\ row.akey.key = row.priv)
  OBVIOUS
<1>1. Init => CurrentInv
  BY DEF Init, CurrentInv, ChangesCurrent
<1>2. TypeInv /\ AloneInv /\ CurrentInv /\ [Next]_vars => CurrentInv'
  BY NothingLost
<1>3. VaultKeyOpens /\ CurrentInv =>
        \A row \in users : /\ row.akey.pw = row.pw
                           /\ row.akey.key = row.priv
  BY DEF VaultKeyOpens, CurrentInv
<1>. QED BY <1>1, <1>2, <1>3, AloneInvariant, VaultStaysOpen, PTL DEF Spec
=============================================================================
