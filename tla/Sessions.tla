------------------------------ MODULE Sessions ------------------------------
(***************************************************************************)
(* Sessions and credentials: the `users` and `devices` tables, the access   *)
(* and refresh tokens handed to clients, and every handler that reads or    *)
(* writes them.  A handler is an async function whose D1 statements are     *)
(* each committed on their own; the handlers of different requests          *)
(* interleave between statements.  One action below is one statement        *)
(* together with the code up to the next one.  A handler whose statement    *)
(* fails, whose check refuses, or whose isolate is evicted simply stops:    *)
(* what it wrote so far stays (Abandon).                                    *)
(*                                                                         *)
(* Tables are sets of rows, keyed by their primary key.                     *)
(***************************************************************************)
EXTENDS Naturals

CONSTANTS
  User,         \* values generate_uuid yields for users.uuid
  ClientId,     \* device identifiers chosen by clients
  GeneratedId,  \* device identifiers minted by generate_uuid
  Password,     \* master password together with its KDF settings
  UserKey,      \* symmetric user keys, the ones that encrypt a vault
  Request,      \* handler instances that may run at the same time
  MaxStamp,     \* bound: security stamps generated
  MaxJti        \* bound: refresh tokens generated

ASSUME BoundsAssumption == MaxStamp \in Nat /\ MaxJti \in Nat

VARIABLES
  users,        \* rows of `users`
  devices,      \* rows of `devices`
  logins,       \* in-flight password and client_credentials grants
  refreshes,    \* in-flight refresh_token grants
  changes,      \* in-flight authenticated changes of the user's row
  access,       \* access tokens handed to clients
  handed,       \* refresh tokens handed to clients
  registered,   \* user ids already given out
  nextStamp,    \* next value generate_uuid yields for a security stamp
  nextJti,      \* next value generate_uuid yields for a token's jti
  cut,          \* history: users with a rotation stopped before its purge
  lost          \* history: users with a vault key written over a newer one

vars == <<users, devices, logins, refreshes, changes, access, handed,
          registered, nextStamp, nextJti, cut, lost>>

DeviceId == ClientId \cup GeneratedId

\* users.akey is the user key wrapped under a password, users.private_key a
\* private key encrypted under the user key named by `priv`.
UserRow == [uuid: User, stamp: Nat, pw: Password,
            akey: [pw: Password, key: UserKey], priv: UserKey, api: BOOLEAN]

\* A refresh JWT.  `epoch` is the stamp of the users row the handler read, and
\* `timely` says that stamp was still current when the token was stored.
Token == [sub: User, device: DeviceId, jti: Nat, epoch: Nat, timely: BOOLEAN]

DeviceRow == [uuid: DeviceId, user: User, token: Token]

\* An access JWT, as far as validate_access_token looks at it.
AccessToken == [sub: User, stamp: Nat]

\* post_password and put_kdf both write a new password-or-KDF secret.
Rotations == {"password", "keys", "stamp"}
Changes == Rotations \cup {"api_key", "rotate_api_key", "delete"}

Login == [id: Request, user: User, stamp: Nat, dev: DeviceId,
          pc: {"find_device", "upsert_device"}]
Refresh == [id: Request, tok: Token, stamp: Nat,
            pc: {"find_device", "update_token"}]
Change == [id: Request, op: Changes, user: User, stamp: Nat, pw: Password,
           newPw: Password, key: UserKey,
           pc: {"verify", "write", "purge", "delete_user"}]

-----------------------------------------------------------------------------
Unique(rows) == \A r, s \in rows : r.uuid = s.uuid => r = s

Stored == {d.token : d \in devices}

Busy == {l.id : l \in logins} \cup {f.id : f \in refreshes}
          \cup {c.id : c \in changes}

\* The stamp a users row holds now is the one a handler read earlier.
StampIs(u, s) == \E row \in users : row.uuid = u /\ row.stamp = s

\* validate_access_token: the token's sstamp is the stored security_stamp.
Valid(a) == StampIs(a.sub, a.stamp)

\* generate_uuid never repeats itself: not an id any row, token or handler has.
Unused(d) == /\ d \in GeneratedId
             /\ \A row \in devices : row.uuid # d
             /\ \A t \in handed : t.device # d
             /\ \A l \in logins : l.dev # d

MintedToken(u, d, s) == [sub |-> u, device |-> d, jti |-> nextJti,
                         epoch |-> s, timely |-> StampIs(u, s)]

SetToken(d, t) == {IF row.uuid = d THEN [row EXCEPT !.token = t] ELSE row :
                     row \in devices}

\* Mutant: an INSERT without ON CONFLICT, into a table with no primary key.
InsertedAlways(d, u, t) == devices \cup {[uuid |-> d, user |-> u, token |-> t]}

\* INSERT ... ON CONFLICT(uuid) DO UPDATE: an existing row keeps its user_uuid.
Upserted(d, u, t) ==
  IF \E row \in devices : row.uuid = d
  THEN SetToken(d, t)
  ELSE devices \cup {[uuid |-> d, user |-> u, token |-> t]}

HandOver(t, s) == /\ handed' = handed \cup {t}
                  /\ access' = access \cup {[sub |-> t.sub, stamp |-> s]}
                  /\ nextJti' = nextJti + 1

\* Mutant: the DELETE filters on the wrong column.
DevicesWithoutUuid(u) == {row \in devices : row.uuid # u}

DevicesWithout(u) == {row \in devices : row.user # u}

-----------------------------------------------------------------------------
Init == /\ users = {} /\ devices = {}
        /\ logins = {} /\ refreshes = {} /\ changes = {}
        /\ access = {} /\ handed = {} /\ registered = {}
        /\ nextStamp = 1 /\ nextJti = 1
        /\ cut = {} /\ lost = {}

\* perform_registration: the client wraps a new user key under its password.
Register(u) ==
  /\ u \notin registered
  /\ nextStamp <= MaxStamp
  /\ \E p \in Password, k \in UserKey :
       users' = users \cup
         {[uuid |-> u, stamp |-> nextStamp, pw |-> p,
           akey |-> [pw |-> p, key |-> k], priv |-> k, api |-> FALSE]}
  /\ registered' = registered \cup {u}
  /\ nextStamp' = nextStamp + 1
  /\ UNCHANGED <<devices, logins, refreshes, changes, access, handed,
                 nextJti, cut, lost>>

-----------------------------------------------------------------------------
\* handle_password_grant and handle_client_credentials_grant.  Whoever signs
\* in knows the secret: a wrong one is refused with nothing written.  Without
\* a device identifier the handler generates one and skips the lookup.
BeginLogin(r, grant) ==
  /\ r \notin Busy
  /\ \E row \in users :
       /\ grant = "client_credentials" => row.api
       /\ \/ \E d \in ClientId :
               logins' = logins \cup {[id |-> r, user |-> row.uuid,
                 stamp |-> row.stamp, dev |-> d, pc |-> "find_device"]}
          \/ \E d \in GeneratedId :
               /\ Unused(d)
               /\ logins' = logins \cup {[id |-> r, user |-> row.uuid,
                    stamp |-> row.stamp, dev |-> d, pc |-> "upsert_device"]}
  /\ UNCHANGED <<users, devices, refreshes, changes, access, handed,
                 registered, nextStamp, nextJti, cut, lost>>

\* An identifier that belongs to another user is replaced by a fresh one.
ChosenDevice(l, d) ==
  IF \E row \in devices : row.uuid = l.dev /\ row.user # l.user
  THEN Unused(d)
  ELSE d = l.dev

LoginFindDevice(l) ==
  /\ l.pc = "find_device"
  /\ \E d \in DeviceId :
       /\ ChosenDevice(l, d)
       /\ logins' = (logins \ {l}) \cup
                      {[l EXCEPT !.dev = d, !.pc = "upsert_device"]}
  /\ UNCHANGED <<users, devices, refreshes, changes, access, handed,
                 registered, nextStamp, nextJti, cut, lost>>

\* Both tokens are signed from the users row read at the start.
LoginUpsertDevice(l) ==
  LET t == MintedToken(l.user, l.dev, l.stamp) IN
  /\ l.pc = "upsert_device"
  /\ nextJti <= MaxJti
  /\ devices' = Upserted(l.dev, l.user, t)
  /\ HandOver(t, l.stamp)
  /\ logins' = logins \ {l}
  /\ UNCHANGED <<users, refreshes, changes, registered, nextStamp, cut, lost>>

-----------------------------------------------------------------------------
\* handle_refresh_grant, presented with any token a client ever received.
BeginRefresh(r) ==
  /\ r \notin Busy
  /\ \E t \in handed, row \in users :
       /\ row.uuid = t.sub
       /\ refreshes' = refreshes \cup
            {[id |-> r, tok |-> t, stamp |-> row.stamp, pc |-> "find_device"]}
  /\ UNCHANGED <<users, devices, logins, changes, access, handed,
                 registered, nextStamp, nextJti, cut, lost>>

RefreshFindDevice(f) ==
  /\ f.pc = "find_device"
  /\ \E row \in devices : row.uuid = f.tok.device /\ row.token = f.tok
  /\ refreshes' = (refreshes \ {f}) \cup {[f EXCEPT !.pc = "update_token"]}
  /\ UNCHANGED <<users, devices, logins, changes, access, handed,
                 registered, nextStamp, nextJti, cut, lost>>

\* The token the rotation stores and returns.
Successor(f) == MintedToken(f.tok.sub, f.tok.device, f.stamp)

\* Mutant: without rotation, the device row read before is saved again.
RefreshSavesRow(f) ==
  /\ f.pc = "update_token"
  /\ devices' = SetToken(f.tok.device, f.tok)
  /\ access' = access \cup {[sub |-> f.tok.sub, stamp |-> f.stamp]}
  /\ refreshes' = refreshes \ {f}
  /\ UNCHANGED <<users, logins, changes, handed, registered, nextStamp,
                 nextJti, cut, lost>>

RefreshUpdateToken(f) ==
  /\ f.pc = "update_token"
  /\ nextJti <= MaxJti
  /\ devices' = SetToken(f.tok.device, Successor(f))
  /\ HandOver(Successor(f), f.stamp)
  /\ refreshes' = refreshes \ {f}
  /\ UNCHANGED <<users, logins, changes, registered, nextStamp, cut, lost>>

-----------------------------------------------------------------------------
\* The first read of an authenticated handler (validate_access_token).  The
\* client works on the user key it last synced, current when it authenticates;
\* put_keys brings a new one.
BeginChange(r, op) ==
  /\ r \notin Busy
  /\ \E a \in access, row \in users :
       /\ row.uuid = a.sub /\ row.stamp = a.stamp
       /\ \E p, q \in Password, k \in UserKey :
            /\ op # "password" => q = p
            /\ op # "keys" => k = row.akey.key
            /\ changes' = changes \cup
                 {[id |-> r, op |-> op, user |-> a.sub, stamp |-> a.stamp,
                   pw |-> p, newPw |-> q, key |-> k, pc |-> "verify"]}
  /\ UNCHANGED <<users, devices, logins, refreshes, access, handed,
                 registered, nextStamp, nextJti, cut, lost>>

\* find_user_by_uuid again, verify_master_password against that row.
VerifyPassword(c) ==
  /\ c.pc = "verify"
  /\ \E row \in users :
       /\ row.uuid = c.user /\ row.pw = c.pw
       /\ changes' = IF c.op = "api_key" /\ row.api
                     THEN changes \ {c}
                     ELSE (changes \ {c}) \cup {[c EXCEPT !.pc = "write"]}
  /\ UNCHANGED <<users, devices, logins, refreshes, access, handed,
                 registered, nextStamp, nextJti, cut, lost>>

\* Mutant: update_user_password leaves akey as it was.
RotatedWithoutKey(c, row) ==
  [row EXCEPT !.stamp = nextStamp,
              !.pw   = IF c.op = "password" THEN c.newPw ELSE @,
              !.akey = IF c.op = "keys" THEN [pw |-> c.newPw, key |-> c.key]
                       ELSE @,
              !.priv = IF c.op = "keys" THEN c.key ELSE @]

\* The row after update_user_password, _kdf, _keys or _security_stamp.
Rotated(c, row) ==
  [row EXCEPT !.stamp = nextStamp,
              !.pw   = IF c.op = "password" THEN c.newPw ELSE @,
              !.akey = IF c.op = "stamp" THEN @
                       ELSE [pw |-> c.newPw, key |-> c.key],
              !.priv = IF c.op = "keys" THEN c.key ELSE @]

RotateStamp(c) ==
  /\ c.pc = "write" /\ c.op \in Rotations
  /\ nextStamp <= MaxStamp
  /\ users' = {IF row.uuid = c.user THEN Rotated(c, row) ELSE row :
                 row \in users}
  /\ nextStamp' = nextStamp + 1
  /\ changes' = (changes \ {c}) \cup {[c EXCEPT !.pc = "purge"]}
  /\ lost' = IF c.op = "stamp" \/ StampIs(c.user, c.stamp)
             THEN lost ELSE lost \cup {c.user}
  /\ UNCHANGED <<devices, logins, refreshes, access, handed, registered,
                 nextJti, cut>>

\* delete_devices_for_user, the last statement of a rotation.
PurgeDevices(c) ==
  /\ c.pc = "purge"
  /\ devices' = DevicesWithout(c.user)
  /\ changes' = changes \ {c}
  /\ cut' = cut \ {c.user}
  /\ UNCHANGED <<users, logins, refreshes, access, handed, registered,
                 nextStamp, nextJti, lost>>

\* Mutant: the whole row is written back, with the stamp read at the start.
WriteUserBack(c) ==
  /\ c.pc = "write" /\ c.op \in {"api_key", "rotate_api_key"}
  /\ users' = {IF row.uuid = c.user
               THEN [row EXCEPT !.api = TRUE, !.stamp = c.stamp] ELSE row :
                 row \in users}
  /\ changes' = changes \ {c}
  /\ UNCHANGED <<devices, logins, refreshes, access, handed, registered,
                 nextStamp, nextJti, cut, lost>>

\* post_api_key (when no key was stored) and rotate_api_key.
WriteApiKey(c) ==
  /\ c.pc = "write" /\ c.op \in {"api_key", "rotate_api_key"}
  /\ users' = {IF row.uuid = c.user THEN [row EXCEPT !.api = TRUE] ELSE row :
                 row \in users}
  /\ changes' = changes \ {c}
  /\ UNCHANGED <<devices, logins, refreshes, access, handed, registered,
                 nextStamp, nextJti, cut, lost>>

\* delete_account: delete_user_cascade removes the devices, later the user.
DeleteDevices(c) ==
  /\ c.pc = "write" /\ c.op = "delete"
  /\ devices' = DevicesWithout(c.user)
  /\ changes' = (changes \ {c}) \cup {[c EXCEPT !.pc = "delete_user"]}
  /\ UNCHANGED <<users, logins, refreshes, access, handed, registered,
                 nextStamp, nextJti, cut, lost>>

DeleteUser(c) ==
  /\ c.pc = "delete_user"
  /\ users' = {row \in users : row.uuid # c.user}
  /\ changes' = changes \ {c}
  /\ UNCHANGED <<devices, logins, refreshes, access, handed, registered,
                 nextStamp, nextJti, cut, lost>>

-----------------------------------------------------------------------------
\* A refused check, a failed statement or an evicted isolate ends a handler.
AbandonLogin(l) ==
  /\ logins' = logins \ {l}
  /\ UNCHANGED <<users, devices, refreshes, changes, access, handed,
                 registered, nextStamp, nextJti, cut, lost>>

AbandonRefresh(f) ==
  /\ refreshes' = refreshes \ {f}
  /\ UNCHANGED <<users, devices, logins, changes, access, handed,
                 registered, nextStamp, nextJti, cut, lost>>

AbandonChange(c) ==
  /\ changes' = changes \ {c}
  /\ cut' = IF c.pc = "purge" THEN cut \cup {c.user} ELSE cut
  /\ UNCHANGED <<users, devices, logins, refreshes, access, handed,
                 registered, nextStamp, nextJti, lost>>

LoginStep(l) == LoginFindDevice(l) \/ LoginUpsertDevice(l) \/ AbandonLogin(l)

RefreshStep(f) ==
  RefreshFindDevice(f) \/ RefreshUpdateToken(f) \/ AbandonRefresh(f)

ChangeStep(c) == \/ VerifyPassword(c) \/ RotateStamp(c) \/ PurgeDevices(c)
                 \/ WriteApiKey(c) \/ DeleteDevices(c) \/ DeleteUser(c)
                 \/ AbandonChange(c)

Begin(r) == \/ \E g \in {"password", "client_credentials"} : BeginLogin(r, g)
            \/ BeginRefresh(r)
            \/ \E op \in Changes : BeginChange(r, op)

Next == \/ \E u \in User : Register(u)
        \/ \E r \in Request : Begin(r)
        \/ \E l \in logins : LoginStep(l)
        \/ \E f \in refreshes : RefreshStep(f)
        \/ \E c \in changes : ChangeStep(c)

Spec == Init /\ [][Next]_vars

-----------------------------------------------------------------------------
\* The tables hold well-formed rows under unique primary keys, and every
\* stamp in use was generated.
TypeOK ==
  /\ users \subseteq UserRow /\ Unique(users)
  /\ devices \subseteq DeviceRow /\ Unique(devices)
  /\ logins \subseteq Login
  /\ refreshes \subseteq Refresh
  /\ changes \subseteq Change
  /\ access \subseteq AccessToken /\ handed \subseteq Token
  /\ registered \subseteq User
  /\ nextStamp \in Nat /\ nextJti \in Nat
  /\ cut \subseteq User /\ lost \subseteq User

\* Whatever is in use was generated before: user ids, stamps and token ids.
Generated ==
  /\ \A row \in users : row.uuid \in registered /\ row.stamp < nextStamp
  /\ \A d \in devices : d.user \in registered
  /\ \A l \in logins : l.user \in registered /\ l.stamp < nextStamp
  /\ \A f \in refreshes : f.tok \in handed /\ f.stamp < nextStamp
  /\ \A c \in changes : c.user \in registered /\ c.stamp < nextStamp
  /\ \A a \in access : a.sub \in registered /\ a.stamp < nextStamp
  /\ \A t \in handed : t.sub \in registered /\ t.jti < nextJti

\* While a row still has the stamp under which a handler authenticated, the
\* handler's client knows that row: the user key it wraps is the row's, and
\* past verify_master_password so is the password it presented.
ChangesKnowRow ==
  \A c \in changes :
    /\ c.op # "password" => c.newPw = c.pw
    /\ \A row \in users : row.uuid = c.user /\ row.stamp = c.stamp =>
         /\ c.op # "keys" => c.key = row.akey.key
         /\ c.pc = "write" => c.pw = row.pw

\* A device row, filed under its token's own user, whose refresh token was
\* issued under a stamp the user no longer has.
Stale(d) == /\ d.user = d.token.sub
            /\ \E row \in users : row.uuid = d.user /\ row.stamp # d.token.epoch

\* A refresh token outlives a rotation of its user's security stamp only if
\* the rotation has not reached or never reached delete_devices_for_user, or
\* the token was stored by a grant that had read the users row before the
\* rotation.  (The comment on delete_devices_for_user promises that none does.)
StaleSessionExplained ==
  \A d \in devices : Stale(d) =>
    \/ d.user \in cut
    \/ \E c \in changes : c.user = d.user /\ c.pc = "purge"
    \/ ~d.token.timely

\* The stored password unwraps the stored user key, and that key decrypts the
\* stored private key, for every user whose credentials were never written by
\* a handler that authenticated under an older stamp than it overwrote.
VaultKeyOpens ==
  \A row \in users : row.uuid \notin lost =>
    /\ row.akey.pw = row.pw
    /\ row.akey.key = row.priv

\* A refresh token that is stored nowhere, because it was rotated out, its
\* login replaced or its device purged, is never stored, hence accepted, again.
SupersededTokenStaysDead ==
  [][\A t \in handed : t \notin Stored => t \notin Stored']_vars

\* An access token the stamp check refuses is refused for ever.
RevokedAccessStaysRevoked ==
  [][\A a \in access : ~Valid(a) => ~(Valid(a)')]_vars

\* delete_devices_for_user's promise: when the rotations of a user's stamp have
\* completed, every stored refresh token was issued under the present stamp.
RefreshMatchesStamp ==
  \A d \in devices : Stale(d) =>
    \/ d.user \in cut
    \/ \E c \in changes : c.user = d.user /\ c.pc = "purge"

\* What the replacement of foreign device identifiers is for: a device row
\* holds a refresh token of the user it is filed under.
DeviceTokenMatchesOwner == \A d \in devices : d.token.sub = d.user
=============================================================================
