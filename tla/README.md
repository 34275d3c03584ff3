# OrangeVault in TLA+

OrangeVault is a Bitwarden-compatible password server: a Rust program compiled to
WebAssembly and run as a Cloudflare Worker. These modules model its stateful parts, TLC checks
them on small instances, and TLAPS proves the most important properties for every instance.

## How the program runs, and what that makes hard

A request is one async handler (`src/src/api/*.rs`). Its state lives elsewhere: SQLite rows in
D1, JSON Web Keys in KV, files in R2, WebSockets in one Durable Object per user. Nothing is
kept between requests and **no handler uses a transaction or a D1 batch**: each `.run()`,
`.first()` or `.all()` is a statement committed on its own, and handlers of different requests
interleave at every `.await`. A handler that fails, or whose isolate is evicted, stops where it
is; what it wrote stays, and nothing resumes it. Foreign keys are documentation according to
`src/plan.md:181-188`; where a database did enforce them a statement would fail, which the
models allow for every statement.

So what is hard here is (1) a check in one statement and the write it protects in another,
(2) rows read early and used late, (3) a stop between two statements, (4) D1 and R2 coming
apart, (5) the scheduled jobs running among all that. All modules share one idiom: **a table is
a set of rows, an action is one statement with the code up to the next one, `Abandon` ends a
handler anywhere**. Several reads in a row whose results are only compared with constants are
one action.

## Inventory

| Component | State | Operations | Correct when | Module |
|---|---|---|---|---|
| Sessions and credentials (`api/identity.rs`, `api/accounts.rs`, `auth/*`) | `users`, `devices`, tokens held by clients | registration, three grants, five stamp rotations, API key, account deletion | a revoked or superseded token stays so, a rotation ends every session, the password opens the vault | `Sessions` |
| Two-factor (`api/two_factor.rs`, `crypto/totp.rs`, `identity.rs:227-281`) | `two_factor`, `users.totp_recover` | enrol, disable, new recovery code, second factor of a login | a code is accepted once, a recovery code too | `TwoFactor` |
| Sends (`api/sends.rs`, `jobs.rs`) | `sends`, R2 objects | create, upload, edit, visit, delete, scheduled purge, account deletion | limits hold, edits lose nothing, rows and files go together | `Sends` |
| Organizations (`api/organizations.rs`) | `organizations`, `memberships`, `collections`, `users_collections` | create, invite, accept, confirm, update, remove, collections and their users, deletion | there is an owner, a role of owner or admin changes through owners only, access ends with membership | `Organizations` |
| Vault (`api/ciphers.rs`, `api/folders.rs`, `share_cipher`) | `ciphers`, `folders`, `folders_ciphers`, `favorites`, `ciphers_collections`, `attachments`, R2 | create, edit, file, trash, restore, delete, share, import, attachments, purge | a cipher is written by who may, is under the key of its home, has what was asked for and nothing that dangles | `Ciphers`, `Belongings`, abstract `Vault` |
| Sync (`api/sync.rs`) | none | six reads | it misses nothing that was readable throughout | `Ciphers` |
| Live notifications (`notifications.rs`) | sockets, their handshake flag, an alarm | upgrade, handshake, notify, alarm, close | connected clients are pinged and told of the writes whose handlers notify, idle objects go quiet | `Notifier`, `Hub` |
| Signing keys (`auth/jwt.rs:20-70`) | two KV entries | load or create, load public | the two entries are one pair, and stay | `SigningKeys`, `Hub` |
| Events, policies, equivalent domains, icons, web assets, middleware, serialization, the CLI | rows nobody else depends on, or nothing | | | not modelled |

One pure algorithm has a module of its own: `Dates`, sends' dates compared as texts. `SendDates`
puts it beside the clock of `Sends`.

The components meet in the tables: `Sessions` decides who a request is (`auth_from_request`),
`TwoFactor` is a part of its password grant, and `delete_account` reaches into all of them. Each
module therefore has the statements of `delete_account` that touch its own tables. `Ciphers` changes
memberships and grants as `Organizations` does, and `Hub` puts the signing keys in front of the
notifier: a socket is admitted, and a write made, only for a token that verifies.

## The modules and the code

Every definition that models code is listed with its lines in `PROJECT.json` under `map`.
A definition whose comment begins with `Mutant:` is not the code: it is a plausible bug, used
to see that a property notices.

**`Sessions`**. `users` and `devices` are the tables; `logins`, `refreshes` and `changes` the
handlers in flight, each with what it has read; `access` and `handed` every token a client ever
received, since any of them may be presented at any time. A user row has its stamp, its
password, the user key wrapped under a password, and the key its private key is encrypted with.
`cut` and `lost` remember a rotation that stopped before its purge and a vault key written by a
handler that had authenticated under an older stamp. `post_password` and `put_kdf` are one
operation ("password"), as both write a new secret and the rewrapped key. The client is taken to
wrap the user key that is current when it authenticates. Token expiry is left out, and the
second factor is `TwoFactor`'s.

**`TwoFactor`**. One account. A TOTP code is a secret and a 30-second step; `validate_totp`
accepts the current step and its two neighbours. `accepted`, `replayed`, `raced`, `spent` and
`uncleared` are history. `find(|t| t.atype == 0)` takes the first row; the model takes any.

**`Sends`**. One account's sends. `edits` carry the whole row a handler read, as `put_send`
does; `removals` are `delete_send`, the scheduled purge and `delete_account`, with the files
each has still to delete. `limits`, `served`, `uploaded`, `overlapped`, `failed` and `cut` are
history.

**`Organizations`**. One organization. A handler in flight is a record of what it remembers: the
role `require_admin` saw, the membership it read with its role then, the owners it counted, the
grants it has yet to insert. No handler looks up the collections and users a body grants, so a body
names any; only the user invited and the membership updated are found. `late` marks what was
inserted when what it hangs on was not there, or was being deleted. `access_all`, the flags of a
grant, names and keys decide nothing about what is written and are left out; `update_collection`
with users is `set_collection_users`. An invitation of several users is as many requests begun
together.

**`Ciphers`**. Rows of `ciphers` with their home (a user or the organization), trash age, and the
key under which `data` and `notes` were written; links to collections; each user's membership as
`has_cipher_access` sees it. A handler is at a named statement: the membership and grants of its
access check, then its write, or the clear and inserts of `set_cipher_collection`. `crossed`,
`kept`, `asked`, `torn` and `steady` are history: a share overtaking an update, a share not
followed by one, the collections last asked for, what interfered with them, and what a sync could
have read all along. The scheduled purge and `delete_account` delete links in one statement and rows in
a later one, each finding the rows anew; `Doomed` are those between. Contents are left out but for
the key, and `put_cipher` checks no revision date: its body is taken to be encrypted for the home its
handler reads, so a client that edits what it saw before a share had ended is outside `KeysExplained`.
**`Vault`** is what this promises: one
home per cipher, one move, from a user to the organization, and no return from deletion.
`RefinesVault` is `Vault!Spec` with `home` and `trash` computed from the rows.

**`Belongings`**. What hangs on a cipher and nothing ties to it: filings, favorite marks,
attachments and files, and the folders. Every deletion is its list of statements, each of which
finds its ciphers anew. A body may name a folder that is gone. An import inserts folders, then
ciphers, then the links its `folder_relationships` name, several for one cipher if they say so
(`spread`); one of its ciphers is followed. `left` marks rows inserted during or after the deletion
of what they hang on, and those no statement sees to: `hard_delete_cipher` deletes neither
attachments nor collection links.

**`SigningKeys`**. Handlers of `load_or_create_signing_key` between their get, their generation
and their two puts. KV is eventually consistent: a reader may still be told that there is no key
after another stored one. Once a handler has seen both, every handler does.

**`Notifier`**. One user's Durable Object. The platform's input gates make one event one action,
except where `fetch` awaits `set_alarm` on an upgrade: a socket is `half` until that is done. The
alarm is a countdown, or off; a failing alarm is retried `Attempts` times by the platform and then
given up. A write and its notification are two steps of a handler; `behind` and `missed` name the
clients that were not told of a write, and those that never will be. `WriteSilently` stands for
the handlers that never notify this object: `share_cipher`, the attachment handlers, `put_profile`,
those of collections, and all that another member does to a cipher of the organization, since
notifications of ciphers go to the acting user alone.
**`Hub`** composes the two.

**`Dates`**. A text is a sequence of character codes: an hour, a second, a dot, decimals, a zone. A
clock that writes `n` decimals counts units of the last one, and a field of its text is a digit of
that count. `now_utc` writes `Decimals` of them, a client up to `Finest` and any zone; the fields
before the hour are equal, and a field of fixed width is one character of `Base` values. `Passed` is
the comparison of `check_send_available` and of the purge. **`SendDates`** states `PassesOnTime` of every
reading of the clock of `Sends`, which compares numbers where the code compares texts.

**`*Proofs`** modules extend their components with theorems. **`MC*`** modules add symmetry sets,
state constraints and constants for TLC.

## The runs

`tlc -config <cfg> <module>`; each finishes within four minutes on two cores. Deadlock is checked
for `ciphers`, `belongings` and `hub`. It is not for the others, which a bounded clock or counter,
or an account deleted for good, rightly stops.

| Run | Shows |
|---|---|
| `sessions` | `StaleSessionExplained`: a refresh token outlives a rotation only if the purge has not come yet, or never came, or a grant under way stored it. `VaultKeyOpens`: password, wrapped key and private key fit, unless overlapping rotations overwrote one another. `SupersededTokenStaysDead`, `RevokedAccessStaysRevoked`: neither kind of token comes back. |
| `two_factor` | `ReplayExplained`: a login accepts a code twice only after a race on the row or when its secret was enrolled in two rows. `SpentRecoveryExplained`: a spent recovery code stays stored only between two statements of its login, or if that login stopped there. |
| `sends` | `OvershootBounded`: the limit is overrun by less than the visits that can run at once. `ServedCounted`: no edit resets the count. `OrphanExplained`, `MissingFileExplained`: when a row and its file come apart. `DeletedStaysDeleted`, `PasswordOutlivesEdits`: what edits under way cannot undo. |
| `organizations` | `MembershipsBounded`: racing invitations make no more memberships of a user than requests run at once. `OwnerLossExplained`: the ways to lose the last owner. `PrivilegesByOwners`: an owner's or admin's role changes, a user is made one, and an owner is removed, by an owner only, or by a handler that had read another role. `GrantsHang`: no deletion, complete or cut short, leaves grants behind that were not inserted during it, or by a request that named what was not there. `NothingLeft`: nor does a complete one of the organization leave members or collections. |
| `ciphers` | `KeysExplained`: who holds the key of a cipher's home can decrypt it, unless it was shared while an update was in flight; its notes and fields not before the first update after a share. `LinksAsAsked`: a cipher is in the collections last asked for, unless handlers interfered or stopped, or a deletion had begun with its links. `SyncMissesNothing`: a sync answers with what its user could read all along. `WrittenByEntitled`: only for a user who could write it at some instant of the check, or was a member at one and had a grant at a later one. `RefinesVault`. |
| `belongings` | `OneFolder`: a cipher is in one folder, unless two handlers filed it together or an import named several for it. `LinksHang`: what is left hanging was inserted during the deletion, or is of a kind the deletion forgets. `FilesExplained`: when attachment rows and files part. |
| `hub` | `TokensHonoured`, `KeysSettle`: tokens verify and keys stay, unless pairs raced or one was cut. `LockedOut`: after a cut nobody ever gets in. `AlarmArmed`, `ToldOfWrites`, `KeptAlive`, `FallsQuiet`: connected clients are pinged, and told of what handlers that notify have written, unless those stopped or failed; an object without clients stops ringing. |

`PassesOnTime` (run `sends`): a send expires at the instant its date spells, but for its last decimal
and its zone.

Five more runs state what a comment or test promises, and fail; each is a finding in
`PROJECT.json` with the lines quoted.

| Run | Promise | What happens |
|---|---|---|
| `sessions_stale` | `queries.rs:152-155`: the purge matches the stamp | a grant under way stores its token after the purge |
| `sessions_misfiled` | `identity.rs:283-288`: no mismatched device row | two first logins with one device identifier |
| `two_factor_replay` | `two_factor.rs:158-160`, `totp.rs:23-24`: a code is not replayed | two handlers read `last_used` before either writes |
| `sends_limit` | `sends.test.ts:322`, `sends.rs:623`: a limit ends access | two visits are checked before either is counted |
| `org_last_owner` | `organizations.rs:577` and `650`: the last owner stays | the count is stale when the demotion or removal writes |

**Bounds.** Two handlers at a time: every race listed is between two. Longer histories come from
handlers one after another, which nothing limits but the counters. `Sessions` has two users, one
client-chosen and one generated device identifier, two passwords and keys, three stamps (two
registrations and a rotation, or one user and two rotations) and two refresh tokens. `TwoFactor` has
one secret, so that re-enrolment reuses it, two rows, two recovery codes and one clock tick. `Sends`
has one send (a purge of one is a purge of each), three choices of limit and dates, one tick, and
counts to two, one over the limit. `Organizations` has two users; the constraint `RolesOrAccess`
looks either at three membership ids and no collection, for duplicates and re-invitation, or at a
collection and grants. `Ciphers` has one cipher, one collection and two users, of whom `OneMember`
lets one join: a share, a grant and its loss need no second. `Belongings` has one user, one cipher,
two folders and one attachment, and `FoldersOrFiles` looks at folders or at files, which never meet
in a statement. `Hub` has two pairs, two signers, two sockets, two writers, an interval of two ticks
and two attempts: a pair more than is stored, a socket that connects while another waits. `Dates`
has binary digits, three decimals in the server's spelling and up to four in a client's (fewer, as
many, and more), three hours, and zones up to an hour either way; the theorem has none of these
bounds but the last. Each excuse a property makes is reached in these instances: the failing runs
show five of them, and without its excuse each property fails.

**Fairness.** Only `Hub` has any, for `KeptAlive` and `FallsQuiet`: `WF(Tick)`, time passes, and
`WF(Ring)`, the platform runs an alarm that is due. Durable Object alarms are guaranteed to run at
least once; the code relies on nothing else. Clients and handlers have no fairness, as they may
always stop, and so the other components, which consist of handlers only, promise nothing that must
happen.

**What the models show beside the findings.** These are behaviours of the code, each the excuse of
a property or outside it; no document denies them but where one is quoted:
- `share_cipher` writes `data`, `name` and the key but neither notes nor fields, which stay under
  the user's key; an update in flight over a share leaves an organization's cipher no member can
  decrypt (`KeysExplained`).
- Filing a shared cipher clears every user's folder for it (`clear_folder_for_cipher`).
- A hard delete leaves attachments, their files and collection links (`FilesExplained`, `LinksHang`).
- An import whose `folder_relationships` name a cipher twice puts it in two folders, until it is
  moved (`ciphers.rs:711-720`, `OneFolder`).
- `invite_member`, `update_member`, `update_collection` and `set_collection_users` insert a grant for
  whatever collection or user a body names (`organizations.rs:354-363`, `589-598`, `735-745`, `837-847`),
  and one for a collection that is not there goes only with its user's account (`GrantsHang`).
- An admin cannot make a member an owner or admin (`organizations.rs:554-575`, "Only Owners can grant
  or remove Owner or Admin privileges"), but can invite somebody as one and confirm (`299-351`), and
  remove an admin (`616-660`): outside `PrivilegesByOwners`.
- `delete_user_cascade` stopped after its third statement leaves ciphers without collections
  (`LinksAsAsked`).
- Every upgrade sets the alarm anew, so a client that reconnects faster than the interval keeps the
  others from being pinged (`KeptAlive`).
- `src/plan.md:857` asks for a notification "After any vault mutation in the main Worker", and
  `plan.md:870` to "fan out to all confirmed org members" for those of an organization. `share_cipher`,
  `upload_attachment`, `delete_attachment` and the handlers of collections end without one, and that of
  an organization's cipher goes to whoever changed it only. The design and the code differ here;
  `ToldOfWrites` holds of the handlers that notify, and excuses the others.
- A stop between the two KV puts locks everybody out, for ever (`LockedOut`).

## What is proved

TLAPS checks the theorems for all values of the constants, from the named assumptions of the
component modules only (bounds are natural numbers, a placeholder is not one of the values it stands
beside, the kinds of rows that share one history variable are told apart). `tlapm
<Component>Proofs.tla` proves every obligation.

- *Sessions*. `TypeOK` is inductive together with unique row keys. `Generated` (whatever is in
  use was generated before: user ids, stamps, token ids) is the strengthening for the rest: a
  new stamp or `jti` differs from all old ones because those are smaller than the counter.
  `SupersededTokens` and `RevokedAccess` follow from it step by step. `VaultStaysOpen` needs
  `ChangesKnowRow`: while a row still has the stamp under which a handler authenticated, the
  key it will write is the row's, and, past the password check, so is the password. `StaleSessions`
  goes by induction on `StaleSessionExplained` itself with `Generated`.
- *Two-factor*. `SpentRecovery` rests on `CodesGenerated`. `Replay` rests on `LastUsedIsFloor`
  (in a row no race has touched, `last_used` has reached every code accepted through it) and
  `StepsChecked` (what a handler remembers of its check), without which a handler between check
  and write could lower the floor unseen.

- *Hub*. `Components` shows that the composition satisfies the specifications of its two parts,
  fairness apart, so that what is proved of a part holds of the whole. `TokensVerify` and `KeysStay`
  rest on `OnePair` (while no handlers raced, at most one creates a pair, and what is stored is its
  pair) and `HalfStored` (a private key without a public one means that a handler is between its puts,
  or stopped there). `NobodyGetsIn` adds `NobodyIn`: without a public key no token was ever accepted.
  `AlarmSet` and `WritesTold` are inductive with the types.
- *Organizations*. `PrivilegesByOwners` and `OwnerLossExplained` rest on `Knows` (an update has
  checked the roles it read, and whoever takes an owner away has counted another and is an owner; a
  removal works on a row of the user it remembers). `GrantsHang` needs `GrantsFine`: a grant that
  was inserted in time hangs on rows that nobody is deleting either, so that no later statement can
  leave it behind. `NothingLeft` needs `Emptied`, how far a deletion has come. `MembershipsBounded`
  compares cardinalities before and after a step, over handlers that are finitely many, one for each
  request.
- *Ciphers*. `TypeInv` adds to the types what each handler holds at each statement (`HandlersOK`),
  without which a step of a handler cannot be told from one of another. `KeysExplainedAlways` needs
  `PutsFit` (the body of an update in flight is under the key of its cipher's home, unless that was
  crossed). `ImplementsVault` is a step simulation: each action maps to a step of `Vault` or to a
  stutter. `WritersEntitled` follows from `CheckedSoFar` (what a handler past a read has seen is what
  its history says). `SyncComplete` needs `StillReadable` and `SyncSoFar` (what was readable
  throughout is found, or still to be found by a read to come). `LinksAsAskedAlways` needs `LinkFine`
  (a cipher's links and those its one handler has yet to insert are what was asked) and `DoomedStays`.
- *Belongings*. `OneFolder` is a matter of `OneOf`: the links of a cipher and the handlers about to
  add one are one at most, each of which has a single folder to file in (`Single`), but for
  `spread`. `LinksHang` needs `LinksFine` and `MarksFine` (what was inserted in time hangs on
  nothing that is being deleted, as `GoingAfter` and `SubjectAfter` follow deletions from step to
  step: they take on no cipher they did not have), `OwnMarks` (a user's own cipher bears only that
  user's mark, as an account's deletion deletes marks by user and ciphers by home) and
  `AccountsFine`. `FilesExplained` needs in addition that the file of a row about to be deleted is
  gone or its staying explained.
- *Sends*. `DeletionFinal` and `PasswordKept` rest on `EditsKnow` (the kind of the row an edit holds
  never changes, and it lacks a password only if it was read without one, or to remove it). `Orphans` and
  `MissingFiles` need what a removal has found against what its DELETE will take, which is a second
  look at the table: `FoundInScope`, `AllFound`, `GoingWithFile`, all but for rows written during the
  removal. `CountKept` and `Overshoot` compare a count with the number of visits between their
  statements, over `VisitsFit` (finitely many, one for each request).

- *Dates*. `OnTimeAlways` is the numeric heart: two texts are compared by the first field in which
  they differ, and so are the instants, since a field outweighs all that follow it (`CutBounds`,
  `FirstDecides`); texts that differ in none are within a unit of the coarser one (`AgreeClose`). A
  client may write fewer decimals, so that its `Z`, `+` or `-` stands against a digit or the dot: what
  follows is worth less than that unit, whichever character is the greater, so nothing is assumed of
  the characters. `Pow` is a recursive function; that it satisfies its equation (`PowUnfold`) is shown
  from finite beginnings of it, by least elements of sets of numbers, because induction theorems with
  an operator parameter are beyond the prover.

**One handler at a time.** Each of the five failing runs is a race. That it is nothing else is proved:
if `Request` has one element (`OneAtATime`), for any number of users, rows and values and with handlers
still stopping anywhere, the promises hold, some under a condition that the table gives.

| Theorem | Without overlapping handlers |
|---|---|
| `RefreshMatchesStampAlone`, `DeviceTokenMatchesOwnerAlone` | the two promises that `sessions_stale` and `sessions_misfiled` refute |
| `VaultOpensAlone` | wrapped key and private key fit the password, with no excuse |
| `CodeNotReplayedAlone` | the promise `two_factor_replay` refutes, unless a secret is enrolled in two rows |
| `LimitHoldsAlone` | the promise `sends_limit` refutes |
| `FilesAlone` (`Sends`) | only a failing R2 leaves a file behind, only a stopped removal a send without its file |
| `LastOwnerStaysAlone` | the promise `org_last_owner` refutes |
| `PrivilegesAlone` | the role of a membership becomes or ceases to be owner or admin through an owner only, and an owner is removed by an owner only, or with account or organization |
| `OneMembershipAlone` | nobody has two memberships, though no constraint of the table says so |
| `TablesHangAlone` | if requests name only collections that are there, and members (`Careful`), no grant dangles and nothing is left of a deleted organization |
| `KeysMatchAlone` | a cipher is under its home's key, its notes from the first update after a share on |
| `OneFolderAlone` | a cipher is in one folder, of all users', but for one that an import files in several |
| `FilesAlone` (`Belongings`) | a file has its row, unless R2 failed to delete it or the row went with its account |

The argument is the same throughout. `SoloStep`: at most one record is in flight, as each bears the
name of its request. Then what a handler has read still stands when it writes: a role or the number of
owners (`AsRead`), the links to be inserted (`Real`), the stamp (`CurrentInv`). So the histories of
interference (`lost`, `crossed`, `overlapped`, `late`, `raced`) stay empty, and the invariants proved for
any number of handlers lose the excuses that name them. The excuses that stay are the ones a lock around
a handler would not remove: a stop half-way, a failing R2, a forgotten column.

Only model-checked: the liveness of `Hub` (`KeptAlive`, `FallsQuiet`), as fairness is beyond the prover.

## Not modelled

- Policies, equivalent domains, `put_profile`, `put_avatar` and the event log: one statement, or
  rows nothing else reads. `post_domains` deletes and inserts; a stop between loses a list of domains.
- `get_revision_date`: `users.updated_at`, which no cipher or folder handler touches. No document
  says what clients may expect of it.
- The folders, collections, sends and profile in a sync: plain reads, which may be of different
  instants, as those of the ciphers are.
- Token expiry, and the 300 s for which a download token outlives its send: by design.
- Cryptography (a correct password or code is a Boolean; two keys are a pair or not), base32, the
  length prefix, MessagePack and JSON contents of messages: transformations of data, to be tested;
  request and response models, routing, headers, icons and web assets, the CLI.

## Plan

1. The account's other rows (devices, factors, event log) in the statements of `delete_user_cascade`,
   should a later change of the code read them after the account is gone.

Liveness and `ENABLED` stay with TLC. None of the modules has a recursive operator; `Pow` of `Dates` is
the one recursive function.
