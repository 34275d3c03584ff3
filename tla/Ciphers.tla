------------------------------ MODULE Ciphers ------------------------------
(***************************************************************************)
(* The rows of `ciphers` and the `ciphers_collections` rows (links) that    *)
(* put shared ones into collections, with the handlers that check access to *)
(* a cipher, write it, share it, link it, trash, restore and delete it, the *)
(* scheduled purge, and sync.  One action is one D1 statement with the code *)
(* up to the next one, and a handler may stop after any statement.          *)
(*                                                                         *)
(* There is one organization.  Memberships and grants change as the         *)
(* handlers of Organizations change them, statement by statement.  What a   *)
(* client sends it encrypts under the key of the home the cipher has when   *)
(* the handler reads it; contents are left out but for that key.            *)
(***************************************************************************)
EXTENDS Naturals, FiniteSets

CONSTANTS
  Cipher,      \* values generate_uuid yields for ciphers.uuid
  User,        \* users, by their uuid
  Org,         \* the organization
  Collection,  \* its collections
  None,        \* no user, cipher or key
  Request      \* handler instances that may run at the same time

ASSUME HomeAssumption == /\ Org \notin User /\ None # "gone"
                         /\ {None, "gone"} \cap (User \cup {Org}) = {}

VARIABLES
  rows,        \* rows of `ciphers`
  links,       \* rows of `ciphers_collections`
  role,        \* each user's membership: none that is confirmed, plain, or one
               \* that opens every collection (owner, admin or access_all)
  grants,      \* rows of `users_collections`
  running,     \* handlers in flight
  used,        \* cipher ids already given out
  crossed,     \* history: shared while an update was in flight
  kept,        \* history: shared, and not updated since
  asked,       \* history: the collections last asked for a cipher
  torn,        \* history: what asked for them stopped or was interfered with
  steady       \* history: what a sync could have read ever since it began

vars == <<rows, links, role, grants, running, used, crossed, kept, asked, torn,
          steady>>

Homes == User \cup {Org}
Roles == {"none", "member", "full"}
\* user_uuid or organization_uuid; deleted_at, not at all, recently or 30 days
\* ago; the keys under which `data`, `name` and `akey`, and `notes` and
\* `fields`, were written.
Row == [uuid: Cipher, home: Homes, trash: {"no", "fresh", "old"},
        data: Homes, notes: Homes]
Grant == [user: User, col: Collection, write: BOOLEAN]
Link == [cipher: Cipher, col: Collection]

\* Handlers that ask has_cipher_access for write access: put_cipher, and those
\* that trash, restore, delete or link ("change"), which differ only in what
\* they write in the end.
Checked == {"put", "change"}
\* What a handler remembers: its user and cipher, the key of its body, the
\* links it has yet to insert, what a sync has found, and as history whether
\* its user had access.
Handler == [id: Request,
            op: Checked \cup {"create", "share", "link", "purge", "account",
                            "sync"},
            pc: {"member", "grants", "write", "clear", "link", "rows", "org",
                 "answer"},
            user: User \cup {None}, cipher: Cipher \cup {None},
            key: Homes \cup {None}, todo: SUBSET Collection,
            found: SUBSET Cipher, access: {"unknown", "member", "parts", "whole"}]

-----------------------------------------------------------------------------
Busy == {h.id : h \in running}
Become(h, new) == running' = (running \ {h}) \cup {new}
End(h) == running' = running \ {h}

Start(r, op, pc) == [id |-> r, op |-> op, pc |-> pc, user |-> None,
  cipher |-> None, key |-> None, todo |-> {}, found |-> {},
  access |-> "unknown"]

\* The loop of set_cipher_collection calls that ends several handlers.
LinkAll(h, c, todo) == IF todo = {} THEN End(h)
                       ELSE Become(h, [Start(h.id, "link", "link") EXCEPT
                                         !.cipher = c, !.todo = todo])

Uuids == {row.uuid : row \in rows}
At(x) == {row \in rows : row.home = x}

\* find_user_cipher_collection_access.
Opening(u, c) == {g \in grants : g.user = u /\ [cipher |-> c, col |-> g.col] \in links}

\* has_cipher_access, all of it at one instant.
CanRead(u, c) ==
  \E row \in rows : /\ row.uuid = c
                    /\ \/ row.home = u
                       \/ row.home = Org /\ role[u] = "full"
                       \/ row.home = Org /\ role[u] = "member"
                          /\ Opening(u, c) # {}
CanWrite(u, c) ==
  \E row \in rows : /\ row.uuid = c
                    /\ \/ row.home = u
                       \/ row.home = Org /\ role[u] = "full"
                       \/ row.home = Org /\ role[u] = "member"
                          /\ \E g \in Opening(u, c) : g.write

\* What update_cipher and share_cipher_to_org set; the latter neither notes nor
\* fields.
Updated(row, key) == [row EXCEPT !.data = key, !.notes = key]
Shared(row) == [row EXCEPT !.home = Org, !.data = Org]

\* Handlers that write the links of c.
Linking(c) == {h \in running : h.cipher = c /\ h.pc \in {"clear", "link"}}

\* A purge and a deletion of an account delete links first, and the rows later:
\* what h is about to delete, and what all of them are.
Going(h) == IF h.op = "purge" THEN {row \in rows : row.trash = "old"}
            ELSE IF h.op = "account" THEN At(h.user) ELSE {}
Doomed == UNION {{row.uuid : row \in Going(h)} : h \in running}

-----------------------------------------------------------------------------
Init == /\ rows = {} /\ links = {} /\ running = {} /\ used = {}
        /\ role = [u \in User |-> "none"] /\ grants = {}
        /\ crossed = {} /\ kept = {} /\ torn = {}
        /\ asked = [c \in Cipher |-> {}]
        /\ steady = [r \in Request |-> {}]

New(c, x) == [uuid |-> c, home |-> x, trash |-> "no", data |-> x, notes |-> x]

\* Mutant: the client chooses the id.
PostChosenCipher(u) ==
  /\ \E c \in Cipher : /\ rows' = rows \cup {New(c, u)}
                       /\ used' = used \cup {c}
  /\ UNCHANGED <<links, role, grants, running, crossed, kept, asked, torn>>

\* post_cipher, each cipher of import_ciphers, and post_cipher_create without
\* an organization.
PostCipher(u) ==
  /\ \E c \in Cipher \ used : /\ rows' = rows \cup {New(c, u)}
                              /\ used' = used \cup {c}
  /\ UNCHANGED <<links, role, grants, running, crossed, kept, asked, torn>>

\* post_cipher_create with one: find_membership.
BeginCreate(r, u) ==
  /\ role[u] # "none"
  /\ running' = running \cup {Start(r, "create", "write")}
  /\ UNCHANGED <<rows, links, role, grants, used, crossed, kept, asked, torn>>

InsertOrgCipher(h) ==
  /\ h.op = "create" /\ h.pc = "write"
  /\ \E c \in Cipher \ used, cs \in SUBSET Collection :
       /\ rows' = rows \cup {New(c, Org)}
       /\ used' = used \cup {c}
       /\ asked' = [asked EXCEPT ![c] = cs]
       /\ LinkAll(h, c, cs)
  /\ UNCHANGED <<links, role, grants, crossed, kept, torn>>

\* fetch_cipher_with_access, or the loop of a bulk handler: find_cipher_by_uuid
\* and the first test of has_cipher_access.
FindCipher(r, u, op) ==
  /\ \E row \in rows :
       /\ row.home \in {u, Org}
       /\ running' = running \cup
            {[Start(r, op, IF row.home = u THEN "write" ELSE "member") EXCEPT
                !.user = u, !.cipher = row.uuid,
                !.key = IF op = "put" THEN row.home ELSE None,
                !.access = IF row.home = u THEN "whole" ELSE "unknown"]}
  /\ UNCHANGED <<rows, links, role, grants, used, crossed, kept, asked, torn>>

\* share_cipher: the cipher is the user's own.
FindOwnCipher(r, u) ==
  /\ \E row \in At(u) :
       running' = running \cup {[Start(r, "share", "member") EXCEPT
                                   !.user = u, !.cipher = row.uuid]}
  /\ UNCHANGED <<rows, links, role, grants, used, crossed, kept, asked, torn>>

\* What h, which reads the membership or the grants now, has seen of its user's
\* access: all of it at once, the membership alone, or one after the other.
Seen(h) == IF h.access = "whole" \/ CanWrite(h.user, h.cipher) THEN "whole"
           ELSE IF h.pc = "member" /\ role[h.user] # "none" THEN "member"
           ELSE IF h.access = "member" /\ role[h.user] = "none" THEN "parts"
           ELSE h.access

\* find_membership in has_cipher_access and in require_member.
FindMembership(h) ==
  /\ h.pc = "member" /\ h.op # "sync"
  /\ role[h.user] # "none"
  /\ Become(h, [h EXCEPT !.access = Seen(h),
                  !.pc = IF h.op = "share" \/ role[h.user] = "full"
                         THEN "write" ELSE "grants"])
  /\ UNCHANGED <<rows, links, role, grants, used, crossed, kept, asked, torn>>

\* Mutant: a read-only grant will do.
FindAnyGrants(h) ==
  /\ h.pc = "grants"
  /\ Opening(h.user, h.cipher) # {}
  /\ Become(h, [h EXCEPT !.pc = "write", !.access = Seen(h)])
  /\ UNCHANGED <<rows, links, role, grants, used, crossed, kept, asked, torn>>

\* find_user_cipher_collection_access, and one of the rows not read-only.
FindGrants(h) ==
  /\ h.pc = "grants"
  /\ \E g \in Opening(h.user, h.cipher) : g.write
  /\ Become(h, [h EXCEPT !.pc = "write", !.access = Seen(h)])
  /\ UNCHANGED <<rows, links, role, grants, used, crossed, kept, asked, torn>>

-----------------------------------------------------------------------------
\* Mutant: the row that was read is written back as a whole.
ReplaceCipher(h) ==
  /\ h.op = "put" /\ h.pc = "write"
  /\ rows' = {row \in rows : row.uuid # h.cipher} \cup {New(h.cipher, h.key)}
  /\ kept' = kept \ {h.cipher}
  /\ End(h)
  /\ UNCHANGED <<links, role, grants, used, crossed, asked, torn>>

\* update_cipher, by uuid, whatever the row has become.
UpdateCipher(h) ==
  /\ h.op = "put" /\ h.pc = "write"
  /\ rows' = {IF row.uuid = h.cipher THEN Updated(row, h.key) ELSE row : row \in rows}
  /\ kept' = kept \ {h.cipher}
  /\ End(h)
  /\ UNCHANGED <<links, role, grants, used, crossed, asked, torn>>

\* soft_delete_cipher and restore_cipher.  The links of a row that a purge was
\* about to delete, and that is saved from it, are gone.
SetTrash(h) ==
  /\ h.op = "change" /\ h.pc = "write"
  /\ \E t \in {"fresh", "no"} :
       rows' = {IF row.uuid = h.cipher THEN [row EXCEPT !.trash = t] ELSE row :
                  row \in rows}
  /\ torn' = torn \cup (Doomed \cap {h.cipher})
  /\ End(h)
  /\ UNCHANGED <<links, role, grants, used, crossed, kept, asked>>

\* The last statement of hard_delete_cipher.
DeleteRow(h) ==
  /\ h.op = "change" /\ h.pc = "write"
  /\ rows' = {row \in rows : row.uuid # h.cipher}
  /\ End(h)
  /\ UNCHANGED <<links, role, grants, used, crossed, kept, asked, torn>>

\* Mutant: only the home is written.
ShareHome(h) ==
  /\ h.op = "share" /\ h.pc = "write"
  /\ rows' = {IF row.uuid = h.cipher THEN [row EXCEPT !.home = Org] ELSE row :
                row \in rows}
  /\ Become(h, [Start(h.id, "share", "clear") EXCEPT !.cipher = h.cipher])
  /\ UNCHANGED <<links, role, grants, used, crossed, kept, asked, torn>>

ShareRow(h) ==
  LET Updates == {g \in running : g.op = "put" /\ g.cipher = h.cipher} IN
  /\ h.op = "share" /\ h.pc = "write"
  /\ rows' = {IF row.uuid = h.cipher THEN Shared(row) ELSE row : row \in rows}
  /\ crossed' = IF Updates = {} THEN crossed ELSE crossed \cup {h.cipher}
  /\ kept' = kept \cup {h.cipher}
  /\ torn' = IF Linking(h.cipher) = {} THEN torn ELSE torn \cup {h.cipher}
  /\ \E cs \in SUBSET Collection :
       /\ asked' = [asked EXCEPT ![h.cipher] = cs]
       /\ Become(h, [Start(h.id, "share", "clear") EXCEPT
                       !.cipher = h.cipher, !.todo = cs])
  /\ UNCHANGED <<links, role, grants, used>>

\* Mutant: the old links are kept.
KeepLinks(h) ==
  /\ torn' = IF Linking(h.cipher) \subseteq {h} THEN torn
             ELSE torn \cup {h.cipher}
  /\ \E cs \in SUBSET Collection :
       /\ \/ h.op = "share" /\ h.pc = "clear" /\ cs = h.todo
          \/ h.op = "change" /\ h.pc = "write"
       /\ asked' = [asked EXCEPT ![h.cipher] = cs]
       /\ LinkAll(h, h.cipher, cs)
  /\ UNCHANGED <<rows, links, role, grants, used, crossed, kept>>

\* clear_cipher_collections, of share_cipher and post_cipher_collections.
ClearLinks(h) ==
  /\ links' = {l \in links : l.cipher # h.cipher}
  /\ torn' = IF Linking(h.cipher) \subseteq {h} THEN torn
             ELSE torn \cup {h.cipher}
  /\ \E cs \in SUBSET Collection :
       /\ \/ h.op = "share" /\ h.pc = "clear" /\ cs = h.todo
          \/ h.op = "change" /\ h.pc = "write"
       /\ asked' = [asked EXCEPT ![h.cipher] = cs]
       /\ LinkAll(h, h.cipher, cs)
  /\ UNCHANGED <<rows, role, grants, used, crossed, kept>>

\* set_cipher_collection, INSERT OR IGNORE.
SetLink(h) ==
  /\ h.pc = "link"
  /\ \E col \in h.todo :
       /\ links' = links \cup {[cipher |-> h.cipher, col |-> col]}
       /\ LinkAll(h, h.cipher, h.todo \ {col})
  /\ UNCHANGED <<rows, role, grants, used, crossed, kept, asked, torn>>

-----------------------------------------------------------------------------
\* Deletions of many rows at once: purge_ciphers deletes all of a user, whose
\* links it leaves, delete_organization all of the organization.
DeleteAllAt(x) ==
  /\ rows' = rows \ At(x)
  /\ UNCHANGED <<links, role, grants, running, used, crossed, kept, asked, torn>>

\* purge_trashed_ciphers: the statement on ciphers_collections.  It and the
\* next use the same cutoff, and each evaluates its subquery anew.
PurgeLinks(r) ==
  LET old == {row.uuid : row \in {x \in rows : x.trash = "old"}} IN
  /\ links' = {l \in links : l.cipher \notin old}
  /\ running' = running \cup {Start(r, "purge", "rows")}
  /\ torn' = torn \cup {c \in old : Linking(c) # {}}
  /\ UNCHANGED <<rows, role, grants, used, crossed, kept, asked>>

\* delete_account: the statement on ciphers_collections.  The rows themselves go
\* two statements later.
UnlinkAccount(r, u) ==
  /\ links' = {l \in links : l.cipher \notin {row.uuid : row \in At(u)}}
  /\ running' = running \cup {[Start(r, "account", "rows") EXCEPT !.user = u]}
  /\ torn' = torn \cup {c \in {row.uuid : row \in At(u)} : Linking(c) # {}}
  /\ UNCHANGED <<rows, role, grants, used, crossed, kept, asked>>

\* The statement on ciphers of either.
DeleteGoing(h) ==
  /\ h.op \in {"purge", "account"} /\ h.pc = "rows"
  /\ rows' = rows \ Going(h)
  /\ End(h)
  /\ UNCHANGED <<links, role, grants, used, crossed, kept, asked, torn>>

\* Thirty days pass, and no handler runs for so long.
Age ==
  /\ running = {}
  /\ rows' = {[row EXCEPT !.trash = IF @ = "fresh" THEN "old" ELSE @] :
                row \in rows}
  /\ UNCHANGED <<links, role, grants, running, used, crossed, kept, asked, torn>>

-----------------------------------------------------------------------------
\* sync: find_ciphers_by_user, then the memberships, then, of a confirmed one,
\* find_accessible_org_ciphers in one statement.
SyncOwn(r, u) ==
  /\ running' = running \cup
       {[Start(r, "sync", "member") EXCEPT
           !.user = u, !.found = {row.uuid : row \in At(u)}]}
  /\ UNCHANGED <<rows, links, role, grants, used, crossed, kept, asked, torn>>

SyncMemberships(h) ==
  /\ h.op = "sync" /\ h.pc = "member"
  /\ Become(h, [h EXCEPT !.pc = IF role[h.user] = "none" THEN "answer"
                                ELSE "org"])
  /\ UNCHANGED <<rows, links, role, grants, used, crossed, kept, asked, torn>>

\* Mutant: an owner, admin or member with access_all is not told apart.
SyncGranted(h) ==
  /\ h.op = "sync" /\ h.pc = "org"
  /\ Become(h, [h EXCEPT !.pc = "answer", !.found = @ \cup
         {c \in {row.uuid : row \in At(Org)} : Opening(h.user, c) # {}}])
  /\ UNCHANGED <<rows, links, role, grants, used, crossed, kept, asked, torn>>

SyncOrg(h) ==
  /\ h.op = "sync" /\ h.pc = "org"
  /\ Become(h, [h EXCEPT !.pc = "answer", !.found = @ \cup
         {c \in {row.uuid : row \in At(Org)} : CanRead(h.user, c)}])
  /\ UNCHANGED <<rows, links, role, grants, used, crossed, kept, asked, torn>>

-----------------------------------------------------------------------------
\* The statements of Organizations that matter here: a membership inserted,
\* confirmed, changed or deleted; a grant set or deleted; the links of a
\* collection deleted with it.
SetRole(u) ==
  /\ \E new \in Roles \ {role[u]} : role' = [role EXCEPT ![u] = new]
  /\ UNCHANGED <<rows, links, grants, running, used, crossed, kept, asked, torn>>

SetGrant(u, col) ==
  LET others == {g \in grants : g.user # u \/ g.col # col} IN
  /\ \/ grants' = others
     \/ \E w \in BOOLEAN :
          grants' = others \cup {[user |-> u, col |-> col, write |-> w]}
  /\ UNCHANGED <<rows, links, role, running, used, crossed, kept, asked, torn>>

DropLinksOf(col) ==
  /\ links' = {l \in links : l.col # col}
  /\ asked' = [c \in Cipher |-> asked[c] \ {col}]
  /\ torn' = torn \cup {c \in Cipher : \E h \in Linking(c) : col \in h.todo}
  /\ UNCHANGED <<rows, role, grants, running, used, crossed, kept>>

\* A refused check, a failed statement, an evicted isolate, or the answer.
Abandon(h) ==
  /\ End(h)
  /\ torn' = torn \cup (IF h.pc \in {"clear", "link"} THEN {h.cipher} ELSE {})
                  \cup {row.uuid : row \in Going(h)}
  /\ UNCHANGED <<rows, links, role, grants, used, crossed, kept, asked>>

-----------------------------------------------------------------------------
Begin(r) ==
  \/ \E u \in User : \/ BeginCreate(r, u) \/ FindOwnCipher(r, u)
                     \/ \E op \in Checked : FindCipher(r, u, op)
                     \/ SyncOwn(r, u) \/ UnlinkAccount(r, u)
  \/ PurgeLinks(r)

Step(h) ==
  \/ InsertOrgCipher(h) \/ FindMembership(h) \/ FindGrants(h)
  \/ UpdateCipher(h) \/ SetTrash(h) \/ DeleteRow(h)
  \/ ShareRow(h) \/ ClearLinks(h) \/ SetLink(h) \/ DeleteGoing(h)
  \/ SyncMemberships(h) \/ SyncOrg(h) \/ Abandon(h)

Others == \/ \E u \in User : \/ PostCipher(u) \/ SetRole(u)
                             \/ \E col \in Collection : SetGrant(u, col)
          \/ \E x \in Homes : DeleteAllAt(x)
          \/ \E col \in Collection : DropLinksOf(col)
          \/ Age

\* What every sync in flight could have read all the time.
Syncing(r, c) == \E h \in running : /\ h.id = r /\ h.op = "sync"
                                    /\ CanRead(h.user, c)
Watch == steady' = [r \in Request |-> IF r \in Busy
                      THEN {c \in steady[r] : Syncing(r, c)'}
                      ELSE {c \in Cipher : Syncing(r, c)'}]

Next == /\ \/ \E r \in Request \ Busy : Begin(r)
           \/ \E h \in running : Step(h)
           \/ Others
        /\ Watch

Spec == Init /\ [][Next]_vars

-----------------------------------------------------------------------------
\* Rows, links and handlers are well formed, and ciphers.uuid is unique.
TypeOK ==
  /\ rows \subseteq Row /\ Uuids \subseteq used
  /\ \A row, other \in rows : row.uuid = other.uuid => row = other
  /\ links \subseteq Link /\ grants \subseteq Grant
  /\ role \in [User -> Roles]
  /\ running \subseteq Handler
  /\ used \subseteq Cipher /\ crossed \subseteq Cipher /\ kept \subseteq Cipher
  /\ torn \subseteq Cipher
  /\ asked \in [Cipher -> SUBSET Collection]
  /\ steady \in [Request -> SUBSET Cipher]

\* Whoever holds the key of a cipher's home can decrypt it, unless it was
\* shared while an update was in flight; but its notes and fields stay
\* encrypted for the user who shared it until the first update after that.
KeysExplained ==
  \A row \in rows : row.uuid \notin crossed =>
    /\ row.data = row.home
    /\ row.uuid \notin kept => row.notes = row.home

\* A cipher is in the collections last asked for it, unless the handler that
\* was asked stopped half-way, worked at the same time as another, or was
\* overtaken by the deletion of a collection, or a purge or the deletion of an
\* account had deleted its links when it stopped or the cipher was saved from it.
LinksAsAsked ==
  \A c \in Uuids \ (torn \cup Doomed) :
    Linking(c) = {} => {l.col : l \in {x \in links : x.cipher = c}} = asked[c]

\* What a user could read all the time from the first read of a sync to its
\* answer is in the answer, whatever is shared, linked or granted meanwhile.
SyncMissesNothing ==
  \A h \in running : h.op = "sync" /\ h.pc = "answer" => steady[h.id] \subseteq h.found

\* The handler whose step is being taken.
Acting == running \ running'

\* A handler writes a cipher only for a user who could write it at some instant
\* while the handler checked, or who was a member at one instant and had, when
\* the membership was gone, a grant at a later one.
WrittenByEntitled ==
  [][\A h \in Acting :
       h.op \in Checked /\ h.cipher \in Uuids /\ <<rows, links>>' # <<rows, links>>
         => h.access \in {"whole", "parts"}]_vars

-----------------------------------------------------------------------------
\* What has become of a cipher, for Vault.
HomeOf(c) ==
  IF c \in Uuids THEN (CHOOSE row \in rows : row.uuid = c).home
  ELSE IF c \in used THEN "gone" ELSE None

V == INSTANCE Vault WITH
       home <- [c \in Cipher |-> HomeOf(c)],
       trash <- {row.uuid : row \in {x \in rows : x.trash # "no"}},
       Gone <- "gone"

\* A cipher is at one home, moves at most once, to the organization, and never
\* comes back from deletion.
RefinesVault == V!Spec
=============================================================================
