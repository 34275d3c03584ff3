--------------------------- MODULE Organizations ---------------------------
(***************************************************************************)
(* One organization: its row, its `memberships`, its `collections` and the  *)
(* `users_collections` rows (grants) that open a collection to a member,    *)
(* with every handler that writes them, delete_account included.  As in     *)
(* Sessions, one action is one D1 statement with the code up to the next,   *)
(* and a handler may stop after any statement.                              *)
(*                                                                         *)
(* Names, keys of the organization, access_all and the flags of a grant are *)
(* left out: none of them decides what a handler writes.  An invitation of  *)
(* several users is as many requests begun together.                        *)
(***************************************************************************)
EXTENDS Naturals, FiniteSets

CONSTANTS
  User,         \* values generate_uuid yields for users.uuid
  Member,       \* ... for memberships.uuid
  Collection,   \* ... for collections.uuid
  None,         \* no user, member or collection
  Request       \* handler instances that may run at the same time

ASSUME NoneAssumption == None \notin User \cup Member \cup Collection
ASSUME RequestAssumption == IsFiniteSet(Request)

VARIABLES
  org,          \* the row of `organizations`: not yet, there, or deleted
  members,      \* rows of `memberships`
  collections,  \* rows of `collections`
  grants,       \* rows of `users_collections`
  accounts,     \* rows of `users`
  running,      \* handlers in flight
  given,        \* membership and collection ids already given out
  late          \* history: what was inserted when what it hangs on was not
                \* there, or was being deleted

vars == <<org, members, collections, grants, accounts, running, given, late>>

\* memberships.atype 0, 1 and 2 (or 3); status 1 accepted, 2 confirmed.
Roles == {"owner", "admin", "user"}
Privileged == {"owner", "admin"}
Row == [uuid: Member, user: User, role: Roles, confirmed: BOOLEAN]
Grant == [user: User, col: Collection]

\* Only to tell the three kinds of rows in `late` apart.
ASSUME LateAssumption == (Member \cup Collection) \cap Grant = {}

\* What a handler remembers: the role require_admin saw, the membership it
\* read with its user and role, the role to write, the owners it counted, and
\* the collection and grants it works on.
Handler == [id: Request,
            op: {"create", "invite", "accept", "confirm", "update", "remove",
                 "post_collection", "delete_collection", "set_users",
                 "delete_org", "delete_account"},
            pc: {"find", "count", "write", "collection", "clear", "grant",
                 "collections", "members", "drop"},
            mine: Roles, member: Member \cup {None}, user: User \cup {None},
            was: Roles, role: Roles, owners: Nat,
            col: Collection \cup {None}, todo: SUBSET Grant]

-----------------------------------------------------------------------------
Busy == {h.id : h \in running}

Become(h, new) == running' = (running \ {h}) \cup {new}
Goto(h, pc) == Become(h, [h EXCEPT !.pc = pc])
End(h) == running' = running \ {h}

Start(r, op, pc) == [id |-> r, op |-> op, pc |-> pc, mine |-> "owner",
  member |-> None, user |-> None, was |-> "user", role |-> "user",
  owners |-> 0, col |-> None, todo |-> {}]

\* The loop of set_user_collection calls that ends several handlers; a handler
\* forgets what it does not need any more.
GrantAll(h, todo) == IF todo = {} THEN End(h)
                     ELSE Become(h, [Start(h.id, h.op, "grant") EXCEPT
                                       !.todo = todo])

\* count_org_owners counts these.
Owners == {m \in members : m.role = "owner" /\ m.confirmed}

Has(u) == \E m \in members : m.user = u

\* Rows about to be deleted by a handler that has deleted their grants.
Leaving(u) == \E h \in running : /\ h.op \in {"remove", "delete_account"}
                                 /\ h.user = u /\ h.pc \in {"members", "drop"}
Closing(c) == \E h \in running : h.op = "delete_collection" /\ h.col = c
                                   /\ h.pc = "drop"
Dissolving == \/ org = "deleted"
              \/ \E h \in running : h.op = "delete_org" /\ h.pc # "clear"

\* The grants of user u to collections in the table, whatever its column.
GrantsIn(u) == {g \in grants : g.user = u /\ g.col \in collections}

-----------------------------------------------------------------------------
Init == /\ org = "none"
        /\ members = {} /\ collections = {} /\ grants = {}
        /\ accounts = User
        /\ running = {} /\ given = {} /\ late = {}

\* post_organization: insert_organization, then the owner's membership, and
\* a first collection if the body names one.
PostOrganization(r) ==
  /\ org = "none" /\ org' = "live"
  /\ \E u \in accounts :
       running' = running \cup {[Start(r, "create", "write") EXCEPT
                                   !.user = u, !.role = "owner"]}
  /\ UNCHANGED <<members, collections, grants, accounts, given, late>>

\* auth_from_request and require_admin (require_member's status included), or
\* for the deletion of the organization its stricter check.  Nothing looks up the
\* collections and users a body grants, which may be any: only the user invited
\* and the membership updated are found, or the handler stops (InviteFind,
\* UpdateFind).
BeginAsAdmin(r, op) ==
  /\ \E m \in members :
       /\ m.confirmed /\ m.user \in accounts
       /\ m.role \in (IF op = "delete_org" THEN {"owner"} ELSE Privileged)
       /\ \/ /\ op = "confirm"
             /\ running' = running \cup {Start(r, op, "find")}
          \/ /\ op = "remove"
             /\ running' = running \cup
                  {[Start(r, op, "find") EXCEPT !.mine = m.role]}
          \/ /\ op = "delete_org"
             /\ running' = running \cup {Start(r, op, "clear")}
          \/ /\ op = "post_collection"
             /\ running' = running \cup
                  {[Start(r, op, "collection") EXCEPT !.user = m.user]}
          \/ /\ op \in {"delete_collection", "set_users"}
             /\ \E c \in collections, us \in SUBSET User :
                  /\ op = "delete_collection" => us = {}
                  /\ running' = running \cup
                       {[Start(r, op, "clear") EXCEPT !.col = c,
                           !.todo = {[user |-> u, col |-> c] : u \in us}]}
          \/ /\ op \in {"invite", "update"}
             /\ \E role \in Roles, u \in User, cs \in SUBSET Collection :
                  /\ IF op = "invite" THEN u \in accounts ELSE Has(u)
                  /\ running' = running \cup
                       {[Start(r, op, "find") EXCEPT
                           !.mine = IF op = "update" THEN m.role ELSE "owner",
                           !.user = u, !.role = role,
                           !.todo = {[user |-> u, col |-> c] : c \in cs}]}
  /\ UNCHANGED <<org, members, collections, grants, accounts, given, late>>

\* accept_invite: auth_from_request, and the membership is the user's own and
\* not confirmed.
BeginAccept(r) ==
  /\ \E m \in members :
       /\ m.user \in accounts /\ ~m.confirmed
       /\ running' = running \cup
            {[Start(r, "accept", "write") EXCEPT !.member = m.uuid]}
  /\ UNCHANGED <<org, members, collections, grants, accounts, given, late>>

BeginDeleteAccount(r) ==
  /\ \E u \in accounts :
       running' = running \cup
         {[Start(r, "delete_account", "clear") EXCEPT !.user = u]}
  /\ UNCHANGED <<org, members, collections, grants, accounts, given, late>>

-----------------------------------------------------------------------------
\* Mutant: the look-up of an existing membership is missing.
InviteWithoutFind(h) ==
  /\ h.op = "invite" /\ h.pc = "find"
  /\ h.user \in accounts
  /\ Goto(h, "write")
  /\ UNCHANGED <<org, members, collections, grants, accounts, given, late>>

\* invite_member skips a user who already has a membership.
InviteFind(h) ==
  /\ h.op = "invite" /\ h.pc = "find"
  /\ h.user \in accounts
  /\ ~Has(h.user)
  /\ Goto(h, "write")
  /\ UNCHANGED <<org, members, collections, grants, accounts, given, late>>

\* insert_membership: accepted when invited, confirmed for the creator.
InsertMember(h) ==
  /\ h.op \in {"create", "invite"} /\ h.pc = "write"
  /\ \E m \in Member \ given :
       /\ members' = members \cup
            {[uuid |-> m, user |-> h.user, role |-> h.role,
              confirmed |-> h.op = "create"]}
       /\ given' = given \cup {m}
       /\ late' = IF Dissolving \/ h.user \notin accounts
                  THEN late \cup {m} ELSE late
  /\ IF h.op = "invite" THEN GrantAll(h, h.todo)
     ELSE End(h) \/ Goto(h, "collection")
  /\ UNCHANGED <<org, collections, grants, accounts>>

ConfirmFind(h) ==
  /\ h.op = "confirm" /\ h.pc = "find"
  /\ \E m \in members :
       /\ ~m.confirmed
       /\ Become(h, [h EXCEPT !.pc = "write", !.member = m.uuid])
  /\ UNCHANGED <<org, members, collections, grants, accounts, given, late>>

\* Mutant: the status is stored in another row.
InsertStatus(h) ==
  /\ h.op \in {"accept", "confirm"} /\ h.pc = "write"
  /\ members' = members \cup {[m EXCEPT !.confirmed = h.op = "confirm"] :
                                m \in {n \in members : n.uuid = h.member}}
  /\ End(h)
  /\ UNCHANGED <<org, collections, grants, accounts, given, late>>

\* update_membership_status_and_key, whatever the status is by now.
SetStatus(h) ==
  /\ h.op \in {"accept", "confirm"} /\ h.pc = "write"
  /\ members' = {IF m.uuid = h.member
                 THEN [m EXCEPT !.confirmed = h.op = "confirm"] ELSE m :
                   m \in members}
  /\ End(h)
  /\ UNCHANGED <<org, collections, grants, accounts, given, late>>

-----------------------------------------------------------------------------
\* Mutant: the role that is taken away is not looked at.
MayGive(mine, was, role) ==
  /\ was = "owner" => mine = "owner"
  /\ was # role /\ role \in Privileged => mine = "owner"

\* update_member: only owners edit owners, and only owners give or take the
\* roles of owner and admin.
MayUpdate(mine, was, role) ==
  /\ was = "owner" => mine = "owner"
  /\ was # role /\ {was, role} \cap Privileged # {} => mine = "owner"

UpdateFind(h) ==
  /\ h.op = "update" /\ h.pc = "find"
  /\ \E m \in members :
       /\ m.user = h.user
       /\ MayUpdate(h.mine, m.role, h.role)
       /\ Become(h, [h EXCEPT !.member = m.uuid, !.was = m.role,
                       !.pc = IF m.role = "owner" /\ h.role # "owner"
                              THEN "count" ELSE "write"])
  /\ UNCHANGED <<org, members, collections, grants, accounts, given, late>>

\* remove_member: only owners remove owners.
RemoveFind(h) ==
  /\ h.op = "remove" /\ h.pc = "find"
  /\ \E m \in members :
       /\ m.role = "owner" => h.mine = "owner"
       /\ Become(h, [h EXCEPT !.member = m.uuid, !.user = m.user,
                       !.was = m.role,
                       !.pc = IF m.role = "owner" THEN "count" ELSE "clear"])
  /\ UNCHANGED <<org, members, collections, grants, accounts, given, late>>

\* Mutant: an owner is one too many.
CountOwnersOffByOne(h) ==
  /\ h.pc = "count"
  /\ Cardinality(Owners) >= 1
  /\ Become(h, [h EXCEPT !.owners = Cardinality(Owners),
                  !.pc = IF h.op = "update" THEN "write" ELSE "clear"])
  /\ UNCHANGED <<org, members, collections, grants, accounts, given, late>>

\* count_org_owners: the last one is neither demoted nor removed.
CountOwners(h) ==
  /\ h.pc = "count"
  /\ Cardinality(Owners) > 1
  /\ Become(h, [h EXCEPT !.owners = Cardinality(Owners),
                  !.pc = IF h.op = "update" THEN "write" ELSE "clear"])
  /\ UNCHANGED <<org, members, collections, grants, accounts, given, late>>

\* update_membership writes the role by uuid, whatever it is by now.
UpdateRole(h) ==
  /\ h.op = "update" /\ h.pc = "write"
  /\ members' = {IF m.uuid = h.member THEN [m EXCEPT !.role = h.role] ELSE m :
                   m \in members}
  /\ Become(h, [Start(h.id, "update", "clear") EXCEPT
                  !.user = h.user, !.todo = h.todo])
  /\ UNCHANGED <<org, collections, grants, accounts, given, late>>

\* clear_user_collections_for_user_in_org, or the same in delete_membership.
ClearMember(h) ==
  /\ h.op \in {"update", "remove"} /\ h.pc = "clear"
  /\ grants' = grants \ GrantsIn(h.user)
  /\ late' = late \ GrantsIn(h.user)
  /\ IF h.op = "update" THEN GrantAll(h, h.todo) ELSE Goto(h, "drop")
  /\ UNCHANGED <<org, members, collections, accounts, given>>

DropMember(h) ==
  /\ h.op = "remove" /\ h.pc = "drop"
  /\ members' = {m \in members : m.uuid # h.member}
  /\ End(h)
  /\ UNCHANGED <<org, collections, grants, accounts, given, late>>

-----------------------------------------------------------------------------
\* insert_collection, of post_collection and post_organization.
InsertCollection(h) ==
  /\ h.pc = "collection"
  /\ \E c \in Collection \ given :
       /\ collections' = collections \cup {c}
       /\ given' = given \cup {c}
       /\ late' = IF Dissolving THEN late \cup {c} ELSE late
       /\ GrantAll(h, {[user |-> h.user, col |-> c]})
  /\ UNCHANGED <<org, members, grants, accounts>>

\* set_user_collection, INSERT OR REPLACE: the table has no foreign keys.
SetGrant(h) ==
  /\ h.pc = "grant"
  /\ \E g \in h.todo :
       /\ grants' = grants \cup {g}
       /\ late' = IF \/ ~Has(g.user) \/ Leaving(g.user) \/ Dissolving
                     \/ g.col \notin collections \/ Closing(g.col)
                  THEN late \cup {g} ELSE late
       /\ GrantAll(h, h.todo \ {g})
  /\ UNCHANGED <<org, members, collections, accounts, given>>

\* clear_user_collections_for_collection in set_collection_users (and in
\* update_collection with users), or the same in delete_collection.
ClearCollection(h) ==
  LET gone == {g \in grants : g.col = h.col} IN
  /\ h.op \in {"delete_collection", "set_users"} /\ h.pc = "clear"
  /\ grants' = grants \ gone /\ late' = late \ gone
  /\ IF h.op = "set_users" THEN GrantAll(h, h.todo) ELSE Goto(h, "drop")
  /\ UNCHANGED <<org, members, collections, accounts, given>>

DropCollection(h) ==
  /\ h.op = "delete_collection" /\ h.pc = "drop"
  /\ collections' = collections \ {h.col}
  /\ End(h)
  /\ UNCHANGED <<org, members, grants, accounts, given, late>>

-----------------------------------------------------------------------------
\* Mutant: the collections go first, and the grants are not found any more.
ClearOrgLate(h) ==
  /\ h.op = "delete_org" /\ h.pc = "clear"
  /\ collections' = {}
  /\ Goto(h, "members")
  /\ UNCHANGED <<org, members, grants, accounts, given, late>>

\* delete_organization, statement by statement: grants, found through the
\* collections, then collections, memberships and the organization.
ClearOrg(h) ==
  LET gone == {g \in grants : g.col \in collections} IN
  /\ h.op = "delete_org" /\ h.pc = "clear"
  /\ grants' = grants \ gone /\ late' = late \ gone
  /\ Goto(h, "collections")
  /\ UNCHANGED <<org, members, collections, accounts, given>>

DropCollections(h) ==
  /\ h.op = "delete_org" /\ h.pc = "collections"
  /\ collections' = {}
  /\ Goto(h, "members")
  /\ UNCHANGED <<org, members, grants, accounts, given, late>>

\* Mutant: members who are not confirmed are kept.
DropConfirmed(h) ==
  /\ h.op = "delete_org" /\ h.pc = "members"
  /\ members' = {m \in members : ~m.confirmed}
  /\ Goto(h, "drop")
  /\ UNCHANGED <<org, collections, grants, accounts, given, late>>

DropMembers(h) ==
  /\ h.op = "delete_org" /\ h.pc = "members"
  /\ members' = {}
  /\ Goto(h, "drop")
  /\ UNCHANGED <<org, collections, grants, accounts, given, late>>

DropOrg(h) ==
  /\ h.op = "delete_org" /\ h.pc = "drop"
  /\ org' = "deleted"
  /\ End(h)
  /\ UNCHANGED <<members, collections, grants, accounts, given, late>>

\* delete_user_cascade, which does not look at who owns an organization.
ClearUser(h) ==
  LET gone == {g \in grants : g.user = h.user} IN
  /\ h.op = "delete_account" /\ h.pc = "clear"
  /\ grants' = grants \ gone /\ late' = late \ gone
  /\ Goto(h, "members")
  /\ UNCHANGED <<org, members, collections, accounts, given>>

DropMemberships(h) ==
  /\ h.op = "delete_account" /\ h.pc = "members"
  /\ members' = {m \in members : m.user # h.user}
  /\ Goto(h, "drop")
  /\ UNCHANGED <<org, collections, grants, accounts, given, late>>

DropUser(h) ==
  /\ h.op = "delete_account" /\ h.pc = "drop"
  /\ accounts' = accounts \ {h.user}
  /\ End(h)
  /\ UNCHANGED <<org, members, collections, grants, given, late>>

\* A refused check, a failed statement or an evicted isolate.
Abandon(h) ==
  /\ End(h)
  /\ UNCHANGED <<org, members, collections, grants, accounts, given, late>>

-----------------------------------------------------------------------------
Begin(r) ==
  \/ PostOrganization(r)
  \/ \E op \in {"invite", "confirm", "update", "remove", "post_collection",
                "delete_collection", "set_users", "delete_org"} :
       BeginAsAdmin(r, op)
  \/ BeginAccept(r) \/ BeginDeleteAccount(r)

Step(h) ==
  \/ InviteFind(h) \/ InsertMember(h)
  \/ ConfirmFind(h) \/ SetStatus(h)
  \/ UpdateFind(h) \/ RemoveFind(h) \/ CountOwners(h) \/ UpdateRole(h)
  \/ ClearMember(h) \/ DropMember(h)
  \/ InsertCollection(h) \/ SetGrant(h)
  \/ ClearCollection(h) \/ DropCollection(h)
  \/ ClearOrg(h) \/ DropCollections(h) \/ DropMembers(h) \/ DropOrg(h)
  \/ ClearUser(h) \/ DropMemberships(h) \/ DropUser(h)
  \/ Abandon(h)

Next == \/ \E r \in Request \ Busy : Begin(r)
        \/ \E h \in running : Step(h)

Spec == Init /\ [][Next]_vars

-----------------------------------------------------------------------------
\* Rows and handlers are well formed, and memberships.uuid is unique.
TypeOK ==
  /\ org \in {"none", "live", "deleted"}
  /\ members \subseteq Row
  /\ \A m, n \in members : m.uuid = n.uuid => m = n
  /\ collections \subseteq Collection /\ grants \subseteq Grant
  /\ accounts \subseteq User /\ running \subseteq Handler
  /\ given \subseteq Member \cup Collection
  /\ late \subseteq Member \cup Collection \cup Grant

\* Invitations that look for a membership before either inserts one give a user
\* several, but never more than handlers run at once.
Joining(u) == {h \in running : h.op \in {"create", "invite"} /\ h.user = u
                                 /\ h.pc = "write"}
MembershipsBounded ==
  \A u \in User :
    Cardinality({m \in members : m.user = u}) + Cardinality(Joining(u))
      <= Cardinality(Request)

\* A grant opens an existing collection to a member, unless the one or the other
\* was not there or was being deleted when it was inserted: no deletion, cut
\* short or not, leaves a grant behind.
GrantsHang ==
  \A g \in grants \ late : g.col \in collections /\ Has(g.user)

\* A deleted organization leaves no membership and no collection, but those
\* inserted while it was being deleted.
NothingLeft ==
  org = "deleted" => {m.uuid : m \in members} \cup collections \subseteq late

\* The handler whose step is being taken.
Acting == running \ running'

\* An organization that is not being deleted loses its last confirmed owner
\* only with the owner's account, to an acceptance that reads before and writes
\* after a confirmation, or to a demotion or removal that saw another owner, or
\* another role, than there is when it writes.
OwnerLossExplained ==
  [][Owners # {} /\ Owners' = {} =>
       \E h \in Acting :
         \/ h.op \in {"delete_account", "delete_org", "accept"}
         \/ /\ h.op \in {"update", "remove"}
            /\ h.was = "owner" => h.owners > Cardinality(Owners)]_vars

\* Whether h takes the decision an owner is asked for, or took it reading the
\* membership with another role than m has now.
ByOwner(h, m) == h.mine = "owner" \/ h.was # m.role

\* The rules of update_member and remove_member: the membership of an owner or
\* admin changes its role, or a user's becomes one of them, through an owner, and
\* an owner's membership is removed by an owner, or goes with its account or the
\* organization; unless the handler had read the membership with another role.
\* (Whom an admin may invite, and that an admin may remove an admin, are no part
\* of it.)
PrivilegesByOwners ==
  [][\A m \in members :
       /\ \A n \in members' :
            /\ m.uuid = n.uuid /\ m.role # n.role
            /\ {m.role, n.role} \cap Privileged # {}
            => \E h \in Acting : h.op = "update" /\ ByOwner(h, m)
       /\ m.role = "owner" /\ (\A n \in members' : n.uuid # m.uuid)
            => \E h \in Acting : \/ h.op \in {"delete_account", "delete_org"}
                                 \/ h.op = "remove" /\ ByOwner(h, m)]_vars

\* The checks of update_member ("Prevent demoting the last owner") and
\* remove_member ("Prevent removing the last owner").
LastOwnerStays ==
  [][\A h \in Acting : h.op \in {"update", "remove"} /\ Owners # {} =>
       Owners' # {}]_vars
=============================================================================
