------------------------ MODULE OrganizationsProofs ------------------------
(***************************************************************************)
(* Proofs about Organizations, for any number of users, memberships,        *)
(* collections and requests at a time.                                      *)
(***************************************************************************)
EXTENDS Organizations, FiniteSetTheorems, TLAPS

-----------------------------------------------------------------------------
(* Type correctness.  A handler's count of owners is a number because there  *)
(* are finitely many memberships, and memberships.uuid is unique because an  *)
(* id is not given out twice.                                                *)

HandlersOK ==
  \A h \in running :
    /\ h.op \in {"create", "invite"} /\ h.pc = "write" => h.user \in User
    /\ h.pc = "collection" => h.user \in User

TypeInv ==
  /\ TypeOK
  /\ HandlersOK
  /\ IsFiniteSet(members)
  /\ \A m \in members : m.uuid \in given

LEMMA TypeInit == Init => TypeInv
<1>1. IsFiniteSet({})
  BY FS_EmptySet
<1>. QED BY <1>1 DEF Init, TypeInv, TypeOK, HandlersOK

LEMMA StartOK ==
  ASSUME NEW r \in Request,
         NEW op \in {"create", "invite", "accept", "confirm", "update", "remove",
                     "post_collection", "delete_collection", "set_users",
                     "delete_org", "delete_account"},
         NEW pc \in {"find", "count", "write", "collection", "clear", "grant",
                     "collections", "members", "drop"}
  PROVE  Start(r, op, pc) \in Handler
BY DEF Start, Handler, Roles

\* A handler that begins.
LEMMA BeginType ==
  ASSUME TypeInv, NEW r \in Request \ Busy, Begin(r)
  PROVE  /\ TypeInv'
         /\ UNCHANGED <<members, collections, grants, accounts, given, late>>
         /\ \E new \in Handler :
              /\ running' = running \cup {new} /\ new.id = r
              /\ new.op # "remove" \/ new.pc = "find"
              /\ new.op # "update" \/ new.pc = "find"
              /\ new.pc \notin {"members", "drop"}
              /\ new.op = "delete_org" => new.pc = "clear"
              /\ new.op = "invite" => new.pc = "find"
              /\ new.op = "create" => org = "none" /\ org' # "none"
              /\ new.op = "invite" => members # {}
<1>1. \A m \in members : m.user \in User /\ m.role \in Roles /\ m.uuid \in Member
  BY DEF TypeInv, TypeOK, Row
<1>2. accounts \subseteq User /\ collections \subseteq Collection
  BY DEF TypeInv, TypeOK
<1>3. /\ UNCHANGED <<members, collections, grants, accounts, given, late>>
      /\ org' \in {"none", "live", "deleted"}
  BY DEF Begin, PostOrganization, BeginAsAdmin, BeginAccept, BeginDeleteAccount,
         TypeInv, TypeOK
<1>4. \E new \in Handler :
        /\ running' = running \cup {new} /\ new.id = r
        /\ new.op # "remove" \/ new.pc = "find"
        /\ new.op # "update" \/ new.pc = "find"
        /\ new.pc \notin {"members", "drop"}
        /\ new.op = "delete_org" => new.pc = "clear"
        /\ new.op = "invite" => new.pc = "find"
        /\ new.op = "create" => org = "none" /\ org' # "none" /\ new.user \in User
        /\ new.op = "invite" => members # {}
        /\ new.pc = "collection" => new.user \in User
  <2>1. CASE PostOrganization(r)
    <3>1. PICK u \in accounts :
            running' = running \cup
              {[Start(r, "create", "write") EXCEPT !.user = u, !.role = "owner"]}
      BY <2>1 DEF PostOrganization
    <3>2. [Start(r, "create", "write") EXCEPT !.user = u, !.role = "owner"] \in Handler
      BY <1>2 DEF Start, Handler, Roles
    <3>. QED BY <1>2, <2>1, <3>1, <3>2 DEF PostOrganization, Start
  <2>2. ASSUME NEW op \in {"invite", "confirm", "update", "remove", "post_collection",
                           "delete_collection", "set_users", "delete_org"},
               BeginAsAdmin(r, op)
        PROVE  \E new \in Handler :
                 /\ running' = running \cup {new} /\ new.id = r
                 /\ new.op = op
                 /\ op \in {"confirm", "remove", "invite", "update"} => new.pc = "find"
                 /\ op \notin {"confirm", "remove", "invite", "update"}
                      => new.pc \in {"clear", "collection"}
                 /\ op = "delete_org" => new.pc = "clear"
                 /\ members # {}
                 /\ new.pc = "collection" => new.user \in User
    <3>1. members # {}
      BY <2>2 DEF BeginAsAdmin
    <3>2. CASE op \in {"confirm", "delete_org"}
      <4>1. running' = running \cup
              {Start(r, op, IF op = "confirm" THEN "find" ELSE "clear")}
        BY <2>2, <3>2 DEF BeginAsAdmin
      <4>. QED BY <3>1, <3>2, <4>1, StartOK DEF Start
    <3>3. CASE op = "remove"
      <4>1. PICK m \in members :
              running' = running \cup {[Start(r, op, "find") EXCEPT !.mine = m.role]}
        BY <2>2, <3>3 DEF BeginAsAdmin
      <4>2. [Start(r, op, "find") EXCEPT !.mine = m.role] \in Handler
        BY <1>1, <3>3 DEF Start, Handler, Roles
      <4>. QED BY <3>3, <4>1, <4>2 DEF Start
    <3>4. CASE op = "post_collection"
      <4>1. PICK m \in members :
              running' = running \cup {[Start(r, op, "collection") EXCEPT !.user = m.user]}
        BY <2>2, <3>4 DEF BeginAsAdmin
      <4>2. [Start(r, op, "collection") EXCEPT !.user = m.user] \in Handler
        BY <1>1, <3>4 DEF Start, Handler, Roles
      <4>. QED BY <1>1, <3>4, <4>1, <4>2 DEF Start
    <3>5. CASE op \in {"delete_collection", "set_users"}
      <4>1. PICK c \in collections, us \in SUBSET User :
              running' = running \cup
                {[Start(r, op, "clear") EXCEPT !.col = c,
                    !.todo = {[user |-> u, col |-> c] : u \in us}]}
        BY <2>2, <3>5 DEF BeginAsAdmin
      <4>3. {[user |-> u, col |-> c] : u \in us} \subseteq Grant
        BY <1>2 DEF Grant
      <4>4. [Start(r, op, "clear") EXCEPT !.col = c,
               !.todo = {[user |-> u, col |-> c] : u \in us}] \in Handler
        BY <1>2, <3>5, <4>3 DEF Start, Handler, Roles
      <4>. QED BY <3>1, <3>5, <4>1, <4>4 DEF Start
    <3>6. CASE op \in {"invite", "update"}
      <4>0. PICK m \in members : \E role \in Roles, u \in User, cs \in SUBSET Collection :
              /\ IF op = "invite" THEN u \in accounts ELSE Has(u)
              /\ running' = running \cup
                   {[Start(r, op, "find") EXCEPT
                       !.mine = IF op = "update" THEN m.role ELSE "owner",
                       !.user = u, !.role = role,
                       !.todo = {[user |-> u, col |-> c] : c \in cs}]}
        BY <2>2, <3>6, Zenon DEF BeginAsAdmin
      <4>1. PICK role \in Roles, u \in User, cs \in SUBSET Collection :
              running' = running \cup
                {[Start(r, op, "find") EXCEPT
                    !.mine = IF op = "update" THEN m.role ELSE "owner",
                    !.user = u, !.role = role,
                    !.todo = {[user |-> u, col |-> c] : c \in cs}]}
        BY <4>0
      <4>2. {[user |-> u, col |-> c] : c \in cs} \subseteq Grant
        BY <1>2 DEF Grant
      <4>3. [Start(r, op, "find") EXCEPT
               !.mine = IF op = "update" THEN m.role ELSE "owner",
               !.user = u, !.role = role,
               !.todo = {[user |-> u, col |-> c] : c \in cs}] \in Handler
        BY <1>1, <1>2, <3>6, <4>2 DEF Start, Handler, Roles
      <4>. QED BY <3>6, <4>1, <4>3 DEF Start
    <3>. QED BY <3>2, <3>3, <3>4, <3>5, <3>6
  <2>3. CASE BeginAccept(r)
    <3>1. PICK m \in members :
            running' = running \cup {[Start(r, "accept", "write") EXCEPT !.member = m.uuid]}
      BY <2>3 DEF BeginAccept
    <3>2. [Start(r, "accept", "write") EXCEPT !.member = m.uuid] \in Handler
      BY <1>1 DEF Start, Handler, Roles
    <3>. QED BY <3>1, <3>2 DEF Start
  <2>4. CASE BeginDeleteAccount(r)
    <3>1. PICK u \in accounts :
            running' = running \cup
              {[Start(r, "delete_account", "clear") EXCEPT !.user = u]}
      BY <2>4 DEF BeginDeleteAccount
    <3>2. [Start(r, "delete_account", "clear") EXCEPT !.user = u] \in Handler
      BY <1>2 DEF Start, Handler, Roles
    <3>. QED BY <3>1, <3>2 DEF Start
  <2>. QED BY <2>1, <2>2, <2>3, <2>4 DEF Begin
<1>. QED BY <1>3, <1>4 DEF TypeInv, TypeOK, HandlersOK

\* A handler that goes on.
LEMMA GotoOK ==
  ASSUME TypeInv, NEW h \in running,
         NEW pc \in {"find", "count", "write", "collection", "clear", "grant",
                     "collections", "members", "drop"},
         Goto(h, pc)
  PROVE  \E new \in Handler :
           /\ running' = (running \ {h}) \cup {new}
           /\ new.pc = pc /\ new.id = h.id /\ new.op = h.op /\ new.user = h.user
           /\ new.mine = h.mine /\ new.member = h.member /\ new.was = h.was
           /\ new.role = h.role /\ new.owners = h.owners /\ new.col = h.col
           /\ new.todo = h.todo
<1>1. h \in Handler
  BY DEF TypeInv, TypeOK
<1>2. [h EXCEPT !.pc = pc] \in Handler
  BY <1>1 DEF Handler
<1>. QED BY <1>1, <1>2 DEF Goto, Become, Handler

\* The loop of grants.
LEMMA GrantAllOK ==
  ASSUME TypeInv, NEW h \in running, NEW todo \in SUBSET Grant, GrantAll(h, todo)
  PROVE  \/ running' = running \ {h}
         \/ \E new \in Handler :
              /\ running' = (running \ {h}) \cup {new}
              /\ new.id = h.id /\ new.op = h.op /\ new.pc = "grant"
              /\ new.todo = todo
<1>1. h \in Handler
  BY DEF TypeInv, TypeOK
<1>2. CASE todo = {}
  BY <1>2 DEF GrantAll, End
<1>3. CASE todo # {}
  <2>1. [Start(h.id, h.op, "grant") EXCEPT !.todo = todo] \in Handler
    BY <1>1 DEF Start, Handler, Roles
  <2>2. running' = (running \ {h}) \cup {[Start(h.id, h.op, "grant") EXCEPT !.todo = todo]}
    BY <1>3 DEF GrantAll, Become
  <2>. QED BY <2>1, <2>2 DEF Start
<1>. QED BY <1>2, <1>3

\* The rows a status or role is written to.
LEMMA SetStatusRows ==
  ASSUME TypeInv, NEW h \in running, SetStatus(h)
  PROVE  /\ members' \subseteq Row /\ IsFiniteSet(members')
         /\ \A x, y \in members' : x.uuid = y.uuid => x = y
         /\ \A n \in members' : \E m \in members :
              /\ n.uuid = m.uuid /\ n.user = m.user /\ n.role = m.role
              /\ h.op = "confirm" /\ m.confirmed => n.confirmed
         /\ \A m \in members : \E n \in members' :
              /\ n.uuid = m.uuid /\ n.user = m.user /\ n.role = m.role
              /\ h.op = "confirm" /\ m.confirmed => n.confirmed
<1>. DEFINE f(m) == IF m.uuid = h.member THEN [m EXCEPT !.confirmed = h.op = "confirm"]
                    ELSE m
<1>1. \A m \in members : /\ f(m) \in Row /\ f(m).uuid = m.uuid
                         /\ f(m).user = m.user /\ f(m).role = m.role
                         /\ h.op = "confirm" /\ m.confirmed => f(m).confirmed
  BY DEF TypeInv, TypeOK, Row
<1>2. members' = {f(m) : m \in members}
  BY DEF SetStatus
<1>3. [m \in members |-> f(m)] \in Surjection(members, members')
  BY <1>2 DEF Surjection
<1>4. IsFiniteSet(members')
  BY <1>3, FS_Surjection DEF TypeInv
<1>. HIDE DEF f
<1>5. \A x, y \in members' : x.uuid = y.uuid => x = y
  BY <1>1, <1>2 DEF TypeInv, TypeOK
<1>. QED BY <1>1, <1>2, <1>4, <1>5

LEMMA UpdateRoleRows ==
  ASSUME TypeInv, NEW h \in running, UpdateRole(h)
  PROVE  /\ members' \subseteq Row /\ IsFiniteSet(members')
         /\ \A x, y \in members' : x.uuid = y.uuid => x = y
         /\ \A n \in members' : \E m \in members :
              /\ n = IF m.uuid = h.member THEN [m EXCEPT !.role = h.role] ELSE m
              /\ n.uuid = m.uuid /\ n.user = m.user /\ n.confirmed = m.confirmed
         /\ \A m \in members : \E n \in members' :
              /\ n = IF m.uuid = h.member THEN [m EXCEPT !.role = h.role] ELSE m
              /\ n.uuid = m.uuid /\ n.user = m.user /\ n.confirmed = m.confirmed
<1>. DEFINE f(m) == IF m.uuid = h.member THEN [m EXCEPT !.role = h.role] ELSE m
<1>0. h.role \in Roles
  BY DEF TypeInv, TypeOK, Handler
<1>1. \A m \in members : /\ f(m) \in Row /\ f(m).uuid = m.uuid
                         /\ f(m).user = m.user /\ f(m).confirmed = m.confirmed
  BY <1>0 DEF TypeInv, TypeOK, Row
<1>2. members' = {f(m) : m \in members}
  BY DEF UpdateRole
<1>3. [m \in members |-> f(m)] \in Surjection(members, members')
  BY <1>2 DEF Surjection
<1>4. IsFiniteSet(members')
  BY <1>3, FS_Surjection DEF TypeInv
<1>. HIDE DEF f
<1>5. \A x, y \in members' : x.uuid = y.uuid => x = y
  BY <1>1, <1>2 DEF TypeInv, TypeOK
<1>. QED BY <1>1, <1>2, <1>4, <1>5 DEF f

\* The membership an invitation or the creation of the organization inserts.
LEMMA InsertMemberRow ==
  ASSUME TypeInv, NEW h \in running, InsertMember(h)
  PROVE  \E m \in Member \ given, new \in Row :
           /\ members' = members \cup {new} /\ new.uuid = m /\ new.user = h.user
           /\ given' = given \cup {m}
           /\ late' = IF Dissolving \/ h.user \notin accounts
                      THEN late \cup {m} ELSE late
<1>0. h \in Handler
  BY DEF TypeInv, TypeOK
<1>1. PICK m \in Member \ given :
        /\ members' = members \cup
             {[uuid |-> m, user |-> h.user, role |-> h.role,
               confirmed |-> h.op = "create"]}
        /\ given' = given \cup {m}
        /\ late' = IF Dissolving \/ h.user \notin accounts
                   THEN late \cup {m} ELSE late
  BY DEF InsertMember
<1>2. [uuid |-> m, user |-> h.user, role |-> h.role,
       confirmed |-> h.op = "create"] \in Row
  BY <1>0 DEF InsertMember, Handler, Row, TypeInv, HandlersOK
<1>3. /\ [uuid |-> m, user |-> h.user, role |-> h.role,
          confirmed |-> h.op = "create"].uuid = m
      /\ [uuid |-> m, user |-> h.user, role |-> h.role,
          confirmed |-> h.op = "create"].user = h.user
  BY Zenon
<1>. QED BY <1>1, <1>2, <1>3

LEMMA StepType == ASSUME TypeInv, NEW h \in running, Step(h) PROVE TypeInv'
<1>0. h \in Handler
  BY DEF TypeInv, TypeOK
<1>. USE DEF TypeInv, TypeOK, HandlersOK
<1>1. CASE InviteFind(h)
  <2>1. Goto(h, "write")
    BY <1>1 DEF InviteFind
  <2>. QED BY <1>1, <2>1, GotoOK DEF InviteFind
<1>2. CASE InsertMember(h)
  <2>1. PICK m \in Member \ given, new \in Row :
          /\ members' = members \cup {new} /\ new.uuid = m
          /\ given' = given \cup {m} /\ late' \subseteq late \cup {m}
    BY <1>2, InsertMemberRow
  <2>2. IsFiniteSet(members')
    BY <2>1, FS_AddElement
  <2>3. h.todo \in SUBSET Grant
    BY <1>0 DEF Handler
  <2>4. running' \subseteq Handler /\ HandlersOK'
    <3>1. CASE h.op = "invite"
      BY <1>2, <2>3, <3>1, GrantAllOK DEF InsertMember
    <3>2. CASE h.op # "invite"
      <4>1. h.user \in User /\ (End(h) \/ Goto(h, "collection"))
        BY <1>2, <3>2 DEF InsertMember
      <4>. QED BY <4>1, GotoOK DEF End
    <3>. QED BY <3>1, <3>2
  <2>. QED BY <1>2, <2>1, <2>2, <2>4 DEF InsertMember
<1>3. CASE ConfirmFind(h)
  <2>1. \A m \in members :
          LET new == [h EXCEPT !.pc = "write", !.member = m.uuid] IN
          new \in Handler /\ new.pc = "write" /\ new.op = h.op
    BY <1>0 DEF Handler, Row
  <2>. QED BY <1>3, <2>1 DEF ConfirmFind, Become
<1>4. CASE SetStatus(h)
  <2>1. /\ members' \subseteq Row /\ IsFiniteSet(members')
        /\ \A x, y \in members' : x.uuid = y.uuid => x = y
        /\ \A n \in members' : n.uuid \in given
    BY <1>4, SetStatusRows
  <2>. QED BY <1>4, <2>1 DEF SetStatus, End
<1>5. CASE UpdateFind(h)
  <2>1. \A m \in members, pc \in {"count", "write"} :
          LET new == [h EXCEPT !.member = m.uuid, !.was = m.role, !.pc = pc] IN
          new \in Handler /\ new.op = h.op /\ new.pc = pc
    BY <1>0 DEF Handler, Row
  <2>. QED BY <1>5, <2>1 DEF UpdateFind, Become
<1>6. CASE RemoveFind(h)
  <2>1. \A m \in members, pc \in {"count", "clear"} :
          LET new == [h EXCEPT !.member = m.uuid, !.user = m.user, !.was = m.role,
                        !.pc = pc] IN
          new \in Handler /\ new.op = h.op /\ new.pc = pc
    BY <1>0 DEF Handler, Row
  <2>. QED BY <1>6, <2>1 DEF RemoveFind, Become
<1>7. CASE CountOwners(h)
  <2>1. Cardinality(Owners) \in Nat
    BY FS_Subset, FS_CardinalityType DEF Owners
  <2>2. \A pc \in {"write", "clear"} :
          LET new == [h EXCEPT !.owners = Cardinality(Owners), !.pc = pc] IN
          new \in Handler /\ new.op = h.op /\ new.pc = pc
    BY <1>0, <2>1 DEF Handler
  <2>. QED BY <1>7, <2>2 DEF CountOwners, Become
<1>8. CASE UpdateRole(h)
  <2>1. LET new == [Start(h.id, "update", "clear") EXCEPT
                      !.user = h.user, !.todo = h.todo] IN
        new \in Handler /\ new.op = "update" /\ new.pc = "clear"
    BY <1>0 DEF Handler, Start, Roles
  <2>2. /\ members' \subseteq Row /\ IsFiniteSet(members')
        /\ \A x, y \in members' : x.uuid = y.uuid => x = y
        /\ \A n \in members' : n.uuid \in given
    BY <1>8, UpdateRoleRows
  <2>. QED BY <1>8, <2>1, <2>2 DEF UpdateRole, Become
<1>9. CASE ClearMember(h)
  <2>1. h.todo \in SUBSET Grant /\ (GrantAll(h, h.todo) \/ Goto(h, "drop"))
    BY <1>0, <1>9 DEF Handler, ClearMember
  <2>2. running' \subseteq Handler /\ HandlersOK'
    BY <2>1, GrantAllOK, GotoOK
  <2>. QED BY <1>9, <2>2 DEF ClearMember, GrantsIn
<1>10. CASE DropMember(h)
  BY <1>10, FS_Subset DEF DropMember, End
<1>11. CASE InsertCollection(h)
  <2>1. PICK c \in Collection \ given :
          /\ collections' = collections \cup {c} /\ given' = given \cup {c}
          /\ late' \subseteq late \cup {c}
          /\ GrantAll(h, {[user |-> h.user, col |-> c]})
    BY <1>11 DEF InsertCollection
  <2>2. [user |-> h.user, col |-> c] \in Grant
    BY <1>11 DEF InsertCollection, Grant
  <2>3. running' \subseteq Handler /\ HandlersOK'
    BY <2>1, <2>2, GrantAllOK
  <2>. QED BY <1>11, <2>1, <2>3 DEF InsertCollection
<1>12. CASE SetGrant(h)
  <2>1. PICK g \in h.todo :
          /\ grants' = grants \cup {g} /\ late' \subseteq late \cup {g}
          /\ GrantAll(h, h.todo \ {g})
    BY <1>12 DEF SetGrant
  <2>2. h.todo \in SUBSET Grant
    BY <1>0 DEF Handler
  <2>3. running' \subseteq Handler /\ HandlersOK'
    BY <2>1, <2>2, GrantAllOK
  <2>. QED BY <1>12, <2>1, <2>2, <2>3 DEF SetGrant
<1>13. CASE ClearCollection(h)
  <2>1. h.todo \in SUBSET Grant /\ (GrantAll(h, h.todo) \/ Goto(h, "drop"))
    BY <1>0, <1>13 DEF Handler, ClearCollection
  <2>2. running' \subseteq Handler /\ HandlersOK'
    BY <2>1, GrantAllOK, GotoOK
  <2>. QED BY <1>13, <2>2 DEF ClearCollection
<1>14. CASE DropCollection(h)
  BY <1>14 DEF DropCollection, End
<1>15. CASE ClearOrg(h)
  <2>1. Goto(h, "collections")
    BY <1>15 DEF ClearOrg
  <2>. QED BY <1>15, <2>1, GotoOK DEF ClearOrg
<1>16. CASE DropCollections(h)
  <2>1. Goto(h, "members")
    BY <1>16 DEF DropCollections
  <2>. QED BY <1>16, <2>1, GotoOK DEF DropCollections
<1>17. CASE DropMembers(h)
  <2>1. Goto(h, "drop")
    BY <1>17 DEF DropMembers
  <2>. QED BY <1>17, <2>1, GotoOK, FS_EmptySet DEF DropMembers
<1>18. CASE DropOrg(h)
  BY <1>18 DEF DropOrg, End
<1>19. CASE ClearUser(h)
  <2>1. Goto(h, "members")
    BY <1>19 DEF ClearUser
  <2>. QED BY <1>19, <2>1, GotoOK DEF ClearUser
<1>20. CASE DropMemberships(h)
  <2>1. Goto(h, "drop")
    BY <1>20 DEF DropMemberships
  <2>. QED BY <1>20, <2>1, GotoOK, FS_Subset DEF DropMemberships
<1>21. CASE DropUser(h)
  BY <1>21 DEF DropUser, End
<1>22. CASE Abandon(h)
  BY <1>22 DEF Abandon, End
<1>. QED BY <1>1, <1>2, <1>3, <1>4, <1>5, <1>6, <1>7, <1>8, <1>9, <1>10, <1>11,
            <1>12, <1>13, <1>14, <1>15, <1>16, <1>17, <1>18, <1>19, <1>20, <1>21,
            <1>22 DEF Step

LEMMA TypeStep == ASSUME TypeInv, [Next]_vars PROVE TypeInv'
<1>1. CASE UNCHANGED vars
  BY <1>1 DEF vars, TypeInv, TypeOK, HandlersOK
<1>. QED BY <1>1, BeginType, StepType DEF Next

LEMMA TypeInvariant == Spec => []TypeInv
BY TypeInit, TypeStep, PTL DEF Spec

\* Rows and handlers are well formed, and a membership has one row, for any
\* number of users and requests.
THEOREM TypeCorrect == Spec => []TypeOK
BY TypeInvariant, PTL DEF TypeInv

-----------------------------------------------------------------------------
(* What handlers that change memberships know. *)

\* The memberships after a step, and the ids given out.
LEMMA MembersFrom ==
  ASSUME TypeInv, [Next]_vars
  PROVE  /\ given \subseteq given'
         /\ \A n \in members' :
              \/ n.uuid \notin given
              \/ \E m \in members : m.uuid = n.uuid /\ m.user = n.user
<1>1. CASE UNCHANGED vars
  BY <1>1 DEF vars
<1>2. ASSUME NEW r \in Request \ Busy, Begin(r)
      PROVE  UNCHANGED <<members, given>>
  BY <1>2, BeginType
<1>3. ASSUME NEW h \in running, Step(h)
      PROVE  /\ given \subseteq given'
             /\ \A n \in members' :
                  \/ n.uuid \notin given
                  \/ \E m \in members : m.uuid = n.uuid /\ m.user = n.user
  <2>1. CASE InsertMember(h)
    BY <2>1 DEF InsertMember
  <2>2. CASE SetStatus(h)
    <3>1. UNCHANGED given
      BY <2>2 DEF SetStatus
    <3>. QED BY <2>2, <3>1, SetStatusRows
  <2>3. CASE UpdateRole(h)
    <3>1. UNCHANGED given
      BY <2>3 DEF UpdateRole
    <3>. QED BY <2>3, <3>1, UpdateRoleRows
  <2>4. CASE InsertCollection(h)
    BY <2>4 DEF InsertCollection
  <2>5. CASE DropMember(h) \/ DropMembers(h) \/ DropMemberships(h)
    BY <2>5 DEF DropMember, DropMembers, DropMemberships
  <2>. QED BY <1>3, <2>1, <2>2, <2>3, <2>4, <2>5 DEF Step, InviteFind, ConfirmFind,
           UpdateFind, RemoveFind, CountOwners, ClearMember, SetGrant, ClearCollection,
           DropCollection, ClearOrg, DropCollections, DropOrg, ClearUser, DropUser,
           Abandon
<1>. QED BY <1>1, <1>2, <1>3 DEF Next

\* What becomes of the handler that takes a step.
Successor(h, new) ==
  /\ new \in Handler
  /\ running' = (running \ {h}) \cup {new}
  /\ new.id = h.id /\ new.op = h.op
  /\ new.op = "update" => \/ UpdateFind(h) \/ CountOwners(h) \/ UpdateRole(h)
                           \/ new.pc = "grant"
  /\ new.op = "remove" => \/ RemoveFind(h) \/ CountOwners(h) \/ ClearMember(h)
                           \/ new.pc = "grant"
  /\ new.op \in {"create", "invite"} /\ new.pc = "write"
       => InviteFind(h) /\ new.user = h.user
  /\ new.op \in {"remove", "delete_account"} /\ new.pc \in {"members", "drop"}
       => new.user = h.user /\ (h.pc = "members" \/ ClearMember(h) \/ ClearUser(h))
  /\ new.op = "delete_collection" /\ new.pc = "drop"
       => new.col = h.col /\ ClearCollection(h)
  /\ new.op = "delete_org" /\ new.pc # "clear" => ClearOrg(h) \/ h.pc # "clear"
  /\ new.op = "delete_org" /\ new.pc = "members" => DropCollections(h)
  /\ new.op = "delete_org" /\ new.pc = "drop" => DropMembers(h)

LEMMA StepShape ==
  ASSUME TypeInv, NEW h \in running, Step(h)
  PROVE  running' = running \ {h} \/ \E new \in Handler : Successor(h, new)
<1>0. h \in Handler
  BY DEF TypeInv, TypeOK
<1>. USE DEF Successor
<1>1. CASE DropMember(h) \/ DropCollection(h) \/ DropOrg(h) \/ DropUser(h) \/ Abandon(h)
           \/ SetStatus(h)
  BY <1>1 DEF DropMember, DropCollection, DropOrg, DropUser, Abandon, SetStatus, End
<1>2. CASE InviteFind(h)
  <2>1. Goto(h, "write") /\ h.op = "invite"
    BY <1>2 DEF InviteFind
  <2>. QED BY <1>2, <2>1, GotoOK
<1>3. CASE InsertMember(h)
  <2>1. h.todo \in SUBSET Grant /\ h.op \in {"create", "invite"}
    BY <1>0, <1>3 DEF Handler, InsertMember
  <2>2. End(h) \/ Goto(h, "collection") \/ GrantAll(h, h.todo)
    BY <1>3 DEF InsertMember
  <2>3. CASE End(h)
    BY <2>3 DEF End
  <2>4. CASE Goto(h, "collection")
    <3>1. PICK new \in Handler : /\ running' = (running \ {h}) \cup {new}
                                 /\ new.id = h.id /\ new.op = h.op
                                 /\ new.pc = "collection"
      BY <2>4, GotoOK
    <3>2. Successor(h, new)
      BY <2>1, <3>1
    <3>. QED BY <3>2
  <2>5. CASE GrantAll(h, h.todo)
    BY <2>1, <2>5, GrantAllOK
  <2>. QED BY <2>2, <2>3, <2>4, <2>5
<1>4. CASE ConfirmFind(h)
  <2>1. PICK m \in members : Become(h, [h EXCEPT !.pc = "write", !.member = m.uuid])
    BY <1>4 DEF ConfirmFind
  <2>. DEFINE new == [h EXCEPT !.pc = "write", !.member = m.uuid]
  <2>2. new \in Handler /\ new.id = h.id /\ new.op = "confirm"
    BY <1>0, <1>4 DEF Handler, ConfirmFind, TypeInv, TypeOK, Row
  <2>. QED BY <1>4, <2>1, <2>2 DEF ConfirmFind, Become
<1>5. CASE UpdateFind(h)
  <2>1. PICK m \in members, pc \in {"count", "write"} :
          Become(h, [h EXCEPT !.member = m.uuid, !.was = m.role, !.pc = pc])
    BY <1>5 DEF UpdateFind
  <2>. DEFINE new == [h EXCEPT !.member = m.uuid, !.was = m.role, !.pc = pc]
  <2>2. new \in Handler /\ new.id = h.id /\ new.op = "update"
    BY <1>0, <1>5 DEF Handler, UpdateFind, TypeInv, TypeOK, Row
  <2>. QED BY <1>5, <2>1, <2>2 DEF UpdateFind, Become
<1>6. CASE RemoveFind(h)
  <2>1. PICK m \in members, pc \in {"count", "clear"} :
          Become(h, [h EXCEPT !.member = m.uuid, !.user = m.user, !.was = m.role,
                       !.pc = pc])
    BY <1>6 DEF RemoveFind
  <2>. DEFINE new == [h EXCEPT !.member = m.uuid, !.user = m.user, !.was = m.role,
                       !.pc = pc]
  <2>2. new \in Handler /\ new.id = h.id /\ new.op = "remove" /\ new.pc = pc
    BY <1>0, <1>6 DEF Handler, RemoveFind, TypeInv, TypeOK, Row
  <2>. QED BY <1>6, <2>1, <2>2 DEF RemoveFind, Become
<1>7. CASE CountOwners(h)
  <2>1. Cardinality(Owners) \in Nat
    BY FS_Subset, FS_CardinalityType DEF Owners, TypeInv
  <2>2. PICK pc \in {"write", "clear"} :
          /\ Become(h, [h EXCEPT !.owners = Cardinality(Owners), !.pc = pc])
          /\ h.op # "update" => pc = "clear"
    BY <1>7 DEF CountOwners
  <2>. DEFINE new == [h EXCEPT !.owners = Cardinality(Owners), !.pc = pc]
  <2>3. new \in Handler /\ new.id = h.id /\ new.op = h.op /\ new.pc = pc
    BY <1>0, <2>1 DEF Handler
  <2>4. h.op # "delete_org" \/ new.pc = "clear"
    BY <2>2, <2>3
  <2>5. h.op \in {"create", "invite"} => new.pc # "write"
    BY <2>2, <2>3
  <2>. QED BY <1>7, <2>2, <2>3, <2>4, <2>5 DEF Become
<1>8. CASE UpdateRole(h)
  <2>. DEFINE new == [Start(h.id, "update", "clear") EXCEPT
                      !.user = h.user, !.todo = h.todo]
  <2>1. new \in Handler /\ new.id = h.id /\ new.op = "update"
    BY <1>0 DEF Handler, Start, Roles
  <2>. QED BY <1>8, <2>1 DEF UpdateRole, Become
<1>9. CASE ClearMember(h)
  <2>1. h.todo \in SUBSET Grant /\ h.op \in {"update", "remove"}
    BY <1>0, <1>9 DEF Handler, ClearMember
  <2>2. CASE GrantAll(h, h.todo) /\ h.op = "update"
    BY <1>9, <2>1, <2>2, GrantAllOK
  <2>3. CASE Goto(h, "drop") /\ h.op = "remove"
    BY <1>9, <2>1, <2>3, GotoOK
  <2>. QED BY <1>9, <2>1, <2>2, <2>3 DEF ClearMember
<1>10. CASE InsertCollection(h)
  <2>1. PICK c \in Collection : GrantAll(h, {[user |-> h.user, col |-> c]})
    BY <1>10 DEF InsertCollection
  <2>2. {[user |-> h.user, col |-> c]} \in SUBSET Grant
    BY <1>10 DEF InsertCollection, Grant, TypeInv, HandlersOK
  <2>3. h.pc = "collection"
    BY <1>10 DEF InsertCollection
  <2>. QED BY <2>1, <2>2, <2>3, GrantAllOK
<1>11. CASE SetGrant(h)
  <2>1. PICK g \in h.todo : GrantAll(h, h.todo \ {g})
    BY <1>11 DEF SetGrant
  <2>2. h.todo \ {g} \in SUBSET Grant
    BY <1>0 DEF Handler
  <2>3. h.pc = "grant"
    BY <1>11 DEF SetGrant
  <2>. QED BY <2>1, <2>2, <2>3, GrantAllOK
<1>12. CASE ClearCollection(h)
  <2>1. h.todo \in SUBSET Grant /\ h.op \in {"delete_collection", "set_users"}
    BY <1>0, <1>12 DEF Handler, ClearCollection
  <2>2. CASE GrantAll(h, h.todo) /\ h.op = "set_users"
    BY <1>12, <2>1, <2>2, GrantAllOK
  <2>3. CASE Goto(h, "drop")
    BY <1>12, <2>1, <2>3, GotoOK
  <2>. QED BY <1>12, <2>2, <2>3 DEF ClearCollection
<1>13. CASE ClearOrg(h)
  <2>1. Goto(h, "collections") /\ h.op = "delete_org"
    BY <1>13 DEF ClearOrg
  <2>. QED BY <1>13, <2>1, GotoOK
<1>14. CASE DropCollections(h)
  <2>1. Goto(h, "members") /\ h.op = "delete_org" /\ h.pc = "collections"
    BY <1>14 DEF DropCollections
  <2>. QED BY <1>14, <2>1, GotoOK
<1>15. CASE DropMembers(h)
  <2>1. Goto(h, "drop") /\ h.op = "delete_org" /\ h.pc = "members"
    BY <1>15 DEF DropMembers
  <2>. QED BY <1>15, <2>1, GotoOK
<1>16. CASE ClearUser(h)
  <2>1. Goto(h, "members") /\ h.op = "delete_account"
    BY <1>16 DEF ClearUser
  <2>. QED BY <1>16, <2>1, GotoOK
<1>17. CASE DropMemberships(h)
  <2>1. Goto(h, "drop") /\ h.op = "delete_account" /\ h.pc = "members"
    BY <1>17 DEF DropMemberships
  <2>. QED BY <1>17, <2>1, GotoOK
<1>. QED BY <1>1, <1>2, <1>3, <1>4, <1>5, <1>6, <1>7, <1>8, <1>9, <1>10, <1>11,
            <1>12, <1>13, <1>14, <1>15, <1>16, <1>17 DEF Step

\* A handler that updates has checked the roles; one that removes works on a row
\* of the user it remembers; either has counted owners if it takes one away.
KnowsOne(h) ==
  /\ h.op = "update" /\ h.pc \in {"count", "write"} => MayUpdate(h.mine, h.was, h.role)
  /\ h.op = "update" /\ h.pc = "write" /\ h.was = "owner" /\ h.role # "owner"
       => h.owners > 1
  /\ h.op = "remove" /\ h.pc \in {"clear", "drop"} /\ h.was = "owner" => h.owners > 1
  /\ h.op = "remove" /\ h.pc \in {"count", "clear", "drop"} /\ h.was = "owner"
       => h.mine = "owner"
  /\ h.op = "remove" /\ h.pc \in {"count", "clear", "drop"} =>
       /\ h.member \in given
       /\ \A m \in members : m.uuid = h.member => m.user = h.user

Knows == \A h \in running : KnowsOne(h)

LEMMA KnowsInit == Init => Knows
BY DEF Init, Knows

LEMMA KnowsStep == ASSUME TypeInv, Knows, [Next]_vars PROVE Knows'
<1>1. ASSUME NEW h \in running PROVE KnowsOne(h)'
  BY <1>1, MembersFrom DEF Knows, KnowsOne
<1>2. CASE UNCHANGED vars
  BY <1>1, <1>2 DEF vars, Knows
<1>3. ASSUME NEW r \in Request \ Busy, Begin(r) PROVE Knows'
  BY <1>1, <1>3, BeginType DEF Knows, KnowsOne
<1>4. ASSUME NEW h \in running, Step(h) PROVE Knows'
  <2>0. h \in Handler
    BY DEF TypeInv, TypeOK
  <2>1. CASE UpdateFind(h)
    <3>1. PICK m \in members :
            /\ MayUpdate(h.mine, m.role, h.role)
            /\ Become(h, [h EXCEPT !.member = m.uuid, !.was = m.role,
                       !.pc = IF m.role = "owner" /\ h.role # "owner"
                              THEN "count" ELSE "write"])
      BY <2>1 DEF UpdateFind
    <3>. DEFINE new == [h EXCEPT !.member = m.uuid, !.was = m.role,
                       !.pc = IF m.role = "owner" /\ h.role # "owner"
                              THEN "count" ELSE "write"]
    <3>2. /\ new.op = "update" /\ new.mine = h.mine /\ new.was = m.role
          /\ new.role = h.role
          /\ new.pc = IF m.role = "owner" /\ h.role # "owner" THEN "count" ELSE "write"
      BY <2>0, <2>1 DEF Handler, UpdateFind
    <3>3. KnowsOne(new)'
      BY <3>1, <3>2 DEF KnowsOne
    <3>. QED BY <1>1, <3>1, <3>3 DEF Knows, Become
  <2>2. CASE RemoveFind(h)
    <3>1. PICK m \in members :
            /\ UNCHANGED <<members, given>>
            /\ m.role = "owner" => h.mine = "owner"
            /\ Become(h, [h EXCEPT !.member = m.uuid, !.user = m.user, !.was = m.role,
                       !.pc = IF m.role = "owner" THEN "count" ELSE "clear"])
      BY <2>2 DEF RemoveFind
    <3>. DEFINE new == [h EXCEPT !.member = m.uuid, !.user = m.user, !.was = m.role,
                       !.pc = IF m.role = "owner" THEN "count" ELSE "clear"]
    <3>2. /\ new.op = "remove" /\ new.member = m.uuid /\ new.user = m.user
          /\ new.was = m.role /\ new.mine = h.mine
          /\ new.pc = IF m.role = "owner" THEN "count" ELSE "clear"
      BY <2>0, <2>2 DEF Handler, RemoveFind
    <3>3. m.uuid \in given /\ \A n \in members : n.uuid = m.uuid => n = m
      BY DEF TypeInv, TypeOK
    <3>4. KnowsOne(new)'
      BY <3>1, <3>2, <3>3 DEF KnowsOne
    <3>. QED BY <1>1, <3>1, <3>4 DEF Knows, Become
  <2>3. CASE CountOwners(h)
    <3>1. PICK n : n = Cardinality(Owners)
      OBVIOUS
    <3>. DEFINE new == [h EXCEPT !.owners = n,
                       !.pc = IF h.op = "update" THEN "write" ELSE "clear"]
    <3>2. /\ running' = (running \ {h}) \cup {new}
          /\ UNCHANGED <<members, given>>
          /\ h.pc = "count" /\ n > 1
      BY <2>3, <3>1 DEF CountOwners, Become
    <3>3. /\ new.op = h.op /\ new.mine = h.mine /\ new.was = h.was /\ new.role = h.role
          /\ new.user = h.user /\ new.member = h.member /\ new.owners = n
          /\ new.pc = IF h.op = "update" THEN "write" ELSE "clear"
      BY <2>0, <2>3 DEF Handler
    <3>. HIDE DEF new
    <3>4. KnowsOne(new)'
      BY <3>2, <3>3 DEF Knows, KnowsOne
    <3>. QED BY <1>1, <3>2, <3>4 DEF Knows
  <2>4. CASE UpdateRole(h)
    <3>. DEFINE new == [Start(h.id, "update", "clear") EXCEPT
                      !.user = h.user, !.todo = h.todo]
    <3>1. running' = (running \ {h}) \cup {new} /\ new.op = "update" /\ new.pc = "clear"
      BY <2>4 DEF UpdateRole, Become, Start
    <3>. QED BY <1>1, <3>1 DEF Knows, KnowsOne
  <2>5. CASE ClearMember(h)
    <3>1. CASE h.op = "update"
      <4>1. h.todo \in SUBSET Grant /\ GrantAll(h, h.todo)
        BY <2>0, <2>5, <3>1 DEF Handler, ClearMember
      <4>. QED BY <1>1, <4>1, GrantAllOK DEF Knows, KnowsOne
    <3>2. CASE h.op = "remove"
      <4>1. PICK new \in Handler :
              /\ running' = (running \ {h}) \cup {new}
              /\ new.pc = "drop" /\ new.op = h.op /\ new.user = h.user
              /\ new.member = h.member /\ new.was = h.was /\ new.owners = h.owners
              /\ new.mine = h.mine
        <5>1. Goto(h, "drop")
          BY <2>5, <3>2 DEF ClearMember
        <5>. QED BY <5>1, GotoOK
      <4>2. KnowsOne(new)'
        BY <1>1, <2>5, <3>2, <4>1 DEF KnowsOne, ClearMember
      <4>. QED BY <1>1, <4>1, <4>2 DEF Knows
    <3>. QED BY <2>5, <3>1, <3>2 DEF ClearMember
  <2>. QED BY <1>1, <1>4, <2>1, <2>2, <2>3, <2>4, <2>5, StepShape
           DEF Successor, Knows, KnowsOne
<1>. QED BY <1>2, <1>3, <1>4 DEF Next

-----------------------------------------------------------------------------
(* Roles and owners. *)

\* Steps that give, take or store a role.
LEMMA RoleSteps ==
  ASSUME TypeInv, [Next]_vars
  PROVE  \/ \E h \in running : UpdateRole(h) \/ SetStatus(h) \/ DropMember(h)
         \/ \E h \in running : DropMembers(h) \/ DropMemberships(h)
         \/ members \subseteq members' /\ \A n \in members' \ members : n.uuid \notin given
<1>1. CASE UNCHANGED vars
  BY <1>1 DEF vars
<1>2. ASSUME NEW r \in Request \ Busy, Begin(r) PROVE UNCHANGED members
  BY <1>2, BeginType
<1>3. ASSUME NEW h \in running, Step(h)
      PROVE  \/ UpdateRole(h) \/ SetStatus(h) \/ DropMember(h)
             \/ DropMembers(h) \/ DropMemberships(h)
             \/ members \subseteq members' /\ \A n \in members' \ members : n.uuid \notin given
  <2>1. CASE InsertMember(h)
    <3>1. PICK new \in Row : members' = members \cup {new} /\ new.uuid \notin given
      BY <2>1, InsertMemberRow
    <3>. QED BY <3>1
  <2>2. CASE ~(\/ UpdateRole(h) \/ SetStatus(h) \/ DropMember(h)
               \/ DropMembers(h) \/ DropMemberships(h) \/ InsertMember(h))
    <3>1. UNCHANGED members
      BY <1>3, <2>2 DEF Step, InviteFind, ConfirmFind, UpdateFind, RemoveFind,
         CountOwners, ClearMember, InsertCollection, SetGrant, ClearCollection,
         DropCollection, ClearOrg, DropCollections, DropOrg, ClearUser, DropUser, Abandon
    <3>. QED BY <3>1
  <2>. QED BY <2>1, <2>2
<1>. QED BY <1>1, <1>2, <1>3 DEF Next

LEMMA UpdaterActs ==
  ASSUME NEW h \in running, UpdateRole(h) PROVE h \in Acting /\ h.op = "update"
BY DEF UpdateRole, Become, Start, Acting

\* A role changes where a handler of update_member writes it.
LEMMA RoleWriter ==
  ASSUME TypeInv, [Next]_vars,
         NEW m \in members, NEW n \in members', m.uuid = n.uuid, m.role # n.role
  PROVE  \E h \in Acting : /\ h \in running /\ UpdateRole(h)
                            /\ m.uuid = h.member /\ n.role = h.role
<1>1. ASSUME NEW h \in running, UpdateRole(h)
      PROVE  m.uuid = h.member /\ n.role = h.role
  <2>1. PICK x \in members :
          /\ n = IF x.uuid = h.member THEN [x EXCEPT !.role = h.role] ELSE x
          /\ n.uuid = x.uuid
    BY <1>1, UpdateRoleRows
  <2>2. x = m /\ m \in Row
    BY <2>1 DEF TypeInv, TypeOK
  <2>. QED BY <2>1, <2>2 DEF Row
<1>2. ASSUME NEW h \in running, SetStatus(h) PROVE FALSE
  <2>1. PICK x \in members : n.uuid = x.uuid /\ n.role = x.role
    BY <1>2, SetStatusRows
  <2>. QED BY <2>1 DEF TypeInv, TypeOK
<1>3. ASSUME NEW h \in running, DropMember(h) \/ DropMembers(h) \/ DropMemberships(h)
      PROVE  FALSE
  BY <1>3 DEF DropMember, DropMembers, DropMemberships, TypeInv, TypeOK
<1>4. CASE members \subseteq members' /\ \A x \in members' \ members : x.uuid \notin given
  BY <1>4 DEF TypeInv, TypeOK
<1>. QED BY <1>1, <1>2, <1>3, <1>4, RoleSteps, UpdaterActs

LEMMA PrivilegeStep ==
  ASSUME TypeInv, Knows, [Next]_vars,
         NEW m \in members, NEW n \in members', m.uuid = n.uuid, m.role # n.role,
         {m.role, n.role} \cap Privileged # {}
  PROVE  \E h \in Acting : h.op = "update" /\ ByOwner(h, m)
<1>1. PICK h \in Acting : /\ h \in running /\ UpdateRole(h)
                           /\ m.uuid = h.member /\ n.role = h.role
  BY RoleWriter
<1>2. h.op = "update" /\ h.pc = "write"
  BY <1>1 DEF UpdateRole
<1>3. MayUpdate(h.mine, h.was, h.role)
  BY <1>1, <1>2 DEF Knows, KnowsOne
<1>. QED BY <1>1, <1>2, <1>3 DEF MayUpdate, ByOwner

\* An owner's membership that is gone was removed by a handler that had checked
\* the roles, or went with its account or the organization.
LEMMA RemovalStep ==
  ASSUME TypeInv, Knows, [Next]_vars,
         NEW m \in members, m.role = "owner", \A n \in members' : n.uuid # m.uuid
  PROVE  \E h \in Acting : \/ h.op \in {"delete_account", "delete_org"}
                           \/ /\ h.op = "remove" /\ DropMember(h) /\ m.uuid = h.member
                              /\ ByOwner(h, m)
<1>1. ASSUME NEW h \in running, UpdateRole(h) PROVE FALSE
  BY <1>1, UpdateRoleRows
<1>2. ASSUME NEW h \in running, SetStatus(h) PROVE FALSE
  BY <1>2, SetStatusRows
<1>3. ASSUME NEW h \in running, DropMember(h)
      PROVE  /\ h \in Acting /\ h.op = "remove" /\ m.uuid = h.member
             /\ ByOwner(h, m)
  <2>1. h \in Acting /\ h.op = "remove" /\ h.pc = "drop" /\ m.uuid = h.member
    BY <1>3 DEF DropMember, End, Acting
  <2>2. h.was = "owner" => h.mine = "owner"
    BY <2>1 DEF Knows, KnowsOne
  <2>. QED BY <2>1, <2>2 DEF ByOwner
<1>4. ASSUME NEW h \in running, DropMembers(h) \/ DropMemberships(h)
      PROVE  h \in Acting /\ h.op \in {"delete_account", "delete_org"}
  <2>1. Goto(h, "drop") /\ h.pc = "members"
    BY <1>4 DEF DropMembers, DropMemberships
  <2>2. h \notin running'
    BY <2>1, GotoOK
  <2>. QED BY <1>4, <2>2 DEF DropMembers, DropMemberships, Acting
<1>. QED BY <1>1, <1>2, <1>3, <1>4, RoleSteps

\* The memberships of owners and admins change their role, and those of users
\* become theirs, only through an owner, and an owner is removed only by an owner
\* or with its account or the organization, unless the handler had read the
\* membership with another role, however many handlers work on it.
THEOREM Privileges == Spec => PrivilegesByOwners
<1>1. TypeInv /\ Knows /\ [Next]_vars =>
        [\A m \in members :
           /\ \A n \in members' :
                /\ m.uuid = n.uuid /\ m.role # n.role
                /\ {m.role, n.role} \cap Privileged # {}
                => \E h \in Acting : h.op = "update" /\ ByOwner(h, m)
           /\ m.role = "owner" /\ (\A n \in members' : n.uuid # m.uuid)
                => \E h \in Acting : \/ h.op \in {"delete_account", "delete_org"}
                                     \/ h.op = "remove" /\ ByOwner(h, m)]_vars
  BY PrivilegeStep, RemovalStep
<1>2. Spec => []Knows
  BY KnowsInit, KnowsStep, TypeInvariant, PTL DEF Spec
<1>. QED BY <1>1, <1>2, TypeInvariant, PTL DEF Spec, PrivilegesByOwners

\* If owners are lost by what is done to one membership, it was the only one.
LEMMA LastOwner ==
  ASSUME TypeInv, NEW id, Owners # {}, \A m \in Owners : m.uuid = id
  PROVE  Cardinality(Owners) = 1
<1>1. PICK m : Owners = {m}
  BY DEF Owners, TypeInv, TypeOK
<1>. QED BY <1>1, FS_Singleton

\* An update that leaves no owner writes another role to all there are.
LEMMA UnmakesOwners ==
  ASSUME TypeInv, NEW h \in running, UpdateRole(h), Owners' = {}
  PROVE  \A m \in Owners : m.uuid = h.member /\ h.role # "owner"
<1>1. TAKE m \in Owners
<1>2. PICK n \in members' :
        /\ n = IF m.uuid = h.member THEN [m EXCEPT !.role = h.role] ELSE m
        /\ n.confirmed = m.confirmed
  BY UpdateRoleRows DEF Owners
<1>3. m \in Row /\ m.role = "owner" /\ m.confirmed
  BY DEF Owners, TypeInv, TypeOK
<1>4. n.role # "owner"
  BY <1>2, <1>3 DEF Owners
<1>. QED BY <1>2, <1>3, <1>4 DEF Row

LEMMA OwnerLossStep ==
  ASSUME TypeInv, Knows, [Next]_vars, Owners # {}, Owners' = {}
  PROVE  \E h \in Acting :
           \/ h.op \in {"delete_account", "delete_org", "accept"}
           \/ /\ h.op \in {"update", "remove"}
              /\ h.was = "owner" => h.owners > Cardinality(Owners)
<1>1. ASSUME NEW h \in running, UpdateRole(h)
      PROVE  /\ h \in Acting /\ h.op = "update"
             /\ h.was = "owner" => h.owners > Cardinality(Owners)
  <2>1. \A m \in Owners : m.uuid = h.member /\ h.role # "owner"
    BY <1>1, UnmakesOwners
  <2>2. Cardinality(Owners) = 1
    BY <2>1, LastOwner
  <2>3. h.was = "owner" => h.owners > 1
    BY <1>1, <2>1 DEF Knows, KnowsOne, UpdateRole
  <2>. QED BY <1>1, <2>2, <2>3, UpdaterActs
<1>2. ASSUME NEW h \in running, DropMember(h)
      PROVE  /\ h \in Acting /\ h.op = "remove"
             /\ h.was = "owner" => h.owners > Cardinality(Owners)
  <2>1. \A m \in Owners : m.uuid = h.member
    BY <1>2 DEF DropMember, Owners
  <2>2. Cardinality(Owners) = 1
    BY <2>1, LastOwner
  <2>3. h.was = "owner" => h.owners > 1
    BY <1>2 DEF Knows, KnowsOne, DropMember
  <2>. QED BY <1>2, <2>2, <2>3 DEF DropMember, End, Acting
<1>3. ASSUME NEW h \in running, SetStatus(h) PROVE h \in Acting /\ h.op = "accept"
  <2>1. PICK m \in Owners : TRUE
    OBVIOUS
  <2>2. PICK n \in members' : n.role = "owner" /\ (h.op = "confirm" => n.confirmed)
    BY <1>3, <2>1, SetStatusRows DEF Owners
  <2>. QED BY <1>3, <2>2 DEF SetStatus, End, Acting, Owners
<1>4. ASSUME NEW h \in running, DropMembers(h) \/ DropMemberships(h)
      PROVE  h \in Acting /\ h.op \in {"delete_account", "delete_org"}
  <2>1. h \in Handler
    BY DEF TypeInv, TypeOK
  <2>2. Goto(h, "drop") /\ h.pc = "members"
    BY <1>4 DEF DropMembers, DropMemberships
  <2>3. h \notin running'
    BY <2>2, GotoOK
  <2>. QED BY <1>4, <2>3 DEF DropMembers, DropMemberships, Acting
<1>5. ~ members \subseteq members'
  BY DEF Owners
<1>. QED BY <1>1, <1>2, <1>3, <1>4, <1>5, RoleSteps

\* An organization loses its last owner only in the ways that are named: with
\* any number of demotions and removals at a time, one of them counted an owner
\* more than there is, or acted on a membership that was not an owner's yet.
THEOREM OwnerLoss == Spec => OwnerLossExplained
<1>1. TypeInv /\ Knows /\ [Next]_vars =>
        [Owners # {} /\ Owners' = {} =>
           \E h \in Acting :
             \/ h.op \in {"delete_account", "delete_org", "accept"}
             \/ /\ h.op \in {"update", "remove"}
                /\ h.was = "owner" => h.owners > Cardinality(Owners)]_vars
  BY OwnerLossStep
<1>2. Spec => []Knows
  BY KnowsInit, KnowsStep, TypeInvariant, PTL DEF Spec
<1>. QED BY <1>1, <1>2, TypeInvariant, PTL DEF Spec, OwnerLossExplained

-----------------------------------------------------------------------------
(* What deletions leave behind. *)

\* Who is being deleted after a step.
LEMMA GoingAfter ==
  ASSUME TypeInv, NEW h \in running, Step(h)
  PROVE  /\ \A u : Leaving(u)' => \/ Leaving(u)
                                  \/ u = h.user /\ ClearMember(h) /\ h.op = "remove"
                                  \/ u = h.user /\ ClearUser(h)
         /\ \A c : Closing(c)' => \/ Closing(c)
                                  \/ /\ c = h.col /\ ClearCollection(h)
                                     /\ h.op = "delete_collection"
         /\ Dissolving' => Dissolving \/ ClearOrg(h)
<1>1. CASE running' = running \ {h}
  <2>1. org' # org => DropOrg(h)
    BY DEF Step, InviteFind, InsertMember, ConfirmFind, SetStatus, UpdateFind, RemoveFind,
       CountOwners, UpdateRole, ClearMember, DropMember, InsertCollection, SetGrant,
       ClearCollection, DropCollection, ClearOrg, DropCollections, DropMembers, ClearUser,
       DropMemberships, DropUser, Abandon
  <2>2. Dissolving' => Dissolving
    BY <1>1, <2>1 DEF Dissolving, DropOrg
  <2>3. \A u : Leaving(u)' => Leaving(u)
    BY <1>1 DEF Leaving
  <2>4. \A c : Closing(c)' => Closing(c)
    BY <1>1 DEF Closing
  <2>. QED BY <2>2, <2>3, <2>4
<1>2. ASSUME NEW new \in Handler, Successor(h, new)
      PROVE  /\ \A u : Leaving(u)' => \/ Leaving(u)
                                      \/ u = h.user /\ ClearMember(h) /\ h.op = "remove"
                                      \/ u = h.user /\ ClearUser(h)
             /\ \A c : Closing(c)' => \/ Closing(c)
                                      \/ /\ c = h.col /\ ClearCollection(h)
                                         /\ h.op = "delete_collection"
             /\ Dissolving' => Dissolving \/ ClearOrg(h)
  <2>1. /\ running' = (running \ {h}) \cup {new} /\ new.op = h.op
        /\ new.op \in {"remove", "delete_account"} /\ new.pc \in {"members", "drop"}
             => new.user = h.user /\ (h.pc = "members" \/ ClearMember(h) \/ ClearUser(h))
        /\ new.op = "delete_collection" /\ new.pc = "drop"
             => new.col = h.col /\ ClearCollection(h)
        /\ new.op = "delete_org" /\ new.pc # "clear" => ClearOrg(h) \/ h.pc # "clear"
    BY <1>2 DEF Successor
  <2>2. ASSUME NEW u, Leaving(u)'
        PROVE  \/ Leaving(u)
               \/ u = h.user /\ ClearMember(h) /\ h.op = "remove"
               \/ u = h.user /\ ClearUser(h)
    <3>1. PICK g \in running' : /\ g.op \in {"remove", "delete_account"}
                               /\ g.user = u /\ g.pc \in {"members", "drop"}
      BY <2>2 DEF Leaving
    <3>2. CASE g \in running
      BY <3>1, <3>2 DEF Leaving
    <3>3. CASE g = new
      <4>1. ClearMember(h) => h.op \in {"update", "remove"}
        BY DEF ClearMember
      <4>. QED BY <2>1, <3>1, <3>3, <4>1 DEF Leaving
    <3>. QED BY <2>1, <3>2, <3>3
  <2>3. \A c : Closing(c)' => \/ Closing(c)
                             \/ /\ c = h.col /\ ClearCollection(h)
                                /\ h.op = "delete_collection"
    BY <2>1 DEF Closing
  <2>4. org' # org => DropOrg(h)
    BY DEF Step, InviteFind, InsertMember, ConfirmFind, SetStatus, UpdateFind, RemoveFind,
       CountOwners, UpdateRole, ClearMember, DropMember, InsertCollection, SetGrant,
       ClearCollection, DropCollection, ClearOrg, DropCollections, DropMembers, ClearUser,
       DropMemberships, DropUser, Abandon
  <2>5. Dissolving' => Dissolving \/ ClearOrg(h)
    BY <2>1, <2>4 DEF Dissolving, DropOrg
  <2>. QED BY <2>2, <2>3, <2>5
<1>. QED BY <1>1, <1>2, StepShape

\* The same for handlers that begin.
LEMMA GoingAtBegin ==
  ASSUME TypeInv, NEW r \in Request \ Busy, Begin(r)
  PROVE  /\ \A u : Leaving(u)' => Leaving(u)
         /\ \A c : Closing(c)' => Closing(c)
         /\ Dissolving' => Dissolving
<1>1. PICK new \in Handler :
        /\ running' = running \cup {new}
        /\ new.pc \notin {"members", "drop"}
        /\ new.op = "delete_org" => new.pc = "clear"
  BY BeginType
<1>2. org' # "deleted" \/ org = "deleted"
  BY DEF Begin, PostOrganization, BeginAsAdmin, BeginAccept, BeginDeleteAccount
<1>. QED BY <1>1, <1>2 DEF Leaving, Closing, Dissolving

\* Where grants after a step come from.
LEMMA GrantsFrom ==
  ASSUME TypeInv, NEW h \in running, Step(h), NEW g \in grants' \ late'
  PROVE  \/ g \in grants \ late
         \/ /\ SetGrant(h) /\ UNCHANGED <<org, members, collections>>
            /\ ~(\/ ~Has(g.user) \/ Leaving(g.user) \/ Dissolving
                 \/ g.col \notin collections \/ Closing(g.col))
<1>1. CASE SetGrant(h)
  BY <1>1 DEF SetGrant
<1>2. CASE ~SetGrant(h)
  BY <1>2 DEF Step, InviteFind, InsertMember, ConfirmFind, SetStatus, UpdateFind,
     RemoveFind, CountOwners, UpdateRole, ClearMember, DropMember, InsertCollection,
     ClearCollection, DropCollection, ClearOrg, DropCollections, DropMembers, DropOrg,
     ClearUser, DropMemberships, DropUser, Abandon
<1>. QED BY <1>1, <1>2

\* A grant that was inserted in time hangs on rows that nobody is deleting.
GrantsFine ==
  \A g \in grants \ late :
    /\ g.col \in collections /\ ~Closing(g.col)
    /\ Has(g.user) /\ ~Leaving(g.user)
    /\ ~Dissolving

LEMMA GrantsStep == ASSUME TypeInv, Knows, GrantsFine, [Next]_vars PROVE GrantsFine'
<1>1. CASE UNCHANGED vars
  BY <1>1 DEF vars, GrantsFine, Closing, Has, Leaving, Dissolving
<1>2. ASSUME NEW r \in Request \ Busy, Begin(r) PROVE GrantsFine'
  <2>1. UNCHANGED <<members, collections, grants, late>>
    BY <1>2, BeginType
  <2>. QED BY <1>2, <2>1, GoingAtBegin DEF GrantsFine, Has
<1>3. ASSUME NEW h \in running, Step(h) PROVE GrantsFine'
  <2>1. SUFFICES ASSUME NEW g \in grants' \ late'
                 PROVE  /\ g.col \in collections' /\ ~Closing(g.col)'
                        /\ Has(g.user)' /\ ~Leaving(g.user)'
                        /\ ~Dissolving'
    BY DEF GrantsFine
  <2>2. CASE SetGrant(h) /\ UNCHANGED <<org, members, collections>>
             /\ ~(\/ ~Has(g.user) \/ Leaving(g.user) \/ Dissolving
                  \/ g.col \notin collections \/ Closing(g.col))
    <3>1. h.pc = "grant"
      BY <2>2 DEF SetGrant
    <3>2. /\ ~Closing(g.col)' /\ ~Leaving(g.user)' /\ ~Dissolving'
      BY <1>3, <2>2, <3>1, GoingAfter DEF ClearMember, ClearUser, ClearCollection, ClearOrg
    <3>. QED BY <2>2, <3>2 DEF Has
  <2>3. CASE g \in grants \ late
    <3>1. /\ g.col \in collections /\ ~Closing(g.col)
          /\ Has(g.user) /\ ~Leaving(g.user)
          /\ ~Dissolving
      BY <2>3 DEF GrantsFine
    <3>2. g.col \in collections'
      BY <1>3, <3>1 DEF Step, InviteFind, InsertMember, ConfirmFind, SetStatus, UpdateFind,
         RemoveFind, CountOwners, UpdateRole, ClearMember, DropMember, InsertCollection,
         SetGrant, ClearCollection, DropCollection, ClearOrg, DropCollections, DropMembers,
         DropOrg, ClearUser, DropMemberships, DropUser, Abandon, Closing, Dissolving
    <3>3. Has(g.user)'
      <4>1. PICK m \in members : m.user = g.user
        BY <3>1 DEF Has
      <4>2. CASE UpdateRole(h) \/ SetStatus(h)
        BY <4>1, <4>2, UpdateRoleRows, SetStatusRows DEF Has
      <4>3. CASE DropMember(h)
        <5>1. h.op = "remove" /\ h.pc = "drop"
          BY <4>3 DEF DropMember
        <5>2. h.user # g.user
          BY <3>1, <5>1 DEF Leaving
        <5>3. m.uuid # h.member
          BY <4>1, <5>1, <5>2 DEF Knows, KnowsOne
        <5>. QED BY <4>1, <4>3, <5>3 DEF DropMember, Has
      <4>4. CASE DropMembers(h)
        BY <3>1, <4>4 DEF DropMembers, Dissolving
      <4>5. CASE DropMemberships(h)
        BY <3>1, <4>1, <4>5 DEF DropMemberships, Leaving, Has
      <4>6. CASE members \subseteq members'
        BY <4>1, <4>6 DEF Has
      <4>7. \/ UpdateRole(h) \/ SetStatus(h) \/ DropMember(h) \/ DropMembers(h)
            \/ DropMemberships(h) \/ members \subseteq members'
        BY <1>3 DEF Step, InviteFind, InsertMember, ConfirmFind, UpdateFind, RemoveFind,
           CountOwners, ClearMember, InsertCollection, SetGrant, ClearCollection,
           DropCollection, ClearOrg, DropCollections, DropOrg, ClearUser, DropUser, Abandon
      <4>. QED BY <4>2, <4>3, <4>4, <4>5, <4>6, <4>7
    <3>4. ~Closing(g.col)'
      BY <1>3, <2>3, <3>1, GoingAfter DEF ClearCollection
    <3>5. ~Leaving(g.user)'
      BY <1>3, <2>3, <3>1, GoingAfter DEF ClearMember, ClearUser, GrantsIn
    <3>6. ~Dissolving'
      BY <1>3, <2>3, <3>1, GoingAfter DEF ClearOrg
    <3>. QED BY <3>2, <3>3, <3>4, <3>5, <3>6
  <2>. QED BY <1>3, <2>2, <2>3, GrantsFrom
<1>. QED BY <1>1, <1>2, <1>3 DEF Next

\* No deletion of a member, collection, account or organization leaves a grant
\* behind but those inserted while it went on, with any number at a time.
THEOREM GrantsHangTogether == Spec => []GrantsHang
<1>1. Init => GrantsFine
  BY DEF Init, GrantsFine
<1>2. Spec => []Knows
  BY KnowsInit, KnowsStep, TypeInvariant, PTL DEF Spec
<1>3. Spec => []GrantsFine
  BY <1>1, <1>2, GrantsStep, TypeInvariant, PTL DEF Spec
<1>4. GrantsFine => GrantsHang
  BY DEF GrantsFine, GrantsHang
<1>. QED BY <1>3, <1>4, PTL

\* How far deletions of the organization have come, and what they left.
Closed == \/ org = "deleted"
          \/ \E h \in running : h.op = "delete_org" /\ h.pc \in {"members", "drop"}
Deserted == \/ org = "deleted"
            \/ \E h \in running : h.op = "delete_org" /\ h.pc = "drop"
Emptied ==
  /\ Closed => collections \subseteq late
  /\ Deserted => \A m \in members : m.uuid \in late

\* What is in `late` stays there, unless it is a grant.
LEMMA LateKept ==
  ASSUME TypeInv, [Next]_vars, NEW x \in (Member \cup Collection) \cap late
  PROVE  x \in late'
<1>0. x \notin Grant /\ grants \subseteq Grant
  BY LateAssumption DEF TypeInv, TypeOK
<1>1. CASE UNCHANGED vars
  BY <1>1 DEF vars
<1>2. ASSUME NEW r \in Request \ Busy, Begin(r) PROVE x \in late'
  BY <1>2, BeginType
<1>3. ASSUME NEW h \in running, Step(h) PROVE x \in late'
  BY <1>0, <1>3 DEF Step, InviteFind, InsertMember, ConfirmFind, SetStatus, UpdateFind,
     RemoveFind, CountOwners, UpdateRole, ClearMember, DropMember, InsertCollection,
     SetGrant, ClearCollection, DropCollection, ClearOrg, DropCollections, DropMembers,
     DropOrg, ClearUser, DropMemberships, DropUser, Abandon, GrantsIn
<1>. QED BY <1>1, <1>2, <1>3 DEF Next

LEMMA ClosedAfter ==
  ASSUME TypeInv, NEW h \in running, Step(h)
  PROVE  /\ Closed' => Closed \/ DropCollections(h)
         /\ Deserted' => Deserted \/ DropMembers(h)
<1>1. org' # org => DropOrg(h) /\ Closed /\ Deserted
  BY DEF Step, InviteFind, InsertMember, ConfirmFind, SetStatus, UpdateFind, RemoveFind,
     CountOwners, UpdateRole, ClearMember, DropMember, InsertCollection, SetGrant,
     ClearCollection, DropCollection, ClearOrg, DropCollections, DropMembers, ClearUser,
     DropMemberships, DropUser, Abandon, DropOrg, Closed, Deserted
<1>2. CASE running' = running \ {h}
  BY <1>1, <1>2 DEF Closed, Deserted
<1>3. ASSUME NEW new \in Handler, Successor(h, new)
      PROVE  /\ Closed' => Closed \/ DropCollections(h)
             /\ Deserted' => Deserted \/ DropMembers(h)
  <2>1. /\ running' = (running \ {h}) \cup {new}
        /\ new.op = "delete_org" /\ new.pc = "members" => DropCollections(h)
        /\ new.op = "delete_org" /\ new.pc = "drop" => DropMembers(h)
    BY <1>3 DEF Successor
  <2>2. DropMembers(h) => Closed
    BY DEF DropMembers, Closed
  <2>. QED BY <1>1, <2>1, <2>2 DEF Closed, Deserted
<1>. QED BY <1>2, <1>3, StepShape

LEMMA EmptiedStep == ASSUME TypeInv, Emptied, [Next]_vars PROVE Emptied'
<1>1. CASE UNCHANGED vars
  BY <1>1 DEF vars, Emptied, Closed, Deserted
<1>2. ASSUME NEW r \in Request \ Busy, Begin(r) PROVE Emptied'
  <2>1. PICK new \in Handler :
          /\ running' = running \cup {new}
          /\ new.pc \notin {"members", "drop"}
    BY <1>2, BeginType
  <2>2. org' # "deleted" \/ org = "deleted"
    BY <1>2 DEF Begin, PostOrganization, BeginAsAdmin, BeginAccept, BeginDeleteAccount
  <2>3. UNCHANGED <<members, collections, late>>
    BY <1>2, BeginType
  <2>. QED BY <2>1, <2>2, <2>3 DEF Emptied, Closed, Deserted
<1>3. ASSUME NEW h \in running, Step(h) PROVE Emptied'
  <2>1. ASSUME Closed', NEW c \in collections' PROVE c \in late'
    <3>1. CASE DropCollections(h)
      BY <2>1, <3>1 DEF DropCollections
    <3>2. CASE Closed /\ c \in collections
      <4>1. c \in late /\ c \in Collection
        BY <3>2 DEF Emptied, TypeInv, TypeOK
      <4>. QED BY <4>1, LateKept
    <3>3. CASE Closed /\ c \notin collections
      <4>1. InsertCollection(h)
        BY <1>3, <2>1, <3>3 DEF Step, InviteFind, InsertMember, ConfirmFind, SetStatus,
           UpdateFind, RemoveFind, CountOwners, UpdateRole, ClearMember, DropMember,
           SetGrant, ClearCollection, DropCollection, ClearOrg, DropCollections,
           DropMembers, DropOrg, ClearUser, DropMemberships, DropUser, Abandon
      <4>2. Dissolving
        BY <3>3 DEF Closed, Dissolving
      <4>. QED BY <2>1, <3>3, <4>1, <4>2 DEF InsertCollection
    <3>. QED BY <1>3, <2>1, <3>1, <3>2, <3>3, ClosedAfter
  <2>2. ASSUME Deserted', NEW n \in members' PROVE n.uuid \in late'
    <3>1. CASE DropMembers(h)
      BY <2>2, <3>1 DEF DropMembers
    <3>2. ASSUME Deserted, NEW m \in members, m.uuid = n.uuid PROVE n.uuid \in late'
      <4>1. n.uuid \in late /\ n.uuid \in Member
        BY <3>2 DEF Emptied, TypeInv, TypeOK, Row
      <4>. QED BY <4>1, LateKept
    <3>3. CASE Deserted /\ InsertMember(h)
      <4>1. PICK m \in Member \ given, new \in Row :
              /\ members' = members \cup {new} /\ new.uuid = m
              /\ late' = IF Dissolving \/ h.user \notin accounts
                         THEN late \cup {m} ELSE late
        BY <3>3, InsertMemberRow
      <4>2. Dissolving
        BY <3>3 DEF Deserted, Dissolving
      <4>3. CASE n \in members
        BY <3>2, <3>3, <4>3
      <4>4. CASE n = new
        BY <4>1, <4>2, <4>4
      <4>. QED BY <2>2, <4>1, <4>3, <4>4
    <3>4. CASE Deserted /\ (SetStatus(h) \/ UpdateRole(h))
      BY <2>2, <3>2, <3>4, SetStatusRows, UpdateRoleRows
    <3>5. CASE Deserted /\ members' \subseteq members
      BY <2>2, <3>2, <3>5
    <3>6. \/ InsertMember(h) \/ SetStatus(h) \/ UpdateRole(h)
          \/ members' \subseteq members
      BY <1>3 DEF Step, InviteFind, ConfirmFind, UpdateFind, RemoveFind, CountOwners,
         ClearMember, DropMember, InsertCollection, SetGrant, ClearCollection,
         DropCollection, ClearOrg, DropCollections, DropMembers, DropOrg, ClearUser,
         DropMemberships, DropUser, Abandon
    <3>. QED BY <1>3, <2>2, <3>1, <3>3, <3>4, <3>5, <3>6, ClosedAfter
  <2>. QED BY <2>1, <2>2 DEF Emptied
<1>. QED BY <1>1, <1>2, <1>3 DEF Next

\* Of a deleted organization no membership and no collection is left but those
\* inserted while it was being deleted, by any number of handlers.
THEOREM NothingIsLeft == Spec => []NothingLeft
<1>1. Init => Emptied
  BY DEF Init, Emptied, Closed, Deserted
<1>2. Spec => []Emptied
  BY <1>1, EmptiedStep, TypeInvariant, PTL DEF Spec
<1>3. Emptied => NothingLeft
  BY DEF Emptied, Closed, Deserted, NothingLeft
<1>. QED BY <1>2, <1>3, PTL

-----------------------------------------------------------------------------
(* How many memberships a user can have. *)

Of(u) == {m \in members : m.user = u}

\* Every request runs one handler, and nobody joins before there is an
\* organization.
OneEach ==
  /\ \A g, h \in running : g.id = h.id => g = h
  /\ org = "none" => /\ members = {}
                     /\ \A h \in running : h.op \notin {"create", "invite"}

LEMMA OneEachStep == ASSUME TypeInv, OneEach, [Next]_vars PROVE OneEach'
<1>1. CASE UNCHANGED vars
  BY <1>1 DEF vars, OneEach
<1>2. ASSUME NEW r \in Request \ Busy, Begin(r) PROVE OneEach'
  <2>1. PICK new \in Handler :
          /\ running' = running \cup {new} /\ new.id = r
          /\ new.op = "create" => org' # "none"
          /\ new.op = "invite" => members # {}
    BY <1>2, BeginType
  <2>2. UNCHANGED members /\ (org' = "none" => org = "none")
    BY <1>2, BeginType DEF Begin, PostOrganization, BeginAsAdmin, BeginAccept,
       BeginDeleteAccount
  <2>. QED BY <1>2, <2>1, <2>2 DEF OneEach, Busy
<1>3. ASSUME NEW h \in running, Step(h) PROVE OneEach'
  <2>1. \/ running' = running \ {h}
        \/ \E new \in Handler : /\ running' = (running \ {h}) \cup {new}
                                /\ new.id = h.id /\ new.op = h.op
    BY <1>3, StepShape DEF Successor
  <2>2. org' = "none" => org = "none"
    BY <1>3 DEF Step, InviteFind, InsertMember, ConfirmFind, SetStatus, UpdateFind,
       RemoveFind, CountOwners, UpdateRole, ClearMember, DropMember, InsertCollection,
       SetGrant, ClearCollection, DropCollection, ClearOrg, DropCollections, DropMembers,
       ClearUser, DropMemberships, DropUser, Abandon, DropOrg
  <2>3. ASSUME org' = "none" PROVE members' = {}
    <3>1. members = {} /\ h.op \notin {"create", "invite"}
      BY <2>2, <2>3 DEF OneEach
    <3>. QED BY <1>3, <3>1 DEF Step, InviteFind, InsertMember, ConfirmFind, SetStatus,
       UpdateFind, RemoveFind, CountOwners, UpdateRole, ClearMember, DropMember,
       InsertCollection, SetGrant, ClearCollection, DropCollection, ClearOrg,
       DropCollections, DropMembers, ClearUser, DropMemberships, DropUser, Abandon, DropOrg
  <2>. QED BY <2>1, <2>2, <2>3 DEF OneEach
<1>. QED BY <1>1, <1>2, <1>3 DEF Next

LEMMA HandlersCounted ==
  ASSUME NEW R \in SUBSET Handler, \A g, h \in R : g.id = h.id => g = h,
         NEW S \in SUBSET R
  PROVE  /\ IsFiniteSet(S) /\ Cardinality(S) \in Nat
         /\ Cardinality(S) <= Cardinality(Request)
<1>1. \A h \in S : h.id \in Request
  BY DEF Handler
<1>2. [h \in S |-> h.id] \in Injection(S, Request)
  BY <1>1 DEF Injection, IsInjective
<1>3. IsFiniteSet(S) /\ Cardinality(S) <= Cardinality(Request)
  BY <1>2, FS_Injection, RequestAssumption
<1>. QED BY <1>3, FS_CardinalityType

\* The memberships and coming memberships of a user after a step.
LEMMA JoiningAfter ==
  ASSUME TypeInv, OneEach, [Next]_vars, NEW u \in User
  PROVE  \/ Of(u)' = {}
         \/ /\ Joining(u)' \subseteq Joining(u)
            /\ \/ Of(u)' \subseteq Of(u)
               \/ \E h \in running : SetStatus(h) \/ UpdateRole(h)
         \/ \E h \in Joining(u) : \E new : /\ Joining(u)' \subseteq Joining(u) \ {h}
                                          /\ Of(u)' = Of(u) \cup {new}
<1>1. CASE UNCHANGED vars
  BY <1>1 DEF vars, Joining, Of
<1>2. ASSUME NEW r \in Request \ Busy, Begin(r)
      PROVE  Of(u)' = {} \/ (Joining(u)' \subseteq Joining(u) /\ Of(u)' \subseteq Of(u))
  <2>1. PICK new \in Handler :
          /\ running' = running \cup {new}
          /\ new.op = "invite" => new.pc = "find"
          /\ new.op = "create" => org = "none"
    BY <1>2, BeginType
  <2>2. UNCHANGED members
    BY <1>2, BeginType
  <2>. QED BY <2>1, <2>2 DEF Joining, Of, OneEach
<1>3. ASSUME NEW h \in running, Step(h)
      PROVE  \/ Of(u)' = {}
             \/ /\ Joining(u)' \subseteq Joining(u)
                /\ Of(u)' \subseteq Of(u) \/ SetStatus(h) \/ UpdateRole(h)
             \/ \E new : /\ h \in Joining(u) /\ Joining(u)' \subseteq Joining(u) \ {h}
                         /\ Of(u)' = Of(u) \cup {new}
  <2>1. CASE InviteFind(h)
    <3>1. UNCHANGED members /\ ~Has(h.user)
      BY <2>1 DEF InviteFind
    <3>2. CASE u = h.user
      BY <3>1, <3>2 DEF Has, Of
    <3>3. CASE u # h.user
      <4>1. PICK new \in Handler :
              running' = (running \ {h}) \cup {new} /\ new.user = h.user
        <5>1. Goto(h, "write")
          BY <2>1 DEF InviteFind
        <5>. QED BY <5>1, GotoOK
      <4>. QED BY <3>1, <3>3, <4>1 DEF Joining, Of
    <3>. QED BY <3>2, <3>3
  <2>2. ASSUME ~InviteFind(h)
        PROVE  \/ running' = running \ {h}
               \/ \E new : /\ running' = (running \ {h}) \cup {new}
                           /\ ~(new.op \in {"create", "invite"} /\ new.pc = "write")
    BY <1>3, <2>2, StepShape DEF Successor
  <2>3. ASSUME ~InviteFind(h) PROVE Joining(u)' \subseteq Joining(u) \ {h}
    BY <2>2, <2>3 DEF Joining
  <2>4. CASE InsertMember(h)
    <3>1. ~InviteFind(h) /\ h.op \in {"create", "invite"} /\ h.pc = "write"
      BY <2>4 DEF InviteFind, InsertMember
    <3>2. PICK new : members' = members \cup {new} /\ new.user = h.user
      BY <2>4, InsertMemberRow
    <3>3. CASE u = h.user
      <4>1. h \in Joining(u) /\ Of(u)' = Of(u) \cup {new}
        BY <3>1, <3>2, <3>3 DEF Joining, Of
      <4>. QED BY <2>3, <3>1, <4>1
    <3>4. CASE u # h.user
      BY <2>3, <3>1, <3>2, <3>4 DEF Of
    <3>. QED BY <3>3, <3>4
  <2>5. CASE ~InviteFind(h) /\ ~InsertMember(h)
    <3>1. members' \subseteq members \/ SetStatus(h) \/ UpdateRole(h)
      BY <1>3, <2>5 DEF Step, ConfirmFind, UpdateFind, RemoveFind, CountOwners,
         ClearMember, DropMember, InsertCollection, SetGrant, ClearCollection,
         DropCollection, ClearOrg, DropCollections, DropMembers, DropOrg, ClearUser,
         DropMemberships, DropUser, Abandon
    <3>. QED BY <2>3, <2>5, <3>1 DEF Of
  <2>. QED BY <2>1, <2>4, <2>5
<1>. QED BY <1>1, <1>2, <1>3 DEF Next

\* Storing a status or a role makes no rows.
LEMMA RowsStored ==
  ASSUME TypeInv, NEW h \in running, SetStatus(h) \/ UpdateRole(h), NEW u \in User
  PROVE  Cardinality(Of(u)') <= Cardinality(Of(u))
<1>1. \A n \in members' : \E m \in members : n.uuid = m.uuid /\ n.user = m.user
  BY SetStatusRows, UpdateRoleRows
<1>2. \A x, y \in members' : x.uuid = y.uuid => x = y
  BY SetStatusRows, UpdateRoleRows
<1>. DEFINE f == [n \in Of(u)' |-> CHOOSE m \in Of(u) : m.uuid = n.uuid]
<1>3. \A n \in Of(u)' : f[n] \in Of(u) /\ f[n].uuid = n.uuid
  BY <1>1 DEF Of
<1>4. f \in Injection(Of(u)', Of(u))
  <2>1. f \in [Of(u)' -> Of(u)]
    BY <1>3
  <2>2. Of(u)' \subseteq members'
    BY DEF Of
  <2>3. DOMAIN f = Of(u)'
    OBVIOUS
  <2>. HIDE DEF f
  <2>4. \A x, y \in DOMAIN f : f[x] = f[y] => x = y
    BY <1>2, <1>3, <2>2, <2>3
  <2>. QED BY <2>1, <2>4 DEF Injection, IsInjective
<1>5. IsFiniteSet(Of(u))
  BY FS_Subset DEF TypeInv, Of
<1>. QED BY <1>4, <1>5, FS_Injection

LEMMA BoundStep ==
  ASSUME TypeInv, OneEach, [Next]_vars, NEW u \in User,
         Cardinality(Of(u)) + Cardinality(Joining(u)) <= Cardinality(Request)
  PROVE  Cardinality(Of(u)') + Cardinality(Joining(u)') <= Cardinality(Request)
<1>. DEFINE m == Cardinality(Of(u))  n == Cardinality(Of(u)')
            j == Cardinality(Joining(u))  k == Cardinality(Joining(u)')
            q == Cardinality(Request)
<1>1. TypeInv' /\ OneEach'
  BY TypeStep, OneEachStep
<1>2. IsFiniteSet(Of(u)) /\ IsFiniteSet(Of(u)') /\ m \in Nat /\ n \in Nat
  BY <1>1, FS_Subset, FS_CardinalityType DEF TypeInv, Of
<1>3. /\ IsFiniteSet(Joining(u)) /\ j \in Nat
      /\ IsFiniteSet(Joining(u)') /\ k \in Nat /\ k <= q
  <2>1. /\ running \subseteq Handler /\ running' \subseteq Handler
        /\ \A g, h \in running : g.id = h.id => g = h
        /\ \A g, h \in running' : g.id = h.id => g = h
    BY <1>1 DEF TypeInv, TypeOK, OneEach
  <2>2. Joining(u) \subseteq running /\ Joining(u)' \subseteq running'
    BY DEF Joining
  <2>. QED BY <2>1, <2>2, HandlersCounted
<1>4. q \in Nat
  BY RequestAssumption, FS_CardinalityType
<1>5. CASE Of(u)' = {}
  <2>1. n = 0
    BY <1>5, FS_EmptySet
  <2>. QED BY <1>3, <1>4, <2>1
<1>6. ASSUME Joining(u)' \subseteq Joining(u) PROVE k <= j
  BY <1>3, <1>6, FS_Subset
<1>7. CASE Joining(u)' \subseteq Joining(u) /\ Of(u)' \subseteq Of(u)
  <2>1. n <= m
    BY <1>2, <1>7, FS_Subset
  <2>. QED BY <1>2, <1>3, <1>4, <1>6, <1>7, <2>1
<1>8. ASSUME Joining(u)' \subseteq Joining(u),
             NEW h \in running, SetStatus(h) \/ UpdateRole(h)
      PROVE  n + k <= q
  <2>1. n <= m
    BY <1>8, RowsStored
  <2>. QED BY <1>2, <1>3, <1>4, <1>6, <1>8, <2>1
<1>9. ASSUME NEW h \in Joining(u), NEW new,
             Joining(u)' \subseteq Joining(u) \ {h}, Of(u)' = Of(u) \cup {new}
      PROVE  n + k <= q
  <2>1. n <= m + 1
    BY <1>2, <1>9, FS_AddElement
  <2>2. Cardinality(Joining(u) \ {h}) = j - 1 /\ IsFiniteSet(Joining(u) \ {h})
    BY <1>3, FS_RemoveElement
  <2>3. k <= j - 1
    BY <1>9, <2>2, FS_Subset
  <2>. QED BY <1>2, <1>3, <1>4, <2>1, <2>3
<1>. QED BY <1>5, <1>7, <1>8, <1>9, JoiningAfter

\* However many invite one user at the same time, the memberships they make are
\* never more than the requests that can run at once.
THEOREM MembershipsFew == Spec => []MembershipsBounded
<1>1. Init => OneEach /\ MembershipsBounded
  <2>1. Cardinality(Request) \in Nat /\ Cardinality({}) = 0
    BY RequestAssumption, FS_CardinalityType, FS_EmptySet
  <2>2. SUFFICES ASSUME Init PROVE OneEach /\ MembershipsBounded
    OBVIOUS
  <2>3. \A u \in User : {m \in members : m.user = u} = {} /\ Joining(u) = {}
    BY <2>2 DEF Init, Joining
  <2>. QED BY <2>1, <2>2, <2>3 DEF Init, OneEach, MembershipsBounded
<1>2. Spec => []OneEach
  <2>1. Init => OneEach
    BY DEF Init, OneEach
  <2>. QED BY <2>1, OneEachStep, TypeInvariant, PTL DEF Spec
<1>3. TypeInv /\ OneEach /\ MembershipsBounded /\ [Next]_vars => MembershipsBounded'
  BY BoundStep DEF MembershipsBounded, Of
<1>. QED BY <1>1, <1>2, <1>3, TypeInvariant, PTL DEF Spec

-----------------------------------------------------------------------------
(* Requests one at a time.  The loss of the last owner needs two handlers: a  *)
(* handler that has the organization for itself finds the roles it read, and  *)
(* the owners it counted, when it writes.                                     *)

OneAtATime == \A r, s \in Request : r = s

Solo == \A g, h \in running : g = h

\* The membership has the role that was read, and there are as many owners as
\* were counted.
AsRead(h) ==
  /\ \/ h.op = "update" /\ h.pc \in {"count", "write"}
     \/ h.op = "remove" /\ h.pc \in {"count", "clear", "drop"}
     => \A m \in members : m.uuid = h.member => m.role = h.was
  /\ \/ h.op = "update" /\ h.pc = "write" /\ h.was = "owner" /\ h.role # "owner"
     \/ h.op = "remove" /\ h.pc \in {"clear", "drop"} /\ h.was = "owner"
     => h.owners = Cardinality(Owners)

AloneInv == Solo /\ \A h \in running : AsRead(h)

\* A handler that begins has read no membership yet.
LEMMA AloneBegin ==
  ASSUME OneAtATime, TypeInv, NEW r \in Request \ Busy, Begin(r)
  PROVE  AloneInv'
<1>1. running = {}
  <2>1. \A h \in running : h.id \in Request /\ h.id \in Busy
    BY DEF TypeInv, TypeOK, Handler, Busy
  <2>. QED BY <2>1 DEF OneAtATime
<1>2. PICK new : /\ running' = running \cup {new}
                 /\ new.op # "remove" \/ new.pc = "find"
                 /\ new.op # "update" \/ new.pc = "find"
  BY BeginType
<1>. QED BY <1>1, <1>2 DEF AloneInv, Solo, AsRead

LEMMA AloneStep ==
  ASSUME TypeInv, AloneInv, NEW h \in running, Step(h)
  PROVE  AloneInv'
<1>0. h \in Handler /\ running = {h} /\ AsRead(h)
  BY DEF TypeInv, TypeOK, AloneInv, Solo
<1>1. ASSUME NEW new, running' = {new}, AsRead(new)'
      PROVE  AloneInv'
  BY <1>1 DEF AloneInv, Solo
<1>2. CASE UpdateFind(h)
  <2>1. PICK m \in members, pc \in {"count", "write"} :
          /\ running' = {[h EXCEPT !.member = m.uuid, !.was = m.role, !.pc = pc]}
          /\ pc = "write" => ~(m.role = "owner" /\ h.role # "owner")
    BY <1>0, <1>2 DEF UpdateFind, Become
  <2>. DEFINE new == [h EXCEPT !.member = m.uuid, !.was = m.role, !.pc = pc]
  <2>2. /\ new.op = "update" /\ new.member = m.uuid /\ new.was = m.role
        /\ new.role = h.role /\ new.pc = pc
    BY <1>0, <1>2 DEF Handler, UpdateFind
  <2>3. running' = {new} /\ UNCHANGED members
    BY <1>2, <2>1 DEF UpdateFind
  <2>. HIDE DEF new
  <2>4. AsRead(new)'
    BY <2>1, <2>2, <2>3 DEF AsRead, TypeInv, TypeOK
  <2>. QED BY <1>1, <2>3, <2>4
<1>3. CASE RemoveFind(h)
  <2>1. PICK m \in members, pc \in {"count", "clear"} :
          /\ running' = {[h EXCEPT !.member = m.uuid, !.user = m.user, !.was = m.role,
                            !.pc = pc]}
          /\ pc = "clear" => m.role # "owner"
    BY <1>0, <1>3 DEF RemoveFind, Become
  <2>. DEFINE new == [h EXCEPT !.member = m.uuid, !.user = m.user, !.was = m.role,
                        !.pc = pc]
  <2>2. new.op = "remove" /\ new.member = m.uuid /\ new.was = m.role /\ new.pc = pc
    BY <1>0, <1>3 DEF Handler, RemoveFind
  <2>3. running' = {new} /\ UNCHANGED members
    BY <1>3, <2>1 DEF RemoveFind
  <2>. HIDE DEF new
  <2>4. AsRead(new)'
    BY <2>1, <2>2, <2>3 DEF AsRead, TypeInv, TypeOK
  <2>. QED BY <1>1, <2>3, <2>4
<1>4. CASE CountOwners(h)
  <2>1. PICK n : n = Cardinality(Owners)
    OBVIOUS
  <2>. DEFINE pc == IF h.op = "update" THEN "write" ELSE "clear"
              new == [h EXCEPT !.owners = n, !.pc = pc]
  <2>2. /\ new.op = h.op /\ new.member = h.member /\ new.was = h.was
        /\ new.role = h.role /\ new.owners = n /\ new.pc = pc
    BY <1>0 DEF Handler
  <2>3. running' = {new} /\ UNCHANGED members /\ h.pc = "count"
    BY <1>0, <1>4, <2>1 DEF CountOwners, Become
  <2>. HIDE DEF new
  <2>4. n = Cardinality(Owners)'
    BY <2>1, <2>3 DEF Owners
  <2>5. AsRead(new)'
    BY <1>0, <2>1, <2>2, <2>3, <2>4 DEF AsRead
  <2>. QED BY <1>1, <2>3, <2>5
<1>5. CASE UpdateRole(h)
  <2>. DEFINE new == [Start(h.id, "update", "clear") EXCEPT
                      !.user = h.user, !.todo = h.todo]
  <2>1. running' = {new} /\ new.op = "update" /\ new.pc = "clear"
    BY <1>0, <1>5 DEF UpdateRole, Become, Start
  <2>. QED BY <1>1, <2>1 DEF AsRead
<1>6. CASE ClearMember(h) /\ h.op = "remove"
  <2>1. PICK new \in Handler :
          /\ running' = (running \ {h}) \cup {new}
          /\ new.pc = "drop" /\ new.op = h.op /\ new.member = h.member
          /\ new.was = h.was /\ new.role = h.role /\ new.owners = h.owners
    <3>1. Goto(h, "drop")
      BY <1>6 DEF ClearMember
    <3>. QED BY <3>1, GotoOK
  <2>2. UNCHANGED members /\ h.pc = "clear"
    BY <1>6 DEF ClearMember
  <2>3. AsRead(new)'
    BY <1>0, <1>6, <2>1, <2>2 DEF AsRead, Owners
  <2>. QED BY <1>0, <1>1, <2>1, <2>3
<1>7. CASE ~(\/ UpdateFind(h) \/ RemoveFind(h) \/ CountOwners(h) \/ UpdateRole(h)
             \/ ClearMember(h) /\ h.op = "remove")
  <2>1. CASE running' = running \ {h}
    BY <1>0, <2>1 DEF AloneInv, Solo
  <2>2. ASSUME NEW new \in Handler, Successor(h, new) PROVE AloneInv'
    <3>1. running' = {new}
      BY <1>0, <2>2 DEF Successor
    <3>2. AsRead(new)'
      BY <1>7, <2>2 DEF Successor, AsRead
    <3>. QED BY <1>1, <3>1, <3>2
  <2>. QED BY <2>1, <2>2, StepShape
<1>. QED BY <1>2, <1>3, <1>4, <1>5, <1>6, <1>7

LEMMA AloneInvariant == OneAtATime => (Spec => [](TypeInv /\ Knows /\ AloneInv))
<1>. SUFFICES ASSUME OneAtATime PROVE Spec => [](TypeInv /\ Knows /\ AloneInv)
  OBVIOUS
<1>1. Init => AloneInv
  BY DEF Init, AloneInv, Solo
<1>2. TypeInv /\ AloneInv /\ [Next]_vars => AloneInv'
  <2>1. AloneInv /\ UNCHANGED vars => AloneInv'
    BY DEF vars, AloneInv, Solo, AsRead, Owners
  <2>. QED BY <2>1, AloneBegin, AloneStep DEF Next
<1>. QED BY <1>1, <1>2, KnowsInit, KnowsStep, TypeInvariant, PTL DEF Spec

\* The only handler acts.
LEMMA OnlyActs ==
  ASSUME Solo, NEW g \in running, NEW h \in Acting PROVE g = h
BY DEF Solo, Acting

LEMMA LastOwnerStep ==
  ASSUME TypeInv, Knows, AloneInv, [Next]_vars,
         NEW h \in Acting, h.op \in {"update", "remove"},
         Owners # {}, Owners' = {}
  PROVE  FALSE
<1>0. /\ h \in running /\ AsRead(h)
      /\ Cardinality(Owners) \in Nat
  BY FS_Subset, FS_CardinalityType DEF Acting, AloneInv, Owners, TypeInv
<1>1. h.was = "owner" => h.owners > Cardinality(Owners)
  <2>1. PICK g \in Acting :
          \/ g.op \in {"delete_account", "delete_org", "accept"}
          \/ g.was = "owner" => g.owners > Cardinality(Owners)
    BY OwnerLossStep
  <2>2. g = h
    BY <1>0, OnlyActs DEF AloneInv
  <2>. QED BY <2>1, <2>2
<1>2. CASE UpdateRole(h)
  <2>1. PICK m \in Owners : m.uuid = h.member /\ h.role # "owner"
    BY <1>0, <1>2, UnmakesOwners
  <2>2. h.was = "owner" /\ h.op = "update" /\ h.pc = "write"
    BY <1>0, <1>2, <2>1 DEF AsRead, UpdateRole, Owners
  <2>3. h.owners = Cardinality(Owners)
    BY <1>0, <2>1, <2>2 DEF AsRead
  <2>. QED BY <1>0, <1>1, <2>2, <2>3
<1>3. CASE DropMember(h)
  <2>1. PICK m \in Owners : m.uuid = h.member
    BY <1>3 DEF DropMember, Owners
  <2>2. h.was = "owner" /\ h.op = "remove" /\ h.pc = "drop"
    BY <1>0, <1>3, <2>1 DEF AsRead, DropMember, Owners
  <2>3. h.owners = Cardinality(Owners)
    BY <1>0, <2>2 DEF AsRead
  <2>. QED BY <1>0, <1>1, <2>2, <2>3
<1>4. ~ members \subseteq members'
  BY DEF Owners
<1>5. \A g \in running : g = h
  BY OnlyActs DEF AloneInv
<1>6. ~ (SetStatus(h) \/ DropMembers(h) \/ DropMemberships(h))
  BY DEF SetStatus, DropMembers, DropMemberships
<1>. QED BY <1>2, <1>3, <1>4, <1>5, <1>6, RoleSteps

\* "Prevent demoting the last owner" and "Prevent removing the last owner": the
\* checks of update_member and remove_member are enough when requests do not
\* overlap, so what breaks them is the pause between the count and the write.
THEOREM LastOwnerStaysAlone == OneAtATime => (Spec => LastOwnerStays)
<1>. SUFFICES ASSUME OneAtATime PROVE Spec => LastOwnerStays
  OBVIOUS
<1>1. TypeInv /\ Knows /\ AloneInv /\ [Next]_vars =>
        [\A h \in Acting : h.op \in {"update", "remove"} /\ Owners # {} =>
           Owners' # {}]_vars
  BY LastOwnerStep
<1>. QED BY <1>1, AloneInvariant, PTL DEF Spec, LastOwnerStays

\* The rules of update_member and remove_member without their exception: one
\* request at a time, the role of a membership becomes or ceases to be owner or
\* admin only through an owner, and an owner's membership is removed only by an
\* owner, or goes with its account or the organization.  (An admin may still
\* invite an owner or an admin, and remove an admin.)
THEOREM PrivilegesAlone ==
  OneAtATime =>
    (Spec => [][\A m \in members :
                  /\ \A n \in members' :
                       /\ m.uuid = n.uuid /\ m.role # n.role
                       /\ {m.role, n.role} \cap Privileged # {}
                       => \E h \in Acting : h.op = "update" /\ h.mine = "owner"
                  /\ m.role = "owner" /\ (\A n \in members' : n.uuid # m.uuid)
                       => \E h \in Acting :
                            \/ h.op \in {"delete_account", "delete_org"}
                            \/ h.op = "remove" /\ h.mine = "owner"]_vars)
<1>. SUFFICES ASSUME OneAtATime
              PROVE  Spec =>
                [][\A m \in members :
                  /\ \A n \in members' :
                       /\ m.uuid = n.uuid /\ m.role # n.role
                       /\ {m.role, n.role} \cap Privileged # {}
                       => \E h \in Acting : h.op = "update" /\ h.mine = "owner"
                  /\ m.role = "owner" /\ (\A n \in members' : n.uuid # m.uuid)
                       => \E h \in Acting :
                            \/ h.op \in {"delete_account", "delete_org"}
                            \/ h.op = "remove" /\ h.mine = "owner"]_vars
  OBVIOUS
<1>1. ASSUME TypeInv, Knows, AloneInv, [Next]_vars,
             NEW m \in members, NEW n \in members', m.uuid = n.uuid, m.role # n.role,
             {m.role, n.role} \cap Privileged # {}
      PROVE  \E h \in Acting : h.op = "update" /\ h.mine = "owner"
  <2>1. PICK h \in Acting : UpdateRole(h) /\ m.uuid = h.member
    BY <1>1, RoleWriter
  <2>2. h.was = m.role
    BY <1>1, <2>1 DEF Acting, UpdateRole, AloneInv, AsRead
  <2>3. PICK g \in Acting : g.op = "update" /\ ByOwner(g, m)
    BY <1>1, PrivilegeStep
  <2>4. g = h
    BY <1>1, OnlyActs DEF AloneInv, Acting
  <2>. QED BY <2>2, <2>3, <2>4 DEF ByOwner
<1>2. ASSUME TypeInv, Knows, AloneInv, [Next]_vars,
             NEW m \in members, m.role = "owner", \A n \in members' : n.uuid # m.uuid
      PROVE  \E h \in Acting : \/ h.op \in {"delete_account", "delete_org"}
                               \/ h.op = "remove" /\ h.mine = "owner"
  <2>1. PICK h \in Acting : \/ h.op \in {"delete_account", "delete_org"}
                            \/ /\ h.op = "remove" /\ DropMember(h) /\ m.uuid = h.member
                               /\ ByOwner(h, m)
    BY <1>2, RemovalStep
  <2>2. h.op = "remove" /\ DropMember(h) /\ m.uuid = h.member => h.was = m.role
    BY <1>2 DEF Acting, DropMember, AloneInv, AsRead
  <2>. QED BY <2>1, <2>2 DEF ByOwner
<1>3. TypeInv /\ Knows /\ AloneInv /\ [Next]_vars =>
        [\A m \in members :
           /\ \A n \in members' :
                /\ m.uuid = n.uuid /\ m.role # n.role
                /\ {m.role, n.role} \cap Privileged # {}
                => \E h \in Acting : h.op = "update" /\ h.mine = "owner"
           /\ m.role = "owner" /\ (\A n \in members' : n.uuid # m.uuid)
                => \E h \in Acting :
                     \/ h.op \in {"delete_account", "delete_org"}
                     \/ h.op = "remove" /\ h.mine = "owner"]_vars
  BY <1>1, <1>2
<1>. QED BY <1>3, AloneInvariant, PTL DEF Spec

\* invite_member looks for a membership before it inserts one: one request at a
\* time, nobody has two.
THEOREM OneMembershipAlone ==
  OneAtATime => (Spec => [](\A m, n \in members : m.user = n.user => m = n))
<1>. SUFFICES ASSUME OneAtATime
              PROVE  Spec => [](\A m, n \in members : m.user = n.user => m = n)
  OBVIOUS
<1>1. Cardinality(Request) <= 1
  <2>1. Request = {} \/ \E r : Request = {r}
    BY DEF OneAtATime
  <2>2. CASE Request = {}
    BY <2>2, FS_EmptySet
  <2>3. ASSUME NEW r, Request = {r} PROVE Cardinality(Request) = 1
    BY <2>3, FS_Singleton
  <2>. QED BY <2>1, <2>2, <2>3
<1>2. ASSUME TypeInv, AloneInv, MembershipsBounded, NEW m \in members, NEW n \in members,
             m.user = n.user, m # n
      PROVE  FALSE
  <2>. DEFINE rows == {x \in members : x.user = m.user}
  <2>1. m.user \in User /\ IsFiniteSet(members)
    BY <1>2 DEF TypeInv, TypeOK, Row
  <2>2. IsFiniteSet(rows) /\ Cardinality(rows) \in Nat
    BY <2>1, FS_Subset, FS_CardinalityType
  <2>3. running \subseteq Handler /\ \A g, h \in running : g.id = h.id => g = h
    BY <1>2 DEF TypeInv, TypeOK, AloneInv, Solo
  <2>4. Cardinality(Joining(m.user)) \in Nat
    BY <2>3, HandlersCounted DEF Joining
  <2>5. Cardinality({m, n}) = 2 /\ {m, n} \subseteq rows
    <3>1. IsFiniteSet({m}) /\ Cardinality({m}) = 1
      BY FS_Singleton
    <3>2. Cardinality({m} \cup {n}) = Cardinality({m}) + 1
      BY <1>2, <3>1, FS_AddElement
    <3>3. {m} \cup {n} = {m, n}
      OBVIOUS
    <3>. QED BY <1>2, <3>1, <3>2, <3>3
  <2>6. 2 <= Cardinality(rows)
    BY <2>2, <2>5, FS_Subset
  <2>7. Cardinality(rows) + Cardinality(Joining(m.user)) <= Cardinality(Request)
    BY <1>2, <2>1 DEF MembershipsBounded
  <2>8. Cardinality(Request) \in Nat
    BY RequestAssumption, FS_CardinalityType
  <2>. QED BY <1>1, <2>2, <2>4, <2>6, <2>7, <2>8
<1>3. TypeInv /\ AloneInv /\ MembershipsBounded =>
        \A m, n \in members : m.user = n.user => m = n
  BY <1>2
<1>. QED BY <1>3, AloneInvariant, MembershipsFew, PTL

-----------------------------------------------------------------------------
(* Requests one at a time, nothing is inserted late: what a grant or a        *)
(* membership hangs on is still there.                                        *)

\* What a handler is going to grant: collections that exist, to members or to
\* the user it invites; whom it makes a member has an account; and a deleted
\* organization has no handler at work.
Real(h) ==
  /\ \A g \in h.todo :
       /\ g.col \in collections
       /\ \/ Has(g.user)
          \/ h.op = "invite" /\ h.pc \in {"find", "write"} /\ g.user = h.user
  /\ h.op \in {"remove", "delete_collection", "delete_org", "delete_account"}
       => h.todo = {}
  /\ h.pc = "collection" => Has(h.user) /\ h.op \in {"create", "post_collection"}
  /\ h.pc = "count" => h.op \in {"update", "remove"}
  /\ h.op \in {"create", "invite"} /\ h.pc = "write" => h.user \in accounts
  /\ org = "deleted" => h.op = "delete_account"

AllReal == \A h \in running : Real(h)
NoneLate == late = {}

RealInv == AllReal /\ NoneLate /\ NothingLeft

\* What the clients see to, as no handler does: a request that begins grants
\* collections that are there, to members or to the user it invites.
Careful ==
  \A h \in running' : h.id \notin Busy =>
    \A g \in h.todo : g.col \in collections /\ (h.op = "invite" \/ Has(g.user))

LEMMA RealBegin ==
  ASSUME OneAtATime, TypeInv, RealInv, NEW r \in Request \ Busy, Begin(r), Careful
  PROVE  AllReal'
<1>0. running = {}
  <2>1. \A h \in running : h.id \in Request /\ h.id \in Busy
    BY DEF TypeInv, TypeOK, Handler, Busy
  <2>. QED BY <2>1 DEF OneAtATime
<1>1. UNCHANGED <<members, collections, accounts>> /\ \A u : Has(u)' <=> Has(u)
  <2>1. UNCHANGED <<members, collections, accounts>>
    BY BeginType
  <2>. QED BY <2>1 DEF Has
<1>2. ASSUME NEW new, running' = {new}, Real(new)' PROVE AllReal'
  BY <1>2 DEF AllReal
<1>3. CASE PostOrganization(r)
  <2>1. PICK u \in accounts :
          running' = {[Start(r, "create", "write") EXCEPT !.user = u, !.role = "owner"]}
    BY <1>0, <1>3 DEF PostOrganization
  <2>. DEFINE new == [Start(r, "create", "write") EXCEPT !.user = u, !.role = "owner"]
  <2>2. /\ new.op = "create" /\ new.pc = "write" /\ new.user = u /\ new.todo = {}
        /\ org' = "live"
    BY <1>3 DEF Start, PostOrganization
  <2>3. Real(new)'
    BY <1>1, <2>2 DEF Real
  <2>. QED BY <1>2, <2>1, <2>3
<1>4. ASSUME NEW op \in {"invite", "confirm", "update", "remove", "post_collection",
                         "delete_collection", "set_users", "delete_org"},
             BeginAsAdmin(r, op)
      PROVE  AllReal'
  <2>0. UNCHANGED org /\ members # {}
    BY <1>4 DEF BeginAsAdmin
  <2>1. org # "deleted"
    BY <2>0 DEF RealInv, NoneLate, NothingLeft
  <2>2. CASE op \in {"confirm", "delete_org", "remove"}
    <3>1. PICK m \in members, pc \in {"find", "clear"} :
            \/ running' = {Start(r, op, pc)}
            \/ running' = {[Start(r, op, pc) EXCEPT !.mine = m.role]}
      BY <1>0, <1>4, <2>2 DEF BeginAsAdmin
    <3>2. PICK new : /\ running' = {new} /\ new.op = op /\ new.pc = pc
                     /\ new.todo = {}
      <4>1. CASE running' = {Start(r, op, pc)}
        <5>. DEFINE new == Start(r, op, pc)
        <5>1. new.op = op /\ new.pc = pc /\ new.todo = {}
          BY DEF Start
        <5>. QED BY <4>1, <5>1
      <4>2. CASE running' = {[Start(r, op, pc) EXCEPT !.mine = m.role]}
        <5>. DEFINE new == [Start(r, op, pc) EXCEPT !.mine = m.role]
        <5>1. new.op = op /\ new.pc = pc /\ new.todo = {}
          BY DEF Start
        <5>. QED BY <4>2, <5>1
      <4>. QED BY <3>1, <4>1, <4>2
    <3>3. Real(new)'
      BY <2>0, <2>1, <2>2, <3>1, <3>2 DEF Real
    <3>. QED BY <1>2, <3>2, <3>3
  <2>3. CASE op = "post_collection"
    <3>1. PICK m \in members :
            running' = {[Start(r, op, "collection") EXCEPT !.user = m.user]}
      BY <1>0, <1>4, <2>3 DEF BeginAsAdmin
    <3>. DEFINE new == [Start(r, op, "collection") EXCEPT !.user = m.user]
    <3>2. /\ new.op = op /\ new.pc = "collection" /\ new.todo = {}
          /\ new.user = m.user /\ Has(m.user)
      BY DEF Start, Has
    <3>3. Real(new)'
      BY <1>1, <2>0, <2>1, <2>3, <3>2 DEF Real
    <3>. QED BY <1>2, <3>1, <3>3
  <2>4. CASE op \in {"delete_collection", "set_users"}
    <3>1. PICK c \in collections, us \in SUBSET User :
            /\ op = "delete_collection" => us = {}
            /\ running' = {[Start(r, op, "clear") EXCEPT !.col = c,
                             !.todo = {[user |-> u, col |-> c] : u \in us}]}
      BY <1>0, <1>4, <2>4 DEF BeginAsAdmin
    <3>. DEFINE todo == {[user |-> u, col |-> c] : u \in us}
                new == [Start(r, op, "clear") EXCEPT !.col = c, !.todo = todo]
    <3>2. new.op = op /\ new.pc = "clear" /\ new.todo = todo /\ new.id = r
      BY DEF Start
    <3>3. \A g \in todo : g.col \in collections /\ Has(g.user)
      BY <2>4, <3>1, <3>2 DEF Careful
    <3>4. op = "delete_collection" => todo = {}
      BY <3>1
    <3>. HIDE DEF todo
    <3>5. Real(new)'
      BY <1>1, <2>0, <2>1, <2>4, <3>2, <3>3, <3>4 DEF Real
    <3>. QED BY <1>2, <3>1, <3>5 DEF todo
  <2>5. CASE op \in {"invite", "update"}
    <3>0. PICK m \in members : \E role \in Roles, u \in User, cs \in SUBSET Collection :
            /\ IF op = "invite" THEN u \in accounts ELSE Has(u)
            /\ running' = running \cup
                 {[Start(r, op, "find") EXCEPT
                     !.mine = IF op = "update" THEN m.role ELSE "owner",
                     !.user = u, !.role = role,
                     !.todo = {[user |-> u, col |-> c] : c \in cs}]}
      BY <1>4, <2>5, Zenon DEF BeginAsAdmin
    <3>1. PICK role \in Roles, u \in User, cs \in SUBSET Collection :
            /\ IF op = "invite" THEN u \in accounts ELSE Has(u)
            /\ running' = running \cup
                 {[Start(r, op, "find") EXCEPT
                     !.mine = IF op = "update" THEN m.role ELSE "owner",
                     !.user = u, !.role = role,
                     !.todo = {[user |-> u, col |-> c] : c \in cs}]}
      BY <3>0
    <3>. DEFINE todo == {[user |-> u, col |-> c] : c \in cs}
                new == [Start(r, op, "find") EXCEPT
                          !.mine = IF op = "update" THEN m.role ELSE "owner",
                          !.user = u, !.role = role, !.todo = todo]
    <3>2. /\ new.op = op /\ new.pc = "find" /\ new.user = u /\ new.todo = todo
          /\ new.id = r
      BY DEF Start
    <3>3. running' = {new}
      BY <1>0, <3>1
    <3>6. \A g \in todo : g.user = u
      OBVIOUS
    <3>. HIDE DEF todo, new
    <3>4. \A g \in todo : g.col \in collections /\ g.user = u /\ (op = "invite" \/ Has(u))
      BY <3>2, <3>3, <3>6 DEF Careful
    <3>5. Real(new)'
      BY <1>1, <2>0, <2>1, <2>5, <3>1, <3>2, <3>4 DEF Real
    <3>. QED BY <1>2, <3>3, <3>5
  <2>. QED BY <2>2, <2>3, <2>4, <2>5
<1>5. CASE BeginAccept(r)
  <2>1. PICK m \in members :
          running' = {[Start(r, "accept", "write") EXCEPT !.member = m.uuid]}
    BY <1>0, <1>5 DEF BeginAccept
  <2>. DEFINE new == [Start(r, "accept", "write") EXCEPT !.member = m.uuid]
  <2>2. new.op = "accept" /\ new.pc = "write" /\ new.todo = {}
    BY DEF Start
  <2>3. org' # "deleted"
    BY <1>5, <2>1 DEF BeginAccept, RealInv, NoneLate, NothingLeft
  <2>4. Real(new)'
    BY <2>2, <2>3 DEF Real
  <2>. QED BY <1>2, <2>1, <2>4
<1>6. CASE BeginDeleteAccount(r)
  <2>1. PICK u \in accounts :
          running' = {[Start(r, "delete_account", "clear") EXCEPT !.user = u]}
    BY <1>0, <1>6 DEF BeginDeleteAccount
  <2>. DEFINE new == [Start(r, "delete_account", "clear") EXCEPT !.user = u]
  <2>2. new.op = "delete_account" /\ new.pc = "clear" /\ new.todo = {}
    BY DEF Start
  <2>3. Real(new)'
    BY <2>2 DEF Real
  <2>. QED BY <1>2, <2>1, <2>3
<1>. QED BY <1>3, <1>4, <1>5, <1>6 DEF Begin

\* The loop of grants, after a statement that leaves what they need.
LEMMA RealGrantAll ==
  ASSUME TypeInv, Solo, NEW h \in running, NEW todo \in SUBSET Grant, GrantAll(h, todo),
         h.op \notin {"remove", "delete_collection", "delete_org", "delete_account"},
         \A g \in todo : g.col \in collections' /\ Has(g.user)',
         org' # "deleted"
  PROVE  AllReal'
<1>1. running = {h}
  BY DEF Solo
<1>2. CASE running' = running \ {h}
  BY <1>1, <1>2 DEF AllReal
<1>3. ASSUME NEW new \in Handler, running' = (running \ {h}) \cup {new},
             new.op = h.op, new.pc = "grant", new.todo = todo
      PROVE  AllReal'
  <2>1. Real(new)'
    BY <1>3 DEF Real
  <2>. QED BY <1>1, <1>3, <2>1 DEF AllReal
<1>. QED BY <1>2, <1>3, GrantAllOK

\* The handlers that only read.
LEMMA FindShape ==
  ASSUME TypeInv, NEW h \in running, Real(h), running = {h},
         \/ InviteFind(h) \/ ConfirmFind(h) \/ UpdateFind(h) \/ RemoveFind(h)
         \/ CountOwners(h)
  PROVE  \E k : /\ running' = {k} /\ k.op = h.op /\ k.todo = h.todo
                /\ \/ k.pc = "write"
                   \/ k.pc \in {"count", "clear"} /\ h.op \in {"update", "remove"}
                /\ k.op = "invite" => k.user = h.user /\ h.user \in accounts
                /\ k.op # "create"
<1>0. h \in Handler
  BY DEF TypeInv, TypeOK
<1>1. CASE InviteFind(h)
  <2>1. Goto(h, "write") /\ h.op = "invite" /\ h.user \in accounts
    BY <1>1 DEF InviteFind
  <2>2. PICK k \in Handler : /\ running' = (running \ {h}) \cup {k}
                             /\ k.pc = "write" /\ k.op = h.op /\ k.user = h.user
                             /\ k.todo = h.todo
    BY <2>1, GotoOK
  <2>3. running' = {k}
    BY <2>2
  <2>. QED BY <2>1, <2>2, <2>3
<1>2. CASE ConfirmFind(h)
  <2>0. h.op = "confirm"
    BY <1>2 DEF ConfirmFind
  <2>1. PICK m \in members : running' = {[h EXCEPT !.pc = "write", !.member = m.uuid]}
    BY <1>2 DEF ConfirmFind, Become
  <2>. DEFINE k == [h EXCEPT !.pc = "write", !.member = m.uuid]
  <2>2. k.op = "confirm" /\ k.pc = "write" /\ k.todo = h.todo
    BY <1>0, <2>0 DEF Handler
  <2>. QED BY <2>0, <2>1, <2>2
<1>3. CASE UpdateFind(h)
  <2>1. PICK m \in members, pc \in {"count", "write"} :
          running' = {[h EXCEPT !.member = m.uuid, !.was = m.role, !.pc = pc]}
    BY <1>3 DEF UpdateFind, Become
  <2>. DEFINE k == [h EXCEPT !.member = m.uuid, !.was = m.role, !.pc = pc]
  <2>2. k.op = "update" /\ k.pc = pc /\ k.todo = h.todo
    BY <1>0, <1>3 DEF Handler, UpdateFind
  <2>. QED BY <1>3, <2>1, <2>2 DEF UpdateFind
<1>4. CASE RemoveFind(h)
  <2>1. PICK m \in members, pc \in {"count", "clear"} :
          running' = {[h EXCEPT !.member = m.uuid, !.user = m.user, !.was = m.role,
                         !.pc = pc]}
    BY <1>4 DEF RemoveFind, Become
  <2>. DEFINE k == [h EXCEPT !.member = m.uuid, !.user = m.user, !.was = m.role,
                      !.pc = pc]
  <2>2. k.op = "remove" /\ k.pc = pc /\ k.todo = h.todo
    BY <1>0, <1>4 DEF Handler, RemoveFind
  <2>. QED BY <1>4, <2>1, <2>2 DEF RemoveFind
<1>5. CASE CountOwners(h)
  <2>1. h.op \in {"update", "remove"}
    BY <1>5 DEF CountOwners, Real
  <2>2. PICK n, pc : running' = {[h EXCEPT !.owners = n, !.pc = pc]}
                     /\ pc \in {"write", "clear"}
    <3>1. PICK pc \in {"write", "clear"} :
            running' = {[h EXCEPT !.owners = Cardinality(Owners), !.pc = pc]}
      BY <1>5 DEF CountOwners, Become
    <3>. QED BY <3>1
  <2>. DEFINE k == [h EXCEPT !.owners = n, !.pc = pc]
  <2>3. k.op = h.op /\ k.pc = pc /\ k.todo = h.todo
    BY <1>0 DEF Handler
  <2>. QED BY <2>1, <2>2, <2>3
<1>. QED BY <1>1, <1>2, <1>3, <1>4, <1>5

LEMMA RealStep ==
  ASSUME TypeInv, Solo, RealInv, NEW h \in running, Step(h)
  PROVE  AllReal' /\ NoneLate'
<1>0. h \in Handler /\ running = {h} /\ Real(h) /\ late = {}
  BY DEF TypeInv, TypeOK, Solo, RealInv, AllReal, NoneLate
<1>1. ASSUME NEW new, running' = {new}, Real(new)' PROVE AllReal'
  BY <1>1 DEF AllReal
<1>2. CASE DropMember(h) \/ DropCollection(h) \/ DropOrg(h) \/ DropUser(h) \/ Abandon(h)
           \/ SetStatus(h)
  <2>1. running' = {} /\ UNCHANGED late
    BY <1>0, <1>2 DEF DropMember, DropCollection, DropOrg, DropUser, Abandon, SetStatus,
                      End
  <2>. QED BY <1>0, <2>1 DEF AllReal, NoneLate
<1>3. CASE UpdateRole(h)
  <2>. DEFINE new == [Start(h.id, "update", "clear") EXCEPT
                      !.user = h.user, !.todo = h.todo]
  <2>1. running' = {new} /\ UNCHANGED <<org, collections, accounts, late>>
    BY <1>0, <1>3 DEF UpdateRole, Become
  <2>2. new.op = "update" /\ new.pc = "clear" /\ new.todo = h.todo
    BY DEF Start
  <2>3. \A u : Has(u) => Has(u)'
    <3>1. \A m \in members : \E n \in members' : n.user = m.user
      BY <1>3, UpdateRoleRows
    <3>. QED BY <3>1 DEF Has
  <2>. HIDE DEF new
  <2>4. Real(new)'
    BY <1>0, <1>3, <2>1, <2>2, <2>3 DEF Real, UpdateRole
  <2>. QED BY <1>0, <1>1, <2>1, <2>4 DEF NoneLate
<1>4. CASE InsertMember(h)
  <2>1. ~Dissolving /\ h.user \in accounts
    BY <1>0, <1>4 DEF Dissolving, Real, InsertMember
  <2>2. PICK m \in Member \ given, new \in Row :
          /\ members' = members \cup {new} /\ new.user = h.user
          /\ late' = IF Dissolving \/ h.user \notin accounts
                     THEN late \cup {m} ELSE late
    BY <1>4, InsertMemberRow
  <2>3. Has(h.user)' /\ \A u : Has(u) => Has(u)'
    BY <2>2 DEF Has
  <2>4. UNCHANGED <<org, collections>> /\ org # "deleted"
    BY <1>4, <2>1 DEF InsertMember, Dissolving
  <2>5. h.op \in {"create", "invite"} /\ h.pc = "write" /\ h.todo \in SUBSET Grant
    BY <1>0, <1>4 DEF Handler, InsertMember
  <2>6. AllReal'
    <3>1. CASE GrantAll(h, h.todo) /\ h.op = "invite"
      <4>1. \A g \in h.todo : g.col \in collections' /\ Has(g.user)'
        BY <1>0, <2>3, <2>4 DEF Real
      <4>. QED BY <2>4, <3>1, <4>1, <2>5, RealGrantAll
    <3>2. CASE End(h)
      BY <1>0, <3>2 DEF End, AllReal
    <3>3. CASE Goto(h, "collection") /\ h.op = "create"
      <4>1. PICK k \in Handler : /\ running' = (running \ {h}) \cup {k}
                                 /\ k.pc = "collection" /\ k.op = h.op
                                 /\ k.user = h.user /\ k.todo = h.todo
        BY <3>3, GotoOK
      <4>2. Real(k)'
        BY <1>0, <2>3, <2>4, <3>3, <4>1 DEF Real
      <4>. QED BY <1>0, <1>1, <4>1, <4>2
    <3>. QED BY <1>4, <2>5, <3>1, <3>2, <3>3 DEF InsertMember
  <2>. QED BY <1>0, <2>1, <2>2, <2>6 DEF NoneLate
<1>5. CASE InsertCollection(h)
  <2>1. ~Dissolving /\ Has(h.user) /\ h.pc = "collection"
    <3>1. h.pc = "collection"
      BY <1>5 DEF InsertCollection
    <3>2. Has(h.user)
      BY <1>0, <3>1 DEF Real
    <3>3. org # "deleted"
      BY <3>2 DEF RealInv, NoneLate, NothingLeft, Has
    <3>4. h.op # "delete_org"
      BY <1>0, <3>1 DEF Real
    <3>. QED BY <1>0, <3>1, <3>2, <3>3, <3>4 DEF Dissolving
  <2>2. PICK c \in Collection \ given :
          /\ collections' = collections \cup {c}
          /\ late' = IF Dissolving THEN late \cup {c} ELSE late
          /\ GrantAll(h, {[user |-> h.user, col |-> c]})
    BY <1>5 DEF InsertCollection
  <2>3. UNCHANGED <<org, members>> /\ org # "deleted"
    BY <1>5, <2>1 DEF InsertCollection, Dissolving
  <2>4. h.user \in User /\ {[user |-> h.user, col |-> c]} \in SUBSET Grant
    BY <2>1 DEF Grant, TypeInv, HandlersOK
  <2>5. \A g \in {[user |-> h.user, col |-> c]} : g.col \in collections' /\ Has(g.user)'
    BY <2>1, <2>2, <2>3 DEF Has
  <2>6. h.op \notin {"remove", "delete_collection", "delete_org", "delete_account"}
    BY <1>0, <2>1 DEF Real
  <2>7. AllReal'
    BY <2>2, <2>3, <2>4, <2>5, <2>6, RealGrantAll
  <2>. QED BY <1>0, <2>1, <2>2, <2>7 DEF NoneLate
<1>6. CASE SetGrant(h)
  <2>1. PICK g \in h.todo :
          /\ late' = IF \/ ~Has(g.user) \/ Leaving(g.user) \/ Dissolving
                        \/ g.col \notin collections \/ Closing(g.col)
                     THEN late \cup {g} ELSE late
          /\ GrantAll(h, h.todo \ {g})
    BY <1>6 DEF SetGrant
  <2>2. UNCHANGED <<org, members, collections>> /\ h.pc = "grant"
    BY <1>6 DEF SetGrant
  <2>3. /\ \A x \in h.todo : x.col \in collections /\ Has(x.user)
        /\ h.op \notin {"remove", "delete_collection", "delete_org", "delete_account"}
        /\ org # "deleted"
    BY <1>0, <2>1, <2>2 DEF Real
  <2>4. ~Leaving(g.user) /\ ~Dissolving /\ ~Closing(g.col)
    BY <1>0, <2>2, <2>3 DEF Leaving, Dissolving, Closing
  <2>5. \A x \in h.todo \ {g} : x.col \in collections' /\ Has(x.user)'
    BY <2>2, <2>3 DEF Has
  <2>6. h.todo \ {g} \in SUBSET Grant
    BY <1>0 DEF Handler
  <2>7. AllReal'
    BY <2>1, <2>2, <2>3, <2>5, <2>6, RealGrantAll
  <2>. QED BY <1>0, <2>1, <2>3, <2>4, <2>7 DEF NoneLate
<1>7. CASE ClearMember(h) \/ ClearCollection(h) \/ ClearOrg(h) \/ ClearUser(h)
  <2>1. UNCHANGED <<org, members, collections, accounts>> /\ late' = {}
    BY <1>0, <1>7 DEF ClearMember, ClearCollection, ClearOrg, ClearUser
  <2>2. h.pc = "clear" /\ h.todo \in SUBSET Grant
    BY <1>0, <1>7 DEF ClearMember, ClearCollection, ClearOrg, ClearUser, Handler
  <2>3. \/ GrantAll(h, h.todo) /\ h.op \in {"update", "set_users"}
        \/ \E pc \in {"drop", "collections", "members"} :
             /\ Goto(h, pc)
             /\ h.op \in {"remove", "delete_collection", "delete_org", "delete_account"}
    BY <1>7 DEF ClearMember, ClearCollection, ClearOrg, ClearUser
  <2>4. CASE GrantAll(h, h.todo) /\ h.op \in {"update", "set_users"}
    <3>1. \A g \in h.todo : g.col \in collections' /\ Has(g.user)'
      BY <1>0, <2>1, <2>4 DEF Real, Has
    <3>2. org' # "deleted"
      BY <1>0, <2>1, <2>4 DEF Real
    <3>3. AllReal'
      BY <2>2, <2>4, <3>1, <3>2, RealGrantAll
    <3>. QED BY <2>1, <3>3 DEF NoneLate
  <2>5. ASSUME NEW pc \in {"drop", "collections", "members"}, Goto(h, pc),
               h.op \in {"remove", "delete_collection", "delete_org", "delete_account"}
        PROVE  AllReal' /\ NoneLate'
    <3>1. PICK k \in Handler : /\ running' = (running \ {h}) \cup {k}
                               /\ k.pc = pc /\ k.op = h.op /\ k.todo = h.todo
      BY <2>5, GotoOK
    <3>2. Real(k)'
      BY <1>0, <2>1, <2>5, <3>1 DEF Real
    <3>. QED BY <1>0, <1>1, <2>1, <3>1, <3>2 DEF NoneLate
  <2>. QED BY <2>3, <2>4, <2>5
<1>8. CASE DropCollections(h) \/ DropMembers(h) \/ DropMemberships(h)
  <2>1. UNCHANGED <<org, late>> /\ h.op \in {"delete_org", "delete_account"}
    BY <1>8 DEF DropCollections, DropMembers, DropMemberships
  <2>2. PICK pc \in {"members", "drop"} : Goto(h, pc)
    BY <1>8 DEF DropCollections, DropMembers, DropMemberships
  <2>3. PICK k \in Handler : /\ running' = (running \ {h}) \cup {k}
                             /\ k.pc = pc /\ k.op = h.op /\ k.todo = h.todo
    BY <2>2, GotoOK
  <2>4. Real(k)'
    BY <1>0, <2>1, <2>3 DEF Real
  <2>. QED BY <1>0, <1>1, <2>1, <2>3, <2>4 DEF NoneLate
<1>9. CASE InviteFind(h) \/ ConfirmFind(h) \/ UpdateFind(h) \/ RemoveFind(h)
           \/ CountOwners(h)
  <2>1. UNCHANGED <<org, members, collections, accounts, late>>
    BY <1>9 DEF InviteFind, ConfirmFind, UpdateFind, RemoveFind, CountOwners
  <2>2. PICK k :
          /\ running' = {k} /\ k.op = h.op /\ k.todo = h.todo
          /\ \/ k.pc = "write"
             \/ k.pc \in {"count", "clear"} /\ h.op \in {"update", "remove"}
          /\ k.op = "invite" => k.user = h.user /\ h.user \in accounts
          /\ k.op # "create"
    BY <1>0, <1>9, FindShape
  <2>3. Real(k)'
    BY <1>0, <2>1, <2>2 DEF Real, Has
  <2>. QED BY <1>0, <1>1, <2>1, <2>2, <2>3 DEF NoneLate
<1>. QED BY <1>2, <1>3, <1>4, <1>5, <1>6, <1>7, <1>8, <1>9 DEF Step

\* The tables have no foreign keys, and need none as long as requests do not
\* overlap and name what is there: however often handlers stop half-way, every
\* grant opens a collection that exists to a member, and a deleted organization
\* leaves nothing behind.
THEOREM TablesHangAlone ==
  OneAtATime =>
    (Spec /\ [][Careful]_vars =>
       [](/\ \A g \in grants : g.col \in collections /\ Has(g.user)
          /\ org = "deleted" => members = {} /\ collections = {}))
<1>. SUFFICES ASSUME OneAtATime
              PROVE  Spec /\ [][Careful]_vars =>
                       [](/\ \A g \in grants : g.col \in collections /\ Has(g.user)
                          /\ org = "deleted" => members = {} /\ collections = {})
  OBVIOUS
<1>. DEFINE Real2 == AllReal /\ NoneLate
<1>1. Init => Real2
  BY DEF Init, AllReal, NoneLate
<1>2. TypeInv /\ AloneInv /\ NothingLeft /\ Real2 /\ [Next]_vars /\ [Careful]_vars => Real2'
  <2>1. ASSUME Real2, UNCHANGED vars PROVE Real2'
    BY <2>1 DEF vars, AllReal, NoneLate, Real, Has
  <2>2. ASSUME TypeInv, NothingLeft, Real2, NEW r \in Request \ Busy, Begin(r), Careful
        PROVE  Real2'
    <3>1. UNCHANGED late
      BY <2>2, BeginType
    <3>2. AllReal'
      BY <2>2, RealBegin DEF RealInv
    <3>. QED BY <2>2, <3>1, <3>2 DEF NoneLate
  <2>3. ASSUME TypeInv, AloneInv, NothingLeft, Real2, NEW h \in running, Step(h) PROVE Real2'
    BY <2>3, RealStep DEF RealInv, AloneInv
  <2>. HIDE DEF Real2
  <2>. QED BY <2>1, <2>2, <2>3 DEF Next
<1>3. Real2 /\ GrantsHang /\ NothingLeft =>
        /\ \A g \in grants : g.col \in collections /\ Has(g.user)
        /\ org = "deleted" => members = {} /\ collections = {}
  BY DEF NoneLate, GrantsHang, NothingLeft
<1>. HIDE DEF Real2
<1>. QED BY <1>1, <1>2, <1>3, AloneInvariant, GrantsHangTogether, NothingIsLeft, PTL
         DEF Spec
=============================================================================
