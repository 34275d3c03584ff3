--------------------------- MODULE CiphersProofs ---------------------------
(***************************************************************************)
(* Proofs about Ciphers, for any ciphers, users, collections and number of  *)
(* concurrent handlers.                                                     *)
(***************************************************************************)
EXTENDS Ciphers, TLAPS

-----------------------------------------------------------------------------
(* What handlers remember.                                                  *)

\* Where a handler of each operation can be, and what it then knows.
HandlersOK ==
  /\ \A h, g \in running : h.id = g.id => h = g
  /\ \A h \in running :
       /\ h.op \in Checked => /\ h.pc \in {"member", "grants", "write"}
                              /\ h.user \in User /\ h.cipher \in used
       /\ h.op = "put" => h.key \in Homes
       /\ h.op = "create" => h.pc = "write"
       /\ h.op = "share" => h.pc \in {"member", "write", "clear"} /\ h.cipher \in used
       /\ h.op = "link" => h.pc = "link" /\ h.cipher \in used
       /\ h.op = "purge" => h.pc = "rows"
       /\ h.op = "account" => h.pc = "rows" /\ h.user \in User
       /\ h.op = "sync" => h.pc \in {"member", "org", "answer"} /\ h.user \in User

TypeInv == TypeOK /\ HandlersOK

LEMMA StartType ==
  ASSUME NEW r \in Request, NEW op, NEW pc,
         op \in Checked \cup {"create", "share", "link", "purge", "account", "sync"},
         pc \in {"member", "grants", "write", "clear", "link", "rows", "org", "answer"}
  PROVE  /\ Start(r, op, pc) \in Handler
         /\ Start(r, op, pc).id = r /\ Start(r, op, pc).op = op
         /\ Start(r, op, pc).pc = pc
BY DEF Start, Handler, Checked

\* A handler that begins is the only one of its id.
LEMMA BeginType ==
  ASSUME TypeInv, NEW r \in Request \ Busy, NEW new \in Handler, new.id = r,
         running' = running \cup {new}, used' = used,
         new.op \in Checked => /\ new.pc \in {"member", "grants", "write"}
                               /\ new.user \in User /\ new.cipher \in used,
         new.op = "put" => new.key \in Homes,
         new.op = "create" => new.pc = "write",
         new.op = "share" => new.pc = "member" /\ new.cipher \in used,
         new.op = "link" => FALSE,
         new.op = "purge" => new.pc = "rows",
         new.op = "account" => new.pc = "rows" /\ new.user \in User,
         new.op = "sync" => new.pc = "member" /\ new.user \in User
  PROVE  running' \subseteq Handler /\ HandlersOK'
BY DEF TypeInv, TypeOK, HandlersOK, Busy

\* So is one that goes on.
LEMMA BecomeType ==
  ASSUME TypeInv, NEW h \in running, NEW new \in Handler, new.id = h.id,
         Become(h, new), used \subseteq used',
         new.op \in Checked => /\ new.pc \in {"grants", "write"}
                               /\ new.user \in User /\ new.cipher \in used,
         new.op = "put" => new.key \in Homes,
         new.op = "create" => FALSE,
         new.op = "share" => new.pc \in {"write", "clear"} /\ new.cipher \in used,
         new.op = "link" => new.pc = "link" /\ new.cipher \in used',
         new.op \in {"purge", "account"} => FALSE,
         new.op = "sync" => new.pc \in {"org", "answer"} /\ new.user \in User
  PROVE  running' \subseteq Handler /\ HandlersOK'
BY DEF TypeInv, TypeOK, HandlersOK, Become

LEMMA EndType ==
  ASSUME TypeInv, NEW h \in running, End(h), used \subseteq used'
  PROVE  running' \subseteq Handler /\ HandlersOK'
BY DEF TypeInv, TypeOK, HandlersOK, End

LEMMA LinkAllType ==
  ASSUME TypeInv, NEW h \in running, NEW c \in Cipher, NEW todo \in SUBSET Collection,
         LinkAll(h, c, todo), used \subseteq used', c \in used'
  PROVE  running' \subseteq Handler /\ HandlersOK'
<1>1. CASE todo = {}
  BY <1>1, EndType DEF LinkAll
<1>2. CASE todo # {}
  <2>. DEFINE new == [Start(h.id, "link", "link") EXCEPT !.cipher = c, !.todo = todo]
  <2>1. h.id \in Request
    BY DEF TypeInv, TypeOK, Handler
  <2>2. /\ new \in Handler /\ new.id = h.id /\ new.op = "link" /\ new.pc = "link"
        /\ new.cipher = c
    BY <2>1 DEF Start, Handler
  <2>3. Become(h, new)
    BY <1>2 DEF LinkAll
  <2>. HIDE DEF new
  <2>. QED BY <2>2, <2>3, BecomeType DEF Checked
<1>. QED BY <1>1, <1>2

-----------------------------------------------------------------------------
(* Rows.                                                                    *)

RowsOK == /\ rows \subseteq Row /\ Uuids \subseteq used
          /\ \A row, other \in rows : row.uuid = other.uuid => row = other

\* A new row under a fresh id.
LEMMA NewType ==
  ASSUME TypeInv, NEW c \in Cipher \ used, NEW x \in Homes,
         rows' = rows \cup {New(c, x)}, used' = used \cup {c}
  PROVE  RowsOK'
<1>1. New(c, x) \in Row /\ New(c, x).uuid = c
  BY DEF New, Row
<1>. QED BY <1>1 DEF RowsOK, TypeInv, TypeOK, Uuids

LEMMA FewerType ==
  ASSUME TypeInv, rows' \subseteq rows, used' = used PROVE RowsOK'
BY DEF RowsOK, TypeInv, TypeOK, Uuids

\* Rows that are written keep their ids.
LEMMA WrittenType ==
  ASSUME TypeInv, used' = used, rows' \subseteq Row,
         \A new \in rows' : \E row \in rows : row.uuid = new.uuid,
         \A new, other \in rows' : new.uuid = other.uuid => new = other
  PROVE  RowsOK'
BY DEF RowsOK, TypeInv, TypeOK, Uuids

LEMMA UpdatedType ==
  ASSUME NEW row \in Row, NEW key \in Homes
  PROVE  /\ Updated(row, key) \in Row /\ Updated(row, key).uuid = row.uuid
         /\ Updated(row, key).home = row.home /\ Updated(row, key).trash = row.trash
         /\ Updated(row, key).data = key /\ Updated(row, key).notes = key
BY DEF Updated, Row

LEMMA SharedType ==
  ASSUME NEW row \in Row
  PROVE  /\ Shared(row) \in Row /\ Shared(row).uuid = row.uuid
         /\ Shared(row).home = Org /\ Shared(row).trash = row.trash
         /\ Shared(row).data = Org /\ Shared(row).notes = row.notes
BY DEF Shared, Row, Homes

\* Each row afterwards was a row before, of the same id, except that new ones
\* have a fresh id; the home changes only to the organization, and only
\* share_cipher changes it.
Sharing(c) == \E h \in running : ShareRow(h) /\ h.cipher = c

RowKept(row, new) == /\ new.uuid = row.uuid
                     /\ new.home = row.home \/ (new.home = Org /\ Sharing(row.uuid))

RowsEffect == \A new \in rows' : \/ new.uuid \notin used
                                 \/ \E row \in rows : RowKept(row, new)

LEMMA UpdateCipherRows ==
  ASSUME TypeInv, NEW h \in running, UpdateCipher(h) PROVE RowsOK' /\ RowsEffect
<1>1. h.key \in Homes
  BY DEF UpdateCipher, TypeInv, HandlersOK
<1>. DEFINE upd(row) == IF row.uuid = h.cipher THEN Updated(row, h.key) ELSE row
<1>2. \A row \in rows : /\ upd(row) \in Row /\ upd(row).uuid = row.uuid
                        /\ upd(row).home = row.home
  BY <1>1, UpdatedType DEF TypeInv, TypeOK
<1>3. rows' = {upd(row) : row \in rows} /\ used' = used
  BY DEF UpdateCipher
<1>. HIDE DEF upd
<1>4. \A new, other \in rows' : new.uuid = other.uuid => new = other
  BY <1>2, <1>3 DEF TypeInv, TypeOK
<1>. QED BY <1>2, <1>3, <1>4, WrittenType DEF RowsEffect, RowKept

LEMMA SetTrashRows ==
  ASSUME TypeInv, NEW h \in running, SetTrash(h) PROVE RowsOK' /\ RowsEffect
<1>1. PICK t \in {"fresh", "no"} :
        rows' = {IF row.uuid = h.cipher THEN [row EXCEPT !.trash = t] ELSE row : row \in rows}
  BY DEF SetTrash
<1>. DEFINE upd(row) == IF row.uuid = h.cipher THEN [row EXCEPT !.trash = t] ELSE row
<1>2. \A row \in rows : /\ upd(row) \in Row /\ upd(row).uuid = row.uuid
                        /\ upd(row).home = row.home
  BY DEF TypeInv, TypeOK, Row
<1>3. rows' = {upd(row) : row \in rows} /\ used' = used
  BY <1>1 DEF SetTrash
<1>. HIDE DEF upd
<1>4. \A new, other \in rows' : new.uuid = other.uuid => new = other
  BY <1>2, <1>3 DEF TypeInv, TypeOK
<1>. QED BY <1>2, <1>3, <1>4, WrittenType DEF RowsEffect, RowKept

LEMMA ShareRowRows ==
  ASSUME TypeInv, NEW h \in running, ShareRow(h) PROVE RowsOK' /\ RowsEffect
<1>. DEFINE upd(row) == IF row.uuid = h.cipher THEN Shared(row) ELSE row
<1>2. \A row \in rows : /\ upd(row) \in Row /\ upd(row).uuid = row.uuid
                        /\ \/ upd(row).home = row.home
                           \/ upd(row).home = Org /\ Sharing(row.uuid)
  BY SharedType DEF TypeInv, TypeOK, Sharing
<1>3. rows' = {upd(row) : row \in rows} /\ used' = used
  BY DEF ShareRow
<1>. HIDE DEF upd
<1>4. \A new, other \in rows' : new.uuid = other.uuid => new = other
  BY <1>2, <1>3 DEF TypeInv, TypeOK
<1>. QED BY <1>2, <1>3, <1>4, WrittenType DEF RowsEffect, RowKept

LEMMA AgeRows == ASSUME TypeInv, Age PROVE RowsOK' /\ RowsEffect
<1>. DEFINE upd(row) == [row EXCEPT !.trash = IF @ = "fresh" THEN "old" ELSE @]
<1>2. \A row \in rows : /\ upd(row) \in Row /\ upd(row).uuid = row.uuid
                        /\ upd(row).home = row.home
  BY DEF TypeInv, TypeOK, Row
<1>3. rows' = {upd(row) : row \in rows} /\ used' = used
  BY DEF Age
<1>. HIDE DEF upd
<1>4. \A new, other \in rows' : new.uuid = other.uuid => new = other
  BY <1>2, <1>3 DEF TypeInv, TypeOK
<1>. QED BY <1>2, <1>3, <1>4, WrittenType DEF RowsEffect, RowKept

\* The statements that write rows.
WritesRows ==
  \/ \E u \in User : PostCipher(u)
  \/ \E h \in running : \/ InsertOrgCipher(h) \/ UpdateCipher(h) \/ SetTrash(h)
                        \/ DeleteRow(h) \/ ShareRow(h) \/ DeleteGoing(h)
  \/ \E x \in Homes : DeleteAllAt(x)
  \/ Age

LEMMA RowsElse == ASSUME [Next]_vars, ~WritesRows PROVE rows' = rows /\ used' = used
<1>1. CASE \E r \in Request \ Busy : Begin(r)
  BY <1>1 DEF Begin, BeginCreate, FindOwnCipher, FindCipher, SyncOwn, PurgeLinks, UnlinkAccount
<1>2. CASE \E h \in running : Step(h)
  BY <1>2 DEF Step, WritesRows, FindMembership, FindGrants, ClearLinks, SetLink,
    SyncMemberships, SyncOrg, Abandon
<1>3. CASE Others
  BY <1>3 DEF Others, WritesRows, SetRole, SetGrant, DropLinksOf
<1>4. CASE UNCHANGED vars
  BY <1>4 DEF vars
<1>. QED BY <1>1, <1>2, <1>3, <1>4 DEF Next

LEMMA RowsStep == ASSUME TypeInv, [Next]_vars PROVE RowsOK' /\ RowsEffect
<1>1. CASE \E u \in User : PostCipher(u)
  <2>1. PICK u \in User, c \in Cipher \ used :
          rows' = rows \cup {New(c, u)} /\ used' = used \cup {c}
    BY <1>1 DEF PostCipher
  <2>. QED BY <2>1, NewType DEF RowsEffect, RowKept, New, Homes
<1>2. CASE \E h \in running : InsertOrgCipher(h)
  <2>1. PICK c \in Cipher \ used :
          rows' = rows \cup {New(c, Org)} /\ used' = used \cup {c}
    BY <1>2 DEF InsertOrgCipher
  <2>. QED BY <2>1, NewType DEF RowsEffect, RowKept, New, Homes
<1>3. CASE \E h \in running : UpdateCipher(h) \/ SetTrash(h) \/ ShareRow(h)
  BY <1>3, UpdateCipherRows, SetTrashRows, ShareRowRows
<1>4. CASE \E h \in running : DeleteRow(h) \/ DeleteGoing(h)
  <2>1. rows' \subseteq rows /\ used' = used
    BY <1>4 DEF DeleteRow, DeleteGoing
  <2>. QED BY <2>1, FewerType DEF RowsEffect, RowKept
<1>5. CASE \E x \in Homes : DeleteAllAt(x)
  <2>1. rows' \subseteq rows /\ used' = used
    BY <1>5 DEF DeleteAllAt
  <2>. QED BY <2>1, FewerType DEF RowsEffect, RowKept
<1>6. CASE Age
  BY <1>6, AgeRows
<1>7. CASE ~WritesRows
  <2>1. rows' = rows /\ used' = used
    BY <1>7, RowsElse
  <2>. QED BY <2>1, FewerType DEF RowsEffect, RowKept
<1>. QED BY <1>1, <1>2, <1>3, <1>4, <1>5, <1>6, <1>7 DEF WritesRows

\* Ids are given out once.
LEMMA UsedGrows == ASSUME [Next]_vars PROVE used \subseteq used'
<1>1. CASE WritesRows
  BY <1>1 DEF WritesRows, PostCipher, InsertOrgCipher, UpdateCipher, SetTrash,
    DeleteRow, ShareRow, DeleteGoing, DeleteAllAt, Age
<1>. QED BY <1>1, RowsElse

-----------------------------------------------------------------------------
(* Type correctness of the rest.                                            *)

LEMMA HandlersBegin ==
  ASSUME TypeInv, NEW r \in Request \ Busy, Begin(r)
  PROVE  running' \subseteq Handler /\ HandlersOK'
<1>0. used' = used
  BY DEF Begin, BeginCreate, FindOwnCipher, FindCipher, SyncOwn, PurgeLinks, UnlinkAccount
<1>1. CASE \E u \in User : BeginCreate(r, u)
  <2>1. running' = running \cup {Start(r, "create", "write")}
    BY <1>1 DEF BeginCreate
  <2>. QED BY <1>0, <2>1, StartType, BeginType DEF Checked
<1>2. CASE \E u \in User : FindOwnCipher(r, u)
  <2>1. PICK u \in User, row \in rows : running' = running \cup
          {[Start(r, "share", "member") EXCEPT !.user = u, !.cipher = row.uuid]}
    BY <1>2 DEF FindOwnCipher, At
  <2>. DEFINE new == [Start(r, "share", "member") EXCEPT !.user = u, !.cipher = row.uuid]
  <2>2. row.uuid \in Cipher /\ row.uuid \in used
    BY DEF TypeInv, TypeOK, Row, Uuids
  <2>3. /\ new \in Handler /\ new.id = r /\ new.op = "share" /\ new.pc = "member"
        /\ new.cipher = row.uuid
    BY <2>2 DEF Start, Handler
  <2>. HIDE DEF new
  <2>4. running' = running \cup {new}
    BY <2>1 DEF new
  <2>. QED BY <1>0, <2>2, <2>3, <2>4, BeginType DEF Checked
<1>3. CASE \E u \in User, op \in Checked : FindCipher(r, u, op)
  <2>1. PICK u \in User, op \in Checked, row \in rows :
          /\ row.home \in {u, Org}
          /\ running' = running \cup
              {[Start(r, op, IF row.home = u THEN "write" ELSE "member") EXCEPT
                  !.user = u, !.cipher = row.uuid,
                  !.key = IF op = "put" THEN row.home ELSE None,
                  !.access = IF row.home = u THEN "whole" ELSE "unknown"]}
    BY <1>3 DEF FindCipher
  <2>. DEFINE new == [Start(r, op, IF row.home = u THEN "write" ELSE "member") EXCEPT
                  !.user = u, !.cipher = row.uuid,
                  !.key = IF op = "put" THEN row.home ELSE None,
                  !.access = IF row.home = u THEN "whole" ELSE "unknown"]
  <2>2. row.uuid \in Cipher /\ row.uuid \in used /\ row.home \in Homes
    BY DEF TypeInv, TypeOK, Row, Uuids
  <2>3. /\ new \in Handler /\ new.id = r /\ new.op = op
        /\ new.pc \in {"member", "write"} /\ new.user = u /\ new.cipher = row.uuid
        /\ op = "put" => new.key \in Homes
    BY <2>2 DEF Start, Handler, Checked
  <2>. HIDE DEF new
  <2>4. running' = running \cup {new}
    BY <2>1 DEF new
  <2>. QED BY <1>0, <2>2, <2>3, <2>4, BeginType DEF Checked
<1>4. CASE \E u \in User : SyncOwn(r, u)
  <2>1. PICK u \in User : running' = running \cup
          {[Start(r, "sync", "member") EXCEPT
              !.user = u, !.found = {row.uuid : row \in At(u)}]}
    BY <1>4 DEF SyncOwn
  <2>. DEFINE new == [Start(r, "sync", "member") EXCEPT
              !.user = u, !.found = {row.uuid : row \in At(u)}]
  <2>2. {row.uuid : row \in At(u)} \in SUBSET Cipher
    BY DEF TypeInv, TypeOK, Row, At
  <2>3. new \in Handler /\ new.id = r /\ new.op = "sync" /\ new.pc = "member" /\ new.user = u
    BY <2>2 DEF Start, Handler
  <2>. HIDE DEF new
  <2>4. running' = running \cup {new}
    BY <2>1 DEF new
  <2>. QED BY <1>0, <2>3, <2>4, BeginType DEF Checked
<1>5. CASE PurgeLinks(r)
  <2>1. running' = running \cup {Start(r, "purge", "rows")}
    BY <1>5 DEF PurgeLinks
  <2>. QED BY <1>0, <2>1, StartType, BeginType DEF Checked
<1>6. CASE \E u \in User : UnlinkAccount(r, u)
  <2>1. PICK u \in User :
          running' = running \cup {[Start(r, "account", "rows") EXCEPT !.user = u]}
    BY <1>6 DEF UnlinkAccount
  <2>. DEFINE new == [Start(r, "account", "rows") EXCEPT !.user = u]
  <2>2. new \in Handler /\ new.id = r /\ new.op = "account" /\ new.pc = "rows"
        /\ new.user = u
    BY DEF Start, Handler
  <2>. HIDE DEF new
  <2>3. running' = running \cup {new}
    BY <2>1 DEF new
  <2>. QED BY <1>0, <2>2, <2>3, BeginType DEF Checked
<1>. QED BY <1>1, <1>2, <1>3, <1>4, <1>5, <1>6 DEF Begin

LEMMA SeenType ==
  ASSUME TypeInv, NEW h \in running
  PROVE  Seen(h) \in {"unknown", "member", "parts", "whole"}
BY DEF Seen, TypeInv, TypeOK, Handler

\* What a handler that only reads becomes.
LEMMA ReadType ==
  ASSUME TypeInv, NEW h \in running, NEW pc \in {"write", "grants"},
         h.op \in Checked \cup {"share"}, h.op = "share" => pc = "write",
         Become(h, [h EXCEPT !.access = Seen(h), !.pc = pc]), used' = used
  PROVE  running' \subseteq Handler /\ HandlersOK'
<1>. DEFINE new == [h EXCEPT !.access = Seen(h), !.pc = pc]
<1>1. /\ new \in Handler /\ new.id = h.id /\ new.op = h.op /\ new.pc = pc
      /\ new.user = h.user /\ new.cipher = h.cipher /\ new.key = h.key
  BY SeenType DEF TypeInv, TypeOK, Handler
<1>2. Become(h, new)
  OBVIOUS
<1>. HIDE DEF new
<1>. QED BY <1>1, <1>2, BecomeType DEF TypeInv, HandlersOK, Checked

LEMMA HandlersStep ==
  ASSUME TypeInv, NEW h \in running, Step(h)
  PROVE  running' \subseteq Handler /\ HandlersOK'
<1>0. /\ h \in Handler /\ h.id \in Request /\ h.todo \subseteq Collection
      /\ used \subseteq Cipher
  BY DEF TypeInv, TypeOK, Handler
<1>1. CASE InsertOrgCipher(h)
  <2>1. PICK c \in Cipher \ used, cs \in SUBSET Collection :
          used' = used \cup {c} /\ LinkAll(h, c, cs)
    BY <1>1 DEF InsertOrgCipher
  <2>. QED BY <2>1, LinkAllType
<1>2. CASE FindMembership(h)
  <2>. DEFINE pc == IF h.op = "share" \/ role[h.user] = "full" THEN "write" ELSE "grants"
  <2>1. h.op \in Checked \cup {"share"}
    BY <1>0, <1>2 DEF FindMembership, TypeInv, HandlersOK, Handler
  <2>2. Become(h, [h EXCEPT !.access = Seen(h), !.pc = pc]) /\ used' = used
    BY <1>2 DEF FindMembership
  <2>3. pc \in {"write", "grants"} /\ (h.op = "share" => pc = "write")
    OBVIOUS
  <2>. HIDE DEF pc
  <2>. QED BY <2>1, <2>2, <2>3, ReadType
<1>3. CASE FindGrants(h)
  <2>1. h.op \in Checked \cup {"share"}
    BY <1>0, <1>3 DEF FindGrants, TypeInv, HandlersOK, Handler
  <2>2. [h EXCEPT !.pc = "write", !.access = Seen(h)]
          = [h EXCEPT !.access = Seen(h), !.pc = "write"]
    BY <1>0 DEF Handler
  <2>3. Become(h, [h EXCEPT !.access = Seen(h), !.pc = "write"]) /\ used' = used
    BY <1>3, <2>2 DEF FindGrants
  <2>. QED BY <2>1, <2>3, ReadType
<1>4. CASE UpdateCipher(h) \/ SetTrash(h) \/ DeleteRow(h) \/ DeleteGoing(h) \/ Abandon(h)
  <2>1. End(h) /\ used' = used
    BY <1>4 DEF UpdateCipher, SetTrash, DeleteRow, DeleteGoing, Abandon
  <2>. QED BY <2>1, EndType
<1>5. CASE ShareRow(h)
  <2>1. PICK cs \in SUBSET Collection : /\ used' = used
          /\ Become(h, [Start(h.id, "share", "clear") EXCEPT !.cipher = h.cipher, !.todo = cs])
    BY <1>5 DEF ShareRow
  <2>. DEFINE new == [Start(h.id, "share", "clear") EXCEPT !.cipher = h.cipher, !.todo = cs]
  <2>2. h.cipher \in used
    BY <1>5 DEF ShareRow, TypeInv, HandlersOK
  <2>3. /\ new \in Handler /\ new.id = h.id /\ new.op = "share" /\ new.pc = "clear"
        /\ new.cipher = h.cipher
    BY <1>0, <2>2 DEF Start, Handler
  <2>4. Become(h, new)
    BY <2>1
  <2>. HIDE DEF new
  <2>. QED BY <2>1, <2>2, <2>3, <2>4, BecomeType DEF Checked
<1>6. CASE ClearLinks(h)
  <2>1. PICK cs \in SUBSET Collection : LinkAll(h, h.cipher, cs) /\ used' = used
    BY <1>6 DEF ClearLinks
  <2>2. h.cipher \in used
    BY <1>6 DEF ClearLinks, TypeInv, HandlersOK, Checked
  <2>. QED BY <1>0, <2>1, <2>2, LinkAllType
<1>7. CASE SetLink(h)
  <2>1. PICK col \in h.todo : LinkAll(h, h.cipher, h.todo \ {col}) /\ used' = used
    BY <1>7 DEF SetLink
  <2>2. h.cipher \in used
    BY <1>0, <1>7 DEF SetLink, TypeInv, HandlersOK, Checked, Handler
  <2>. QED BY <1>0, <2>1, <2>2, LinkAllType
<1>8. CASE SyncMemberships(h)
  <2>. DEFINE pc == IF role[h.user] = "none" THEN "answer" ELSE "org"
           new == [h EXCEPT !.pc = pc]
  <2>1. Become(h, new) /\ used' = used
    BY <1>8 DEF SyncMemberships
  <2>2. /\ new \in Handler /\ new.id = h.id /\ new.op = "sync"
        /\ new.pc \in {"org", "answer"} /\ new.user = h.user
    BY <1>0, <1>8 DEF SyncMemberships, Handler
  <2>. HIDE DEF new
  <2>. QED BY <1>8, <2>1, <2>2, BecomeType DEF SyncMemberships, TypeInv, HandlersOK, Checked
<1>9. CASE SyncOrg(h)
  <2>. DEFINE more == {c \in {row.uuid : row \in At(Org)} : CanRead(h.user, c)}
           new == [h EXCEPT !.pc = "answer", !.found = @ \cup more]
  <2>1. Become(h, new) /\ used' = used
    BY <1>9 DEF SyncOrg
  <2>2. more \subseteq Cipher
    BY DEF TypeInv, TypeOK, Row, At
  <2>. HIDE DEF more
  <2>3. /\ new \in Handler /\ new.id = h.id /\ new.op = "sync"
        /\ new.pc = "answer" /\ new.user = h.user
    BY <1>0, <1>9, <2>2 DEF SyncOrg, Handler
  <2>. HIDE DEF new
  <2>. QED BY <1>9, <2>1, <2>3, BecomeType DEF SyncOrg, TypeInv, HandlersOK, Checked
<1>. QED BY <1>1, <1>2, <1>3, <1>4, <1>5, <1>6, <1>7, <1>8, <1>9 DEF Step

LEMMA HandlersNext == ASSUME TypeInv, [Next]_vars PROVE running' \subseteq Handler /\ HandlersOK'
<1>1. CASE \E r \in Request \ Busy : Begin(r)
  BY <1>1, HandlersBegin
<1>2. CASE \E h \in running : Step(h)
  BY <1>2, HandlersStep
<1>3. CASE Others \/ UNCHANGED vars
  <2>1. running' = running
    BY <1>3 DEF Others, PostCipher, SetRole, SetGrant, DeleteAllAt, DropLinksOf, Age, vars
  <2>. QED BY <2>1, UsedGrows DEF TypeInv, TypeOK, HandlersOK
<1>. QED BY <1>1, <1>2, <1>3 DEF Next

\* The links, memberships and grants.
LEMMA TablesNext ==
  ASSUME TypeInv, [Next]_vars
  PROVE  links' \subseteq Link /\ grants' \subseteq Grant /\ role' \in [User -> Roles]
<1>. USE DEF TypeInv, TypeOK
<1>1. CASE \E r \in Request \ Busy : Begin(r)
  BY <1>1 DEF Begin, BeginCreate, FindOwnCipher, FindCipher, SyncOwn, PurgeLinks, UnlinkAccount
<1>2. CASE \E h \in running : SetLink(h)
  <2>1. PICK h \in running : SetLink(h)
    BY <1>2
  <2>2. PICK col \in h.todo : links' = links \cup {[cipher |-> h.cipher, col |-> col]}
    BY <2>1 DEF SetLink
  <2>3. h.cipher \in Cipher /\ col \in Collection
    BY <2>1, <2>2 DEF SetLink, HandlersOK, Handler, Checked
  <2>. QED BY <2>1, <2>2, <2>3 DEF SetLink, Link
<1>3. CASE \E h \in running : Step(h) /\ ~SetLink(h)
  BY <1>3 DEF Step, InsertOrgCipher, FindMembership, FindGrants, UpdateCipher, SetTrash,
    DeleteRow, ShareRow, ClearLinks, DeleteGoing, SyncMemberships, SyncOrg, Abandon
<1>4. CASE \E u \in User : SetRole(u)
  BY <1>4 DEF SetRole
<1>5. CASE \E u \in User, col \in Collection : SetGrant(u, col)
  BY <1>5 DEF SetGrant, Grant
<1>6. CASE \E col \in Collection : DropLinksOf(col)
  BY <1>6 DEF DropLinksOf
<1>7. CASE (\E u \in User : PostCipher(u)) \/ (\E x \in Homes : DeleteAllAt(x)) \/ Age
  BY <1>7 DEF PostCipher, DeleteAllAt, Age
<1>8. CASE UNCHANGED vars
  BY <1>8 DEF vars
<1>. QED BY <1>1, <1>2, <1>3, <1>4, <1>5, <1>6, <1>7, <1>8 DEF Next, Others

\* What only the properties read.
LEMMA HistoryNext ==
  ASSUME TypeInv, [Next]_vars
  PROVE  /\ used' \subseteq Cipher /\ crossed' \subseteq Cipher
         /\ kept' \subseteq Cipher /\ torn' \subseteq Cipher
         /\ asked' \in [Cipher -> SUBSET Collection]
         /\ steady' \in [Request -> SUBSET Cipher]
<1>. USE DEF TypeInv, TypeOK
<1>1. steady' \in [Request -> SUBSET Cipher]
  BY DEF Next, Watch, vars
<1>2. \A h \in running : h.op = "share" \/ h.pc \in {"clear", "link"} \/ h.op \in Checked
                           => h.cipher \in Cipher
  BY DEF HandlersOK, Handler
<1>3. Doomed \subseteq Cipher /\ \A h \in running : {row.uuid : row \in Going(h)} \subseteq Cipher
  BY DEF Doomed, Going, At, Row
<1>4. CASE \E r \in Request \ Busy : Begin(r)
  <2>1. CASE \E r \in Request : PurgeLinks(r)
    <3>1. {row.uuid : row \in {x \in rows : x.trash = "old"}} \subseteq Cipher
      BY DEF Row
    <3>. QED BY <1>1, <2>1, <3>1 DEF PurgeLinks
  <2>2. CASE \E r \in Request, u \in User : UnlinkAccount(r, u)
    <3>1. \A u \in User : {row.uuid : row \in At(u)} \subseteq Cipher
      BY DEF Row, At
    <3>. QED BY <1>1, <2>2, <3>1 DEF UnlinkAccount
  <2>3. CASE ~ \E r \in Request : PurgeLinks(r) \/ \E u \in User : UnlinkAccount(r, u)
    BY <1>1, <1>4, <2>3 DEF Begin, BeginCreate, FindOwnCipher, FindCipher, SyncOwn
  <2>. QED BY <2>1, <2>2, <2>3
<1>5. CASE \E h \in running : Step(h)
  <2>1. PICK h \in running : Step(h)
    BY <1>5
  <2>2. CASE InsertOrgCipher(h)
    BY <1>1, <2>2 DEF InsertOrgCipher
  <2>3. CASE ShareRow(h)
    BY <1>1, <1>2, <2>3 DEF ShareRow
  <2>4. CASE ClearLinks(h)
    BY <1>1, <1>2, <2>4 DEF ClearLinks, Checked
  <2>5. CASE SetTrash(h) \/ Abandon(h) \/ UpdateCipher(h)
    BY <1>1, <1>2, <1>3, <2>5 DEF SetTrash, Abandon, UpdateCipher
  <2>6. CASE \/ FindMembership(h) \/ FindGrants(h) \/ DeleteRow(h) \/ SetLink(h)
             \/ DeleteGoing(h) \/ SyncMemberships(h) \/ SyncOrg(h)
    BY <1>1, <2>6 DEF FindMembership, FindGrants, DeleteRow, SetLink, DeleteGoing,
      SyncMemberships, SyncOrg
  <2>. QED BY <2>1, <2>2, <2>3, <2>4, <2>5, <2>6 DEF Step
<1>6. CASE \E col \in Collection : DropLinksOf(col)
  BY <1>1, <1>6 DEF DropLinksOf
<1>7. CASE Others /\ ~ \E col \in Collection : DropLinksOf(col)
  BY <1>1, <1>7 DEF Others, PostCipher, SetRole, SetGrant, DeleteAllAt, Age
<1>8. CASE UNCHANGED vars
  BY <1>1, <1>8 DEF vars
<1>. QED BY <1>4, <1>5, <1>6, <1>7, <1>8 DEF Next

LEMMA TypeInit == Init => TypeInv
BY DEF Init, TypeInv, TypeOK, HandlersOK, Uuids, Roles

LEMMA TypeNext == TypeInv /\ [Next]_vars => TypeInv'
BY RowsStep, HandlersNext, TablesNext, HistoryNext DEF TypeInv, TypeOK, RowsOK

LEMMA TypeInvariant == Spec => []TypeInv
BY TypeInit, TypeNext, PTL DEF Spec

\* Rows, links and handlers stay well formed, and the id of a cipher is never
\* given to another.
THEOREM TypeCorrect == Spec => []TypeOK
BY TypeInvariant, PTL DEF TypeInv

-----------------------------------------------------------------------------
(* Handlers that go on keep what they began with; only share_cipher becomes  *)
(* another kind of handler, and all links are inserted as "link".           *)

Same(old, new) == /\ new.id = old.id /\ new.op = old.op /\ new.user = old.user
                  /\ new.cipher = old.cipher /\ new.key = old.key

LEMMA LinkAllContinues ==
  ASSUME NEW h \in running, NEW c, NEW todo, LinkAll(h, c, todo),
         NEW new \in running'
  PROVE  new \in running \/ new.op = "link"
BY DEF LinkAll, End, Become, Start

LEMMA Continues ==
  ASSUME TypeInv, NEW h \in running, Step(h), NEW new \in running'
  PROVE  new \in running \/ Same(h, new) \/ new.op \in {"share", "link"}
<1>0. h \in Handler
  BY DEF TypeInv, TypeOK
<1>1. CASE InsertOrgCipher(h) \/ ClearLinks(h) \/ SetLink(h)
  BY <1>1, LinkAllContinues DEF InsertOrgCipher, ClearLinks, SetLink
<1>2. CASE FindMembership(h) \/ FindGrants(h) \/ SyncMemberships(h) \/ SyncOrg(h)
  <2>1. SUFFICES ASSUME new \notin running PROVE Same(h, new)
    OBVIOUS
  <2>2. CASE FindMembership(h)
    <3>1. PICK pc : new = [h EXCEPT !.access = Seen(h), !.pc = pc]
      BY <2>1, <2>2 DEF FindMembership, Become
    <3>. QED BY <1>0, <3>1 DEF Same, Handler
  <2>3. CASE FindGrants(h)
    <3>1. new = [h EXCEPT !.pc = "write", !.access = Seen(h)]
      BY <2>1, <2>3 DEF FindGrants, Become
    <3>. QED BY <1>0, <3>1 DEF Same, Handler
  <2>4. CASE SyncMemberships(h)
    <3>1. PICK pc : new = [h EXCEPT !.pc = pc]
      BY <2>1, <2>4 DEF SyncMemberships, Become
    <3>. QED BY <1>0, <3>1 DEF Same, Handler
  <2>5. CASE SyncOrg(h)
    <3>1. PICK more : new = [h EXCEPT !.pc = "answer", !.found = more]
      BY <2>1, <2>5 DEF SyncOrg, Become
    <3>. QED BY <1>0, <3>1 DEF Same, Handler
  <2>. QED BY <1>2, <2>2, <2>3, <2>4, <2>5
<1>3. CASE UpdateCipher(h) \/ SetTrash(h) \/ DeleteRow(h) \/ DeleteGoing(h) \/ Abandon(h)
  BY <1>3 DEF UpdateCipher, SetTrash, DeleteRow, DeleteGoing, Abandon, End
<1>4. CASE ShareRow(h)
  BY <1>4 DEF ShareRow, Become, Start
<1>. QED BY <1>1, <1>2, <1>3, <1>4 DEF Step

LEMMA FindCipherBegins ==
  ASSUME NEW r \in Request, NEW u \in User, NEW op \in Checked,
         FindCipher(r, u, op), NEW new \in running' \ running
  PROVE  \E row \in rows :
           /\ new.op = op /\ new.user = u /\ new.cipher = row.uuid
           /\ op = "put" => new.key = row.home
           /\ \/ row.home = u /\ new.pc = "write" /\ new.access = "whole"
              \/ row.home = Org /\ new.pc = "member"
BY DEF FindCipher, Start

LEMMA SyncOwnBegins ==
  ASSUME NEW r \in Request, NEW u \in User, SyncOwn(r, u), NEW new \in running' \ running
  PROVE  /\ new.op = "sync" /\ new.user = u /\ new.pc = "member"
         /\ new.found = {row.uuid : row \in At(u)}
BY DEF SyncOwn, Start

LEMMA RestBegin ==
  ASSUME NEW r \in Request, NEW new \in running' \ running,
         \/ \E u \in User : BeginCreate(r, u) \/ FindOwnCipher(r, u) \/ UnlinkAccount(r, u)
         \/ PurgeLinks(r)
  PROVE  new.op \in {"create", "share", "purge", "account"}
<1>1. CASE \E u \in User : BeginCreate(r, u)
  BY <1>1 DEF BeginCreate, Start
<1>2. CASE \E u \in User : FindOwnCipher(r, u)
  BY <1>2 DEF FindOwnCipher, Start
<1>3. CASE PurgeLinks(r)
  BY <1>3 DEF PurgeLinks, Start
<1>4. CASE \E u \in User : UnlinkAccount(r, u)
  BY <1>4 DEF UnlinkAccount, Start
<1>. QED BY <1>1, <1>2, <1>3, <1>4

LEMMA OthersRun == ASSUME Others \/ UNCHANGED vars PROVE running' = running
BY DEF Others, PostCipher, SetRole, SetGrant, DeleteAllAt, DropLinksOf, Age, vars

-----------------------------------------------------------------------------
(* Keys.  A put carries the key of the home its cipher has, unless the       *)
(* cipher was shared since it was read.                                     *)

PutsFit ==
  \A row \in rows, h \in running :
    h.op = "put" /\ h.cipher = row.uuid /\ row.uuid \notin crossed => h.key = row.home

KeysInv == TypeInv /\ KeysExplained /\ PutsFit

LEMMA CrossedGrows ==
  ASSUME [Next]_vars
  PROVE  /\ crossed \subseteq crossed'
         /\ \A c : Sharing(c) /\ c \notin crossed' =>
                 ~ \E g \in running : g.op = "put" /\ g.cipher = c
<1>1. crossed \subseteq crossed'
  <2>1. CASE \E r \in Request \ Busy : Begin(r)
    BY <2>1 DEF Begin, BeginCreate, FindOwnCipher, FindCipher, SyncOwn, PurgeLinks, UnlinkAccount
  <2>2. CASE \E h \in running : Step(h)
    BY <2>2 DEF Step, InsertOrgCipher, FindMembership, FindGrants, UpdateCipher, SetTrash,
      DeleteRow, ShareRow, ClearLinks, SetLink, DeleteGoing, SyncMemberships, SyncOrg, Abandon
  <2>3. CASE Others \/ UNCHANGED vars
    BY <2>3 DEF Others, PostCipher, SetRole, SetGrant, DeleteAllAt, DropLinksOf, Age, vars
  <2>. QED BY <2>1, <2>2, <2>3 DEF Next
<1>2. ASSUME NEW c, Sharing(c), c \notin crossed'
      PROVE  ~ \E g \in running : g.op = "put" /\ g.cipher = c
  BY <1>2 DEF Sharing, ShareRow
<1>. QED BY <1>1, <1>2

LEMMA PutsFitNext == ASSUME KeysInv, [Next]_vars PROVE PutsFit'
<1>. SUFFICES ASSUME NEW new \in rows', NEW g \in running', g.op = "put",
                     g.cipher = new.uuid, new.uuid \notin crossed'
              PROVE  g.key = new.home
  BY DEF PutsFit
<1>0. TypeInv
  BY DEF KeysInv
<1>1. CASE \E h \in running : Same(h, g)
  <2>1. PICK h \in running : Same(h, g)
    BY <1>1
  <2>2. h.op = "put" /\ h.cipher = new.uuid /\ h.cipher \in used /\ h.key = g.key
    BY <1>0, <2>1 DEF Same, TypeInv, HandlersOK, Checked
  <2>3. PICK row \in rows : RowKept(row, new)
    BY <1>0, <2>2, RowsStep DEF RowsEffect
  <2>4. new.home = row.home
    BY <2>2, <2>3, CrossedGrows DEF RowKept
  <2>. QED BY <2>2, <2>3, <2>4, CrossedGrows DEF KeysInv, PutsFit, RowKept
<1>2. CASE \E r \in Request \ Busy : Begin(r) /\ g \notin running
  <2>1. PICK r \in Request, u \in User, op \in Checked : FindCipher(r, u, op)
    BY <1>2, RestBegin, SyncOwnBegins DEF Begin
  <2>2. PICK row \in rows : g.cipher = row.uuid /\ g.key = row.home
    BY <1>2, <2>1, FindCipherBegins
  <2>. QED BY <1>0, <2>1, <2>2 DEF FindCipher, TypeInv, TypeOK
<1>3. g \in running \/ (\E h \in running : Same(h, g)) \/ \E r \in Request \ Busy : Begin(r)
  BY <1>0, Continues, OthersRun DEF Next
<1>. QED BY <1>1, <1>2, <1>3 DEF Same

LEMMA KeysNext == ASSUME KeysInv, [Next]_vars PROVE KeysExplained'
<1>. USE DEF KeysInv, TypeInv, TypeOK
<1>1. CASE \E u \in User : PostCipher(u)
  BY <1>1 DEF PostCipher, KeysExplained, New
<1>2. CASE \E h \in running : InsertOrgCipher(h)
  BY <1>2 DEF InsertOrgCipher, KeysExplained, New
<1>3. CASE \E h \in running : UpdateCipher(h)
  <2>1. PICK h \in running : UpdateCipher(h)
    BY <1>3
  <2>2. h.op = "put" /\ h.key \in Homes
    BY <2>1 DEF UpdateCipher, HandlersOK
  <2>3. ASSUME NEW new \in rows', new.uuid \notin crossed'
        PROVE  new.data = new.home /\ (new.uuid \notin kept' => new.notes = new.home)
    <3>1. PICK row \in rows :
            new = IF row.uuid = h.cipher THEN Updated(row, h.key) ELSE row
      BY <2>1, <2>3 DEF UpdateCipher
    <3>2. CASE row.uuid = h.cipher
      BY <2>1, <2>2, <2>3, <3>1, <3>2, UpdatedType DEF UpdateCipher, PutsFit
    <3>3. CASE row.uuid # h.cipher
      BY <2>1, <2>3, <3>1, <3>3 DEF UpdateCipher, KeysExplained
    <3>. QED BY <3>2, <3>3
  <2>. QED BY <2>3 DEF KeysExplained
<1>4. CASE \E h \in running : ShareRow(h)
  <2>1. PICK h \in running : ShareRow(h)
    BY <1>4
  <2>2. ASSUME NEW new \in rows', new.uuid \notin crossed'
        PROVE  new.data = new.home /\ (new.uuid \notin kept' => new.notes = new.home)
    <3>1. PICK row \in rows : new = IF row.uuid = h.cipher THEN Shared(row) ELSE row
      BY <2>1, <2>2 DEF ShareRow
    <3>2. CASE row.uuid = h.cipher
      BY <2>1, <3>1, <3>2, SharedType DEF ShareRow
    <3>3. CASE row.uuid # h.cipher
      BY <2>1, <2>2, <3>1, <3>3 DEF ShareRow, KeysExplained
    <3>. QED BY <3>2, <3>3
  <2>. QED BY <2>2 DEF KeysExplained
<1>5. CASE (\E h \in running : SetTrash(h)) \/ Age
  <2>1. \A new \in rows' : \E row \in rows :
          /\ new.uuid = row.uuid /\ new.home = row.home
          /\ new.data = row.data /\ new.notes = row.notes
    BY <1>5 DEF SetTrash, Age, Row
  <2>. QED BY <1>5, <2>1 DEF SetTrash, Age, KeysExplained
<1>6. CASE (\E h \in running : DeleteRow(h) \/ DeleteGoing(h)) \/ \E x \in Homes : DeleteAllAt(x)
  BY <1>6 DEF DeleteRow, DeleteGoing, DeleteAllAt, KeysExplained
<1>7. CASE ~WritesRows
  <2>1. rows' = rows
    BY <1>7, RowsElse
  <2>2. kept' = kept
    <3>1. CASE \E r \in Request \ Busy : Begin(r)
      BY <3>1 DEF Begin, BeginCreate, FindOwnCipher, FindCipher, SyncOwn, PurgeLinks, UnlinkAccount
    <3>2. CASE \E h \in running : Step(h)
      BY <1>7, <3>2 DEF WritesRows, Step, FindMembership, FindGrants, ClearLinks, SetLink,
        SyncMemberships, SyncOrg, Abandon
    <3>3. CASE Others \/ UNCHANGED vars
      BY <1>7, <3>3 DEF WritesRows, Others, SetRole, SetGrant, DropLinksOf, vars
    <3>. QED BY <3>1, <3>2, <3>3 DEF Next
  <2>. QED BY <2>1, <2>2, CrossedGrows DEF KeysExplained
<1>. QED BY <1>1, <1>2, <1>3, <1>4, <1>5, <1>6, <1>7 DEF WritesRows

\* A cipher can be decrypted with the key of its home, unless it was shared
\* during an update, but its notes and fields only after an update at home.
THEOREM KeysExplainedAlways == Spec => []KeysExplained
<1>1. Init => KeysInv
  BY TypeInit DEF Init, KeysInv, KeysExplained, PutsFit
<1>2. KeysInv /\ [Next]_vars => KeysInv'
  BY TypeNext, PutsFitNext, KeysNext DEF KeysInv
<1>. QED BY <1>1, <1>2, PTL DEF Spec, KeysInv

-----------------------------------------------------------------------------
(* Ciphers implements Vault: each statement on a row is a step of Vault or   *)
(* changes neither homes nor the trash.                                     *)

Home == [c \in Cipher |-> HomeOf(c)]
Trash == {row.uuid : row \in {x \in rows : x.trash # "no"}}

LEMMA HomeIs ==
  ASSUME RowsOK
  PROVE  /\ \A row \in rows : HomeOf(row.uuid) = row.home
         /\ \A c \in used \ Uuids : HomeOf(c) = "gone"
         /\ \A c \in Cipher \ used : HomeOf(c) = None
BY DEF RowsOK, HomeOf, Uuids

LEMMA HomeIsNext ==
  ASSUME RowsOK'
  PROVE  /\ \A row \in rows' : HomeOf(row.uuid)' = row.home
         /\ \A c \in used' \ Uuids' : HomeOf(c)' = "gone"
         /\ \A c \in Cipher \ used' : HomeOf(c)' = None
BY DEF RowsOK, HomeOf, Uuids

\* Every row of c is found again where it was, and no other.
LEMMA HomeStays ==
  ASSUME RowsOK, RowsOK', NEW c \in Cipher, c \in used' <=> c \in used,
         \A row \in rows : row.uuid = c =>
           \E new \in rows' : new.uuid = c /\ new.home = row.home,
         \A new \in rows' : new.uuid = c => \E row \in rows : row.uuid = c
  PROVE  HomeOf(c)' = HomeOf(c)
<1>1. CASE c \in Uuids
  <2>1. PICK row \in rows : row.uuid = c
    BY <1>1 DEF Uuids
  <2>2. PICK new \in rows' : new.uuid = c /\ new.home = row.home
    BY <2>1
  <2>. QED BY <2>1, <2>2, HomeIs, HomeIsNext
<1>2. CASE c \notin Uuids
  <2>1. c \notin Uuids'
    BY <1>2 DEF Uuids
  <2>. QED BY <1>2, <2>1, HomeIs, HomeIsNext
<1>. QED BY <1>1, <1>2

\* A row inserted under a fresh id.
LEMMA CreateVault ==
  ASSUME TypeInv, RowsOK', NEW c \in Cipher \ used, NEW x \in Homes,
         rows' = rows \cup {New(c, x)}, used' = used \cup {c}
  PROVE  V!Create(c, x)
<1>0. RowsOK /\ New(c, x).uuid = c /\ New(c, x).home = x /\ New(c, x).trash = "no"
  BY DEF TypeInv, TypeOK, RowsOK, New
<1>1. HomeOf(c) = None /\ HomeOf(c)' = x
  BY <1>0, HomeIs, HomeIsNext
<1>2. \A d \in Cipher \ {c} : HomeOf(d)' = HomeOf(d)
  BY <1>0, HomeStays
<1>3. Home' = [Home EXCEPT ![c] = x]
  BY <1>1, <1>2 DEF Home
<1>4. Trash' = Trash
  BY <1>0 DEF Trash
<1>5. Home[c] = None
  BY <1>1 DEF Home
<1>. QED BY <1>3, <1>4, <1>5 DEF V!Create, Home, Trash

\* Rows deleted together, which are what Vault may delete together.
LEMMA DeleteVault ==
  ASSUME TypeInv, RowsOK', NEW gone \in SUBSET Cipher, used' = used,
         rows' = {row \in rows : row.uuid \notin gone},
         \/ \E c \in Uuids : gone = {c}
         \/ \E x \in Homes : gone = {row.uuid : row \in At(x)}
         \/ gone \subseteq Trash
  PROVE  V!Delete(gone)
<1>0. RowsOK
  BY DEF TypeInv, TypeOK, RowsOK
<1>1. gone \subseteq Uuids
  BY DEF At, Trash, Uuids
<1>2. \A c \in gone : HomeOf(c)' = "gone"
  BY <1>0, <1>1, HomeIsNext DEF RowsOK, Uuids
<1>3. \A c \in Cipher \ gone : HomeOf(c)' = HomeOf(c)
  BY <1>0, HomeStays
<1>4. Home' = [c \in Cipher |-> IF c \in gone THEN "gone" ELSE Home[c]]
  BY <1>2, <1>3 DEF Home
<1>5. Trash' = Trash \ gone
  BY DEF Trash
<1>6. \A c \in Uuids : c \in Cipher /\ Home[c] \in Homes
  BY <1>0, HomeIs DEF RowsOK, Uuids, Home, Row
<1>7. ASSUME NEW x \in Homes
      PROVE  {row.uuid : row \in At(x)} = {c \in Cipher : Home[c] = x}
  <2>1. \A c \in Cipher : Home[c] = x => c \in Uuids
    BY <1>0, HomeIs, HomeAssumption DEF Home, Homes
  <2>. QED BY <1>0, <2>1, HomeIs DEF At, Uuids, Home, RowsOK, Row
<1>8. \/ \E c \in Cipher : gone = {c} /\ Home[c] \in Homes
      \/ \E x \in Homes : gone = {c \in Cipher : Home[c] = x}
      \/ gone \subseteq Trash
  BY <1>6, <1>7
<1>. QED BY <1>4, <1>5, <1>8 DEF V!Delete, V!Homes, V!At, Homes, Home, Trash

\* Rows written in place that keep their homes.
LEMMA HomesStay ==
  ASSUME TypeInv, RowsOK', used' = used,
         \A row \in rows : \E new \in rows' : new.uuid = row.uuid /\ new.home = row.home,
         \A new \in rows' : \E row \in rows : new.uuid = row.uuid
  PROVE  Home' = Home
<1>1. RowsOK
  BY DEF TypeInv, TypeOK, RowsOK
<1>2. \A c \in Cipher : HomeOf(c)' = HomeOf(c)
  BY <1>1, HomeStays
<1>. QED BY <1>2 DEF Home

LEMMA SetTrashVault ==
  ASSUME TypeInv, RowsOK', NEW h \in running, SetTrash(h)
  PROVE  [V!Next]_V!vars
<1>1. PICK t \in {"fresh", "no"} :
        rows' = {IF row.uuid = h.cipher THEN [row EXCEPT !.trash = t] ELSE row : row \in rows}
  BY DEF SetTrash
<1>. DEFINE upd(row) == IF row.uuid = h.cipher THEN [row EXCEPT !.trash = t] ELSE row
<1>2. \A row \in rows :
        /\ upd(row).uuid = row.uuid /\ upd(row).home = row.home
        /\ upd(row).trash = IF row.uuid = h.cipher THEN t ELSE row.trash
  BY DEF TypeInv, TypeOK, Row
<1>3. rows' = {upd(row) : row \in rows} /\ used' = used
  BY <1>1 DEF SetTrash
<1>. HIDE DEF upd
<1>4. Home' = Home
  BY <1>2, <1>3, HomesStay
<1>5. CASE h.cipher \notin Uuids
  <2>1. Trash' = Trash
    BY <1>2, <1>3, <1>5 DEF Trash, Uuids
  <2>. QED BY <1>4, <2>1 DEF V!vars, Home, Trash
<1>6. CASE h.cipher \in Uuids
  <2>1. PICK row \in rows : row.uuid = h.cipher
    BY <1>6 DEF Uuids
  <2>2. h.cipher \in Cipher /\ Home[h.cipher] \in Homes
    BY <2>1, HomeIs DEF TypeInv, TypeOK, RowsOK, Row, Home
  <2>3. CASE t = "fresh"
    <3>1. Trash' = Trash \cup {h.cipher}
      BY <1>2, <1>3, <2>1, <2>3 DEF Trash
    <3>2. V!MoveToTrash(h.cipher)
      BY <1>4, <2>2, <3>1 DEF V!MoveToTrash, V!Homes, Homes, Home, Trash
    <3>. QED BY <2>2, <3>2 DEF V!Next
  <2>4. CASE t = "no"
    <3>1. Trash' = Trash \ {h.cipher}
      BY <1>2, <1>3, <2>4 DEF Trash
    <3>2. V!Restore(h.cipher)
      BY <1>4, <3>1 DEF V!Restore, Home, Trash
    <3>. QED BY <2>2, <3>2 DEF V!Next
  <2>. QED BY <2>3, <2>4
<1>. QED BY <1>5, <1>6

LEMMA ShareRowVault ==
  ASSUME TypeInv, RowsOK', NEW h \in running, ShareRow(h)
  PROVE  [V!Next]_V!vars
<1>. DEFINE upd(row) == IF row.uuid = h.cipher THEN Shared(row) ELSE row
<1>1. \A row \in rows :
        /\ upd(row).uuid = row.uuid /\ upd(row).trash = row.trash
        /\ upd(row).home = IF row.uuid = h.cipher THEN Org ELSE row.home
  BY SharedType DEF TypeInv, TypeOK
<1>2. rows' = {upd(row) : row \in rows} /\ used' = used
  BY DEF ShareRow
<1>. HIDE DEF upd
<1>3. Trash' = Trash
  BY <1>1, <1>2 DEF Trash
<1>4. CASE \E row \in rows : row.uuid = h.cipher /\ row.home # Org
  <2>1. PICK row \in rows : row.uuid = h.cipher /\ row.home # Org
    BY <1>4
  <2>2. RowsOK
    BY DEF TypeInv, TypeOK, RowsOK
  <2>3. h.cipher \in Cipher /\ HomeOf(h.cipher) \in User
    BY <2>1, <2>2, HomeIs DEF RowsOK, Row, Homes
  <2>4. HomeOf(h.cipher)' = Org
    BY <1>1, <1>2, <2>1, HomeIsNext
  <2>5. \A d \in Cipher \ {h.cipher} : HomeOf(d)' = HomeOf(d)
    BY <1>1, <1>2, <2>2, HomeStays
  <2>6. Home' = [Home EXCEPT ![h.cipher] = Org] /\ Home[h.cipher] \in User
    BY <2>3, <2>4, <2>5 DEF Home
  <2>7. V!Share(h.cipher)
    BY <1>3, <2>6 DEF V!Share, Home, Trash
  <2>. QED BY <2>3, <2>7 DEF V!Next
<1>5. CASE \A row \in rows : row.uuid = h.cipher => row.home = Org
  <2>1. Home' = Home
    BY <1>1, <1>2, <1>5, HomesStay
  <2>. QED BY <1>3, <2>1 DEF V!vars, Home, Trash
<1>. QED BY <1>4, <1>5

LEMMA VaultStep == ASSUME TypeInv, [Next]_vars PROVE [V!Next]_V!vars
<1>0. RowsOK'
  BY RowsStep
<1>1. CASE \E u \in User : PostCipher(u)
  <2>1. PICK u \in User, c \in Cipher \ used :
          rows' = rows \cup {New(c, u)} /\ used' = used \cup {c}
    BY <1>1 DEF PostCipher
  <2>2. V!Create(c, u)
    BY <1>0, <2>1, CreateVault DEF Homes
  <2>. QED BY <2>2 DEF V!Next, V!Homes
<1>2. CASE \E h \in running : InsertOrgCipher(h)
  <2>1. PICK c \in Cipher \ used :
          rows' = rows \cup {New(c, Org)} /\ used' = used \cup {c}
    BY <1>2 DEF InsertOrgCipher
  <2>2. V!Create(c, Org)
    BY <1>0, <2>1, CreateVault DEF Homes
  <2>. QED BY <2>2 DEF V!Next, V!Homes
<1>3. CASE \E h \in running : UpdateCipher(h)
  <2>1. PICK h \in running : UpdateCipher(h)
    BY <1>3
  <2>. DEFINE upd(row) == IF row.uuid = h.cipher THEN Updated(row, h.key) ELSE row
  <2>2. \A row \in rows : /\ upd(row).uuid = row.uuid /\ upd(row).home = row.home
                          /\ upd(row).trash = row.trash
    BY <2>1, UpdatedType DEF UpdateCipher, TypeInv, TypeOK, HandlersOK
  <2>3. rows' = {upd(row) : row \in rows} /\ used' = used
    BY <2>1 DEF UpdateCipher
  <2>. HIDE DEF upd
  <2>4. Home' = Home /\ Trash' = Trash
    BY <1>0, <2>2, <2>3, HomesStay DEF Trash
  <2>. QED BY <2>4 DEF V!vars, Home, Trash
<1>4. CASE \E h \in running : SetTrash(h) \/ ShareRow(h)
  BY <1>0, <1>4, SetTrashVault, ShareRowVault
<1>5. CASE \E h \in running : DeleteRow(h)
  <2>1. PICK h \in running : DeleteRow(h)
    BY <1>5
  <2>2. rows' = {row \in rows : row.uuid \notin {h.cipher}} /\ used' = used
    BY <2>1 DEF DeleteRow
  <2>3. CASE h.cipher \in Uuids
    <3>1. {h.cipher} \in SUBSET Cipher
      BY <2>3 DEF TypeInv, TypeOK
    <3>2. V!Delete({h.cipher})
      BY <1>0, <2>2, <2>3, <3>1, DeleteVault
    <3>. QED BY <3>1, <3>2 DEF V!Next
  <2>4. CASE h.cipher \notin Uuids
    <3>1. rows' = rows
      BY <2>2, <2>4 DEF Uuids
    <3>2. Home' = Home /\ Trash' = Trash
      BY <1>0, <2>2, <3>1, HomesStay DEF Trash
    <3>. QED BY <3>2 DEF V!vars, Home, Trash
  <2>. QED BY <2>3, <2>4
<1>6. CASE \E h \in running : DeleteGoing(h)
  <2>1. PICK h \in running : DeleteGoing(h)
    BY <1>6
  <2>2. PICK gone \in SUBSET Cipher : gone = {row.uuid : row \in Going(h)}
    BY DEF TypeInv, TypeOK, Row, Going, At
  <2>3. rows' = {row \in rows : row.uuid \notin gone} /\ used' = used
    BY <2>1, <2>2 DEF DeleteGoing, Going, At, TypeInv, TypeOK
  <2>4. gone \subseteq Trash \/ \E x \in Homes : gone = {row.uuid : row \in At(x)}
    <3>1. CASE h.op = "purge"
      BY <2>2, <3>1 DEF Trash, Going
    <3>2. CASE h.op = "account"
      <4>1. h.user \in User
        BY <3>2 DEF TypeInv, HandlersOK
      <4>. QED BY <2>2, <3>2, <4>1 DEF Going, Homes
    <3>. QED BY <2>1, <3>1, <3>2 DEF DeleteGoing
  <2>5. V!Delete(gone)
    BY <1>0, <2>3, <2>4, DeleteVault
  <2>. QED BY <2>5 DEF V!Next
<1>7. CASE \E x \in Homes : DeleteAllAt(x)
  <2>1. PICK x \in Homes : DeleteAllAt(x)
    BY <1>7
  <2>2. PICK gone \in SUBSET Cipher : gone = {row.uuid : row \in At(x)}
    BY DEF TypeInv, TypeOK, Row, At
  <2>3. rows' = {row \in rows : row.uuid \notin gone} /\ used' = used
    BY <2>1, <2>2 DEF DeleteAllAt, At, TypeInv, TypeOK
  <2>4. V!Delete(gone)
    BY <1>0, <2>2, <2>3, DeleteVault
  <2>. QED BY <2>4 DEF V!Next
<1>8. CASE Age
  <2>. DEFINE upd(row) == [row EXCEPT !.trash = IF @ = "fresh" THEN "old" ELSE @]
  <2>1. \A row \in rows : /\ upd(row).uuid = row.uuid /\ upd(row).home = row.home
                          /\ upd(row).trash = "no" <=> row.trash = "no"
    BY DEF TypeInv, TypeOK, Row
  <2>2. rows' = {upd(row) : row \in rows} /\ used' = used
    BY <1>8 DEF Age
  <2>. HIDE DEF upd
  <2>3. Home' = Home /\ Trash' = Trash
    BY <1>0, <2>1, <2>2, HomesStay DEF Trash
  <2>. QED BY <2>3 DEF V!vars, Home, Trash
<1>9. CASE ~WritesRows
  <2>1. rows' = rows /\ used' = used
    BY <1>9, RowsElse
  <2>2. Home' = Home /\ Trash' = Trash
    BY <1>0, <2>1, HomesStay DEF Trash
  <2>. QED BY <2>2 DEF V!vars, Home, Trash
<1>. QED BY <1>1, <1>2, <1>3, <1>4, <1>5, <1>6, <1>7, <1>8, <1>9 DEF WritesRows

\* The handlers implement Vault: a cipher is at one home, moves at most once, to
\* the organization, and never comes back from deletion.
THEOREM ImplementsVault == Spec => RefinesVault
<1>1. Init => V!Init
  BY DEF Init, V!Init, HomeOf, Uuids
<1>. QED BY <1>1, VaultStep, TypeInvariant, PTL DEF Spec, RefinesVault, V!Spec

-----------------------------------------------------------------------------
(* Access.  As long as its cipher exists, a handler that asks for the        *)
(* membership or the grants works on one of the organization, and knows from *)
(* what it has read so far what its user could do.                          *)

CheckedSoFar ==
  \A h \in running : h.op \in Checked /\ h.cipher \in Uuids =>
    /\ h.pc \in {"member", "grants"} =>
         \E row \in rows : row.uuid = h.cipher /\ row.home = Org
    /\ h.pc = "grants" => h.access \in {"member", "parts", "whole"}
    /\ h.pc = "write" => h.access \in {"parts", "whole"}

AccessInv == TypeInv /\ CheckedSoFar

\* The two reads of has_cipher_access, of a cipher of the organization.
LEMMA SeenMembership ==
  ASSUME TypeInv, NEW h \in running, FindMembership(h), h.user \in User,
         \E row \in rows : row.uuid = h.cipher /\ row.home = Org
  PROVE  /\ Seen(h) \in {"member", "whole"}
         /\ role[h.user] = "full" => Seen(h) = "whole"
BY DEF Seen, FindMembership, CanWrite

LEMMA SeenGrants ==
  ASSUME TypeInv, NEW h \in running, FindGrants(h), h.user \in User,
         h.access \in {"member", "parts", "whole"},
         \E row \in rows : row.uuid = h.cipher /\ row.home = Org
  PROVE  Seen(h) \in {"parts", "whole"}
<1>1. role[h.user] \in {"none", "member", "full"}
  BY DEF TypeInv, TypeOK, Roles
<1>2. CASE role[h.user] = "none"
  BY <1>2 DEF Seen, FindGrants
<1>3. CASE role[h.user] \in {"member", "full"}
  BY <1>3 DEF Seen, FindGrants, CanWrite
<1>. QED BY <1>1, <1>2, <1>3

\* Where a cipher of the organization stays, while it exists.
LEMMA StaysAtOrg ==
  ASSUME TypeInv, [Next]_vars, NEW c \in used, c \in Uuids',
         c \in Uuids => \E row \in rows : row.uuid = c /\ row.home = Org
  PROVE  c \in Uuids /\ \E new \in rows' : new.uuid = c /\ new.home = Org
<1>1. PICK new \in rows' : new.uuid = c
  BY DEF Uuids
<1>2. PICK row \in rows : RowKept(row, new)
  BY <1>1, RowsStep DEF RowsEffect
<1>3. c \in Uuids /\ row.home = Org
  BY <1>1, <1>2 DEF RowKept, Uuids, TypeInv, TypeOK
<1>. QED BY <1>1, <1>2, <1>3 DEF RowKept

LEMMA StaysUsed ==
  ASSUME TypeInv, [Next]_vars, NEW c \in used, c \in Uuids' PROVE c \in Uuids
<1>1. PICK new \in rows' : new.uuid = c
  BY DEF Uuids
<1>2. PICK row \in rows : RowKept(row, new)
  BY <1>1, RowsStep DEF RowsEffect
<1>. QED BY <1>1, <1>2 DEF RowKept, Uuids

LEMMA CheckedNext == ASSUME AccessInv, [Next]_vars PROVE CheckedSoFar'
<1>. SUFFICES ASSUME NEW g \in running', g.op \in Checked, g.cipher \in Uuids'
     PROVE  /\ g.pc \in {"member", "grants"} =>
                 \E row \in rows' : row.uuid = g.cipher /\ row.home = Org
            /\ g.pc = "grants" => g.access \in {"member", "parts", "whole"}
            /\ g.pc = "write" => g.access \in {"parts", "whole"}
  BY DEF CheckedSoFar
<1>0. TypeInv
  BY DEF AccessInv
<1>1. CASE g \in running
  <2>1. g.cipher \in used
    BY <1>0, <1>1 DEF TypeInv, HandlersOK
  <2>2. g.cipher \in Uuids
    BY <1>0, <2>1, StaysUsed
  <2>. QED BY <1>0, <1>1, <2>1, <2>2, StaysAtOrg DEF AccessInv, CheckedSoFar
<1>2. CASE (\E h \in running : Step(h)) /\ g \notin running
  <2>1. PICK h \in running : Step(h)
    BY <1>2
  <2>2. Same(h, g)
    BY <1>0, <1>2, <2>1, Continues DEF Checked
  <2>3. h.op \in Checked /\ h.cipher = g.cipher /\ h.cipher \in used /\ h.user \in User
    BY <1>0, <2>2 DEF Same, TypeInv, HandlersOK
  <2>4. h.cipher \in Uuids /\ h \in Handler
    BY <1>0, <2>3, StaysUsed DEF TypeInv, TypeOK
  <2>5. CASE FindMembership(h)
    <3>1. g = [h EXCEPT !.access = Seen(h),
                  !.pc = IF h.op = "share" \/ role[h.user] = "full" THEN "write" ELSE "grants"]
      BY <1>2, <2>5 DEF FindMembership, Become
    <3>2. \E row \in rows : row.uuid = h.cipher /\ row.home = Org
      BY <2>3, <2>4, <2>5 DEF FindMembership, AccessInv, CheckedSoFar
    <3>3. /\ g.access \in {"member", "whole"} /\ g.pc \in {"write", "grants"}
          /\ g.pc = "write" => g.access = "whole"
      BY <1>0, <2>3, <2>4, <2>5, <3>1, <3>2, SeenMembership DEF Handler, Checked
    <3>. QED BY <1>0, <2>3, <3>2, <3>3, StaysAtOrg
  <2>6. CASE FindGrants(h)
    <3>1. g = [h EXCEPT !.pc = "write", !.access = Seen(h)]
      BY <1>2, <2>6 DEF FindGrants, Become
    <3>2. Seen(h) \in {"parts", "whole"}
      BY <1>0, <2>3, <2>4, <2>6, SeenGrants DEF FindGrants, AccessInv, CheckedSoFar
    <3>. QED BY <2>4, <3>1, <3>2 DEF Handler
  <2>7. CASE ~FindMembership(h) /\ ~FindGrants(h)
    <3>1. CASE InsertOrgCipher(h) \/ ClearLinks(h) \/ SetLink(h)
      BY <1>2, <3>1, LinkAllContinues DEF InsertOrgCipher, ClearLinks, SetLink, Checked
    <3>2. CASE ShareRow(h) \/ SyncMemberships(h) \/ SyncOrg(h)
      BY <2>3, <3>2 DEF ShareRow, SyncMemberships, SyncOrg, Checked
    <3>3. CASE UpdateCipher(h) \/ SetTrash(h) \/ DeleteRow(h) \/ DeleteGoing(h) \/ Abandon(h)
      BY <1>2, <3>3 DEF UpdateCipher, SetTrash, DeleteRow, DeleteGoing, Abandon, End
    <3>. QED BY <2>1, <2>7, <3>1, <3>2, <3>3 DEF Step
  <2>. QED BY <2>5, <2>6, <2>7
<1>3. CASE (\E r \in Request \ Busy : Begin(r)) /\ g \notin running
  <2>1. PICK r \in Request, u \in User, op \in Checked : FindCipher(r, u, op)
    BY <1>3, RestBegin, SyncOwnBegins DEF Begin, Checked
  <2>2. PICK row \in rows : /\ g.cipher = row.uuid
          /\ \/ row.home = u /\ g.pc = "write" /\ g.access = "whole"
             \/ row.home = Org /\ g.pc = "member"
    BY <1>3, <2>1, FindCipherBegins
  <2>3. rows' = rows
    BY <2>1 DEF FindCipher
  <2>. QED BY <2>2, <2>3
<1>4. g \in running \/ (\E h \in running : Step(h)) \/ \E r \in Request \ Busy : Begin(r)
  BY OthersRun DEF Next
<1>. QED BY <1>1, <1>2, <1>3, <1>4

LEMMA EntitledStep ==
  ASSUME AccessInv, [Next]_vars, NEW h \in running \ running', h.op \in Checked,
         h.cipher \in Uuids, <<rows, links>>' # <<rows, links>>
  PROVE  h.access \in {"whole", "parts"}
<1>1. \A g \in running : Step(g) => g = h
  BY DEF Step, InsertOrgCipher, FindMembership, FindGrants, UpdateCipher, SetTrash,
    DeleteRow, ShareRow, ClearLinks, SetLink, DeleteGoing, SyncMemberships, SyncOrg,
    Abandon, LinkAll, Become, End
<1>2. Step(h)
  <2>1. ~ \E r \in Request \ Busy : Begin(r)
    BY DEF Begin, BeginCreate, FindOwnCipher, FindCipher, SyncOwn, PurgeLinks, UnlinkAccount
  <2>. QED BY <1>1, <2>1, OthersRun DEF Next
<1>3. h.pc = "write"
  BY <1>2 DEF Step, InsertOrgCipher, FindMembership, FindGrants, UpdateCipher, SetTrash,
    DeleteRow, ShareRow, ClearLinks, SetLink, DeleteGoing, SyncMemberships, SyncOrg,
    Abandon, Checked, AccessInv, TypeInv, HandlersOK
<1>. QED BY <1>3 DEF AccessInv, CheckedSoFar

LEMMA AccessInvariant == Spec => []AccessInv
<1>1. Init => AccessInv
  BY TypeInit DEF Init, AccessInv, CheckedSoFar
<1>2. AccessInv /\ [Next]_vars => AccessInv'
  BY TypeNext, CheckedNext DEF AccessInv
<1>. QED BY <1>1, <1>2, PTL DEF Spec

\* A handler writes a cipher only for a user who could write it while the
\* handler checked, or had first the membership and then the grant.
THEOREM WritersEntitled == Spec => WrittenByEntitled
<1>1. AccessInv /\ [Next]_vars =>
        [\A h \in Acting : h.op \in Checked /\ h.cipher \in Uuids
            /\ <<rows, links>>' # <<rows, links>> => h.access \in {"whole", "parts"}]_vars
  BY EntitledStep DEF Acting
<1>. QED BY <1>1, AccessInvariant, PTL DEF Spec, WrittenByEntitled

-----------------------------------------------------------------------------
(* Sync.  What its user could read ever since a sync began can still be      *)
(* read, and is found already or is the organization's, yet to be read.     *)

StillReadable ==
  \A h \in running : h.op = "sync" => \A c \in steady[h.id] : CanRead(h.user, c)

SyncSoFar ==
  \A h \in running : h.op = "sync" => \A c \in steady[h.id] \ h.found :
    h.pc # "answer" /\ \E row \in rows : row.uuid = c /\ row.home = Org

SyncInv == TypeInv /\ StillReadable /\ SyncSoFar

LEMMA ReadableNext == ASSUME SyncInv, [Next]_vars PROVE StillReadable'
<1>1. CASE Next
  <2>1. Watch /\ HandlersOK' /\ running' \subseteq Handler
    BY <1>1, HandlersNext DEF Next, SyncInv
  <2>2. ASSUME NEW g \in running', g.op = "sync", NEW c \in steady'[g.id]
        PROVE  CanRead(g.user, c)'
    <3>1. g.id \in Request
      BY <2>1, <2>2 DEF Handler
    <3>2. Syncing(g.id, c)'
      BY <2>1, <2>2, <3>1 DEF Watch
    <3>3. PICK k \in running' : k.id = g.id /\ CanRead(k.user, c)'
      BY <3>2 DEF Syncing
    <3>. QED BY <2>1, <2>2, <3>3 DEF HandlersOK
  <2>. QED BY <2>2 DEF StillReadable
<1>2. CASE UNCHANGED vars
  BY <1>2 DEF vars, SyncInv, StillReadable, CanRead, Opening
<1>. QED BY <1>1, <1>2

\* What was steady before, of a handler that was there before.
LEMMA SteadyShrinks ==
  ASSUME SyncInv, [Next]_vars, NEW h \in running PROVE steady'[h.id] \subseteq steady[h.id]
<1>1. h.id \in Request /\ h.id \in Busy
  BY DEF SyncInv, TypeInv, TypeOK, Handler, Busy
<1>2. CASE Next
  BY <1>1, <1>2 DEF Next, Watch
<1>3. CASE UNCHANGED vars
  BY <1>3 DEF vars
<1>. QED BY <1>2, <1>3

LEMMA SyncSoFarNext == ASSUME SyncInv, [Next]_vars PROVE SyncSoFar'
<1>. SUFFICES ASSUME NEW g \in running', g.op = "sync", NEW c \in steady'[g.id] \ g.found
     PROVE  g.pc # "answer" /\ \E row \in rows' : row.uuid = c /\ row.home = Org
  BY DEF SyncSoFar
<1>0. TypeInv /\ CanRead(g.user, c)' /\ running' \subseteq Handler
  BY ReadableNext, HandlersNext DEF SyncInv, StillReadable
<1>1. CASE g \in running
  <2>1. c \in steady[g.id] \ g.found
    BY <1>1, SteadyShrinks
  <2>2. g.pc # "answer" /\ \E row \in rows : row.uuid = c /\ row.home = Org
    BY <1>1, <2>1 DEF SyncInv, SyncSoFar
  <2>3. c \in used /\ c \in Uuids'
    BY <1>0, <2>2 DEF TypeInv, TypeOK, Uuids, CanRead
  <2>. QED BY <1>0, <2>2, <2>3, StaysAtOrg
<1>2. CASE (\E h \in running : Step(h)) /\ g \notin running
  <2>1. PICK h \in running : Step(h)
    BY <1>2
  <2>2. Same(h, g)
    BY <1>0, <1>2, <2>1, Continues
  <2>3. h.op = "sync" /\ h \in Handler /\ h.user \in User /\ c \in steady[h.id]
    BY <1>0, <2>2, SteadyShrinks DEF Same, TypeInv, TypeOK, HandlersOK
  <2>4. CanRead(h.user, c)
    BY <2>3 DEF SyncInv, StillReadable
  <2>5. CASE SyncMemberships(h)
    <3>1. g = [h EXCEPT !.pc = IF role[h.user] = "none" THEN "answer" ELSE "org"]
      BY <1>2, <2>5 DEF SyncMemberships, Become
    <3>2. c \notin h.found
      BY <2>3, <3>1 DEF Handler
    <3>3. PICK row \in rows : row.uuid = c /\ row.home = Org
      BY <2>3, <3>2 DEF SyncInv, SyncSoFar
    <3>4. role[h.user] # "none"
      BY <1>0, <2>3, <2>4, <3>3, HomeAssumption DEF CanRead, TypeInv, TypeOK
    <3>. QED BY <2>3, <2>5, <3>1, <3>3, <3>4 DEF SyncMemberships, Handler
  <2>6. CASE SyncOrg(h)
    <3>. DEFINE more == {d \in {row.uuid : row \in At(Org)} : CanRead(h.user, d)}
    <3>1. g = [h EXCEPT !.pc = "answer", !.found = @ \cup more]
      BY <1>2, <2>6 DEF SyncOrg, Become
    <3>. HIDE DEF more
    <3>2. c \notin h.found /\ c \notin more
      BY <2>3, <3>1 DEF Handler
    <3>3. \E row \in rows : row.uuid = c /\ row.home = Org
      BY <2>3, <3>2 DEF SyncInv, SyncSoFar
    <3>. QED BY <2>4, <3>2, <3>3 DEF more, At
  <2>7. CASE ~SyncMemberships(h) /\ ~SyncOrg(h)
    <3>1. CASE InsertOrgCipher(h) \/ ClearLinks(h) \/ SetLink(h)
      BY <1>2, <3>1, LinkAllContinues DEF InsertOrgCipher, ClearLinks, SetLink
    <3>2. CASE ShareRow(h) \/ FindMembership(h) \/ FindGrants(h)
      BY <1>0, <2>3, <3>2 DEF ShareRow, FindMembership, FindGrants, TypeInv, HandlersOK
    <3>3. CASE UpdateCipher(h) \/ SetTrash(h) \/ DeleteRow(h) \/ DeleteGoing(h) \/ Abandon(h)
      BY <1>2, <3>3 DEF UpdateCipher, SetTrash, DeleteRow, DeleteGoing, Abandon, End
    <3>. QED BY <2>1, <2>7, <3>1, <3>2, <3>3 DEF Step
  <2>. QED BY <2>5, <2>6, <2>7
<1>3. CASE (\E r \in Request \ Busy : Begin(r)) /\ g \notin running
  <2>1. PICK r \in Request, u \in User : SyncOwn(r, u)
    BY <1>3, RestBegin, FindCipherBegins DEF Begin, Checked
  <2>2. g.user = u /\ g.pc = "member" /\ g.found = {row.uuid : row \in At(u)}
    BY <1>3, <2>1, SyncOwnBegins
  <2>3. PICK row \in rows' : row.uuid = c /\ row.home \in {u, Org}
    BY <1>0, <2>2 DEF CanRead
  <2>4. rows' = rows
    BY <2>1 DEF SyncOwn
  <2>5. row.home # u
    BY <2>2, <2>3, <2>4 DEF At
  <2>. QED BY <2>2, <2>3, <2>5
<1>4. g \in running \/ (\E h \in running : Step(h)) \/ \E r \in Request \ Busy : Begin(r)
  BY OthersRun DEF Next
<1>. QED BY <1>1, <1>2, <1>3, <1>4

\* What a user could read all the time from the first read of a sync to its
\* answer is in the answer.
THEOREM SyncComplete == Spec => []SyncMissesNothing
<1>1. Init => SyncInv
  BY TypeInit DEF Init, SyncInv, StillReadable, SyncSoFar
<1>2. SyncInv /\ [Next]_vars => SyncInv'
  BY TypeNext, ReadableNext, SyncSoFarNext DEF SyncInv
<1>3. SyncInv => SyncMissesNothing
  BY DEF SyncInv, SyncSoFar, SyncMissesNothing
<1>. QED BY <1>1, <1>2, <1>3, PTL DEF Spec

-----------------------------------------------------------------------------
(* Collections.  One handler at a time writes the links of a cipher, else    *)
(* the cipher is torn; and what it has inserted and what it has yet to       *)
(* insert is what was asked for.                                            *)

LinksOf(c) == {l.col : l \in {x \in links : x.cipher = c}}

LinkFine(c) ==
  /\ c \notin used => LinksOf(c) = {} /\ asked[c] = {}
  /\ c \notin torn => \A h, g \in Linking(c) : h = g
  /\ c \in Uuids \ (torn \cup Doomed) =>
       /\ Linking(c) = {} => LinksOf(c) = asked[c]
       /\ \A h \in Linking(c) : h.pc = "link" => LinksOf(c) \cup h.todo = asked[c]

LinksInv == TypeInv /\ \A c \in Cipher : LinkFine(c)

LEMMA TornGrows == ASSUME [Next]_vars PROVE torn \subseteq torn'
<1>1. CASE \E r \in Request \ Busy : Begin(r)
  BY <1>1 DEF Begin, BeginCreate, FindOwnCipher, FindCipher, SyncOwn, PurgeLinks, UnlinkAccount
<1>2. CASE \E h \in running : Step(h)
  BY <1>2 DEF Step, InsertOrgCipher, FindMembership, FindGrants, UpdateCipher, SetTrash,
    DeleteRow, ShareRow, ClearLinks, SetLink, DeleteGoing, SyncMemberships, SyncOrg, Abandon
<1>3. CASE Others \/ UNCHANGED vars
  BY <1>3 DEF Others, PostCipher, SetRole, SetGrant, DeleteAllAt, DropLinksOf, Age, vars
<1>. QED BY <1>1, <1>2, <1>3 DEF Next

\* A row in the trash for long stays there, unless its cipher is torn.
LEMMA OldStays ==
  ASSUME TypeInv, [Next]_vars, NEW row \in rows, row.trash = "old", row.uuid \in Doomed,
         NEW new \in rows', new.uuid = row.uuid
  PROVE  new.trash = "old" \/ row.uuid \in torn'
<1>1. row.uuid \in used /\ \A other \in rows : other.uuid = row.uuid => other = row
  BY DEF TypeInv, TypeOK, Uuids
<1>2. CASE \E h \in running : InsertOrgCipher(h)
  BY <1>1, <1>2 DEF InsertOrgCipher, New
<1>3. CASE \E h \in running : UpdateCipher(h)
  <2>1. PICK h \in running : UpdateCipher(h)
    BY <1>3
  <2>2. h.key \in Homes
    BY <2>1 DEF UpdateCipher, TypeInv, HandlersOK
  <2>3. PICK old \in rows : new = IF old.uuid = h.cipher THEN Updated(old, h.key) ELSE old
    BY <2>1 DEF UpdateCipher
  <2>. QED BY <1>1, <2>2, <2>3, UpdatedType DEF TypeInv, TypeOK
<1>4. CASE \E h \in running : SetTrash(h)
  <2>1. PICK h \in running : SetTrash(h)
    BY <1>4
  <2>2. CASE row.uuid = h.cipher
    BY <2>1, <2>2 DEF SetTrash
  <2>3. CASE row.uuid # h.cipher
    <3>1. PICK old \in rows : \E t :
            new = IF old.uuid = h.cipher THEN [old EXCEPT !.trash = t] ELSE old
      BY <2>1 DEF SetTrash
    <3>2. old \in Row
      BY DEF TypeInv, TypeOK
    <3>. QED BY <1>1, <2>3, <3>1, <3>2 DEF Row
  <2>. QED BY <2>2, <2>3
<1>5. CASE \E h \in running : ShareRow(h)
  <2>1. PICK h \in running : ShareRow(h)
    BY <1>5
  <2>2. PICK old \in rows : new = IF old.uuid = h.cipher THEN Shared(old) ELSE old
    BY <2>1 DEF ShareRow
  <2>. QED BY <1>1, <2>2, SharedType DEF TypeInv, TypeOK
<1>6. CASE Age
  <2>1. PICK old \in rows : new = [old EXCEPT !.trash = IF @ = "fresh" THEN "old" ELSE @]
    BY <1>6 DEF Age
  <2>. QED BY <1>1, <2>1 DEF TypeInv, TypeOK, Row
<1>7. CASE \E u \in User : PostCipher(u)
  BY <1>1, <1>7 DEF PostCipher, New
<1>8. CASE \/ \E h \in running : DeleteRow(h) \/ DeleteGoing(h)
           \/ \E x \in Homes : DeleteAllAt(x)
           \/ ~WritesRows
  <2>1. rows' \subseteq rows
    BY <1>8, RowsElse DEF DeleteRow, DeleteGoing, DeleteAllAt
  <2>. QED BY <1>1, <2>1
<1>. QED BY <1>2, <1>3, <1>4, <1>5, <1>6, <1>7, <1>8 DEF WritesRows

\* A purge or a deletion of an account goes on, unless it deletes its rows or has
\* torn their ciphers.
LEMMA DoomingStays ==
  ASSUME TypeInv, [Next]_vars, NEW p \in running, NEW row \in Going(p)
  PROVE  p \in running' \/ row.uuid \in torn' \/ row.uuid \notin Uuids'
<1>1. p.op \in {"purge", "account"} /\ p.pc = "rows" /\ row \in rows
  BY DEF Going, At, TypeInv, HandlersOK
<1>2. CASE \E h \in running : DeleteGoing(h)
  BY <1>1, <1>2 DEF DeleteGoing, End, Uuids, TypeInv, TypeOK
<1>3. CASE \E h \in running : Abandon(h)
  BY <1>3 DEF Abandon, End
<1>4. CASE \E h \in running : Step(h) /\ ~DeleteGoing(h) /\ ~Abandon(h)
  <2>1. PICK h \in running : Step(h) /\ ~DeleteGoing(h) /\ ~Abandon(h)
    BY <1>4
  <2>2. h.op \notin {"purge", "account"}
    BY <2>1 DEF TypeInv, HandlersOK, Step, InsertOrgCipher, FindMembership, FindGrants,
      UpdateCipher, SetTrash, DeleteRow, ShareRow, ClearLinks, SetLink, SyncMemberships,
      SyncOrg
  <2>. QED
    BY <1>1, <2>1, <2>2 DEF Step, InsertOrgCipher, FindMembership, FindGrants,
      UpdateCipher, SetTrash, DeleteRow, ShareRow, ClearLinks, SetLink, SyncMemberships,
      SyncOrg, LinkAll, Become, End
<1>5. CASE \E r \in Request \ Busy : Begin(r)
  BY <1>5 DEF Begin, BeginCreate, FindOwnCipher, FindCipher, SyncOwn, PurgeLinks,
    UnlinkAccount
<1>6. CASE Others \/ UNCHANGED vars
  BY <1>6, OthersRun
<1>. QED BY <1>2, <1>3, <1>4, <1>5, <1>6 DEF Next

\* A row about to be deleted is deleted, or still about to be, or its cipher is
\* torn, or was shared just now.
LEMMA DoomedStays ==
  ASSUME TypeInv, [Next]_vars, NEW c \in Doomed, c \in Uuids'
  PROVE  c \in Doomed' \cup torn' \/ (Sharing(c) /\ rows' # rows)
<1>1. PICK p \in running : \E row \in Going(p) : row.uuid = c
  BY DEF Doomed
<1>2. PICK row \in Going(p) : row.uuid = c
  BY <1>1
<1>3. PICK new \in rows' : new.uuid = c
  BY DEF Uuids
<1>4. /\ row \in rows /\ c \in used
      /\ \A other \in rows : other.uuid = c => other = row
  BY <1>2 DEF Going, At, TypeInv, TypeOK, Uuids
<1>5. p \in running' \/ c \in torn'
  BY <1>2, DoomingStays
<1>6. CASE p \in running' /\ c \notin torn' /\ ~(Sharing(c) /\ rows' # rows)
  <2>1. new.home = row.home
    <3>1. CASE rows' = rows
      BY <1>3, <1>4, <3>1
    <3>2. CASE rows' # rows
      <4>1. PICK old \in rows : RowKept(old, new)
        BY <1>3, <1>4, RowsStep DEF RowsEffect
      <4>. QED BY <1>3, <1>4, <1>6, <3>2, <4>1 DEF RowKept
    <3>. QED BY <3>1, <3>2
  <2>2. row.trash = "old" => new.trash = "old"
    BY <1>2, <1>3, <1>4, <1>6, OldStays
  <2>3. new \in Going(p)'
    BY <1>2, <1>3, <2>1, <2>2 DEF Going, At
  <2>. QED BY <1>3, <1>6, <2>3 DEF Doomed
<1>. QED BY <1>5, <1>6

\* Who shares a cipher joins those who write its links.
LEMMA SharingJoins ==
  ASSUME TypeInv, NEW c, Sharing(c) PROVE Linking(c)' # Linking(c)
<1>1. PICK h \in running : ShareRow(h) /\ h.cipher = c
  BY DEF Sharing
<1>2. PICK cs \in SUBSET Collection :
        Become(h, [Start(h.id, "share", "clear") EXCEPT !.cipher = h.cipher, !.todo = cs])
  BY <1>1 DEF ShareRow
<1>. DEFINE new == [Start(h.id, "share", "clear") EXCEPT !.cipher = h.cipher, !.todo = cs]
<1>3. new.cipher = c /\ new.pc = "clear" /\ new.id = h.id /\ new \in running'
  BY <1>1, <1>2 DEF Start, Become
<1>. HIDE DEF new
<1>4. h.pc = "write"
  BY <1>1 DEF ShareRow
<1>5. new \notin running
  BY <1>3, <1>4 DEF TypeInv, HandlersOK
<1>. QED BY <1>3, <1>5 DEF Linking

LEMMA LinkersUsed ==
  ASSUME TypeInv, NEW c, NEW h \in Linking(c) PROVE c \in used
<1>1. h \in running /\ h \in Handler /\ h.cipher = c /\ h.pc \in {"clear", "link"}
  BY DEF Linking, TypeInv, TypeOK
<1>2. h.op \in Checked \cup {"create", "share", "link", "purge", "account", "sync"}
  BY <1>1 DEF Handler
<1>. QED BY <1>1, <1>2 DEF TypeInv, HandlersOK

\* A cipher with which nothing happens here.
LEMMA Untouched ==
  ASSUME LinksInv, [Next]_vars, NEW c \in Cipher, LinksOf(c)' = LinksOf(c),
         asked'[c] = asked[c], Linking(c)' = Linking(c)
  PROVE  LinkFine(c)'
<1>1. LinkFine(c) /\ TypeInv
  BY DEF LinksInv
<1>2. used \subseteq used' /\ torn \subseteq torn'
  BY UsedGrows, TornGrows
<1>3. CASE c \in Uuids' /\ c \notin Uuids
  <2>1. c \notin used
    BY <1>1, <1>3, StaysUsed
  <2>2. Linking(c) = {} /\ LinksOf(c) = asked[c]
    BY <1>1, <2>1, LinkersUsed DEF LinkFine
  <2>. QED BY <1>1, <1>2, <2>2 DEF LinkFine
<1>4. CASE c \in Uuids' => c \in Uuids
  <2>1. c \in Uuids' \ (torn' \cup Doomed') => c \in Uuids \ (torn \cup Doomed)
    BY <1>1, <1>2, <1>4, DoomedStays, SharingJoins
  <2>. QED BY <1>1, <1>2, <2>1 DEF LinkFine
<1>. QED BY <1>3, <1>4

\* Who writes links after a step.
LEMMA LinkingAfterLinkAll ==
  ASSUME NEW h \in running, NEW c, NEW todo, LinkAll(h, c, todo)
  PROVE  /\ \A d : d # c /\ h \notin Linking(d) => Linking(d)' = Linking(d)
         /\ Linking(c) \subseteq {h} =>
              /\ \A g \in Linking(c)' : g.todo = todo
              /\ \A f, g \in Linking(c)' : f = g
              /\ Linking(c)' = {} => todo = {}
<1>. DEFINE new == [Start(h.id, "link", "link") EXCEPT !.cipher = c, !.todo = todo]
<1>1. new.cipher = c /\ new.pc = "link" /\ new.todo = todo
  BY DEF Start
<1>2. running' = (running \ {h}) \cup (IF todo = {} THEN {} ELSE {new})
  BY DEF LinkAll, End, Become
<1>. HIDE DEF new
<1>3. ASSUME NEW d, d # c, h \notin Linking(d) PROVE Linking(d)' = Linking(d)
  BY <1>1, <1>2, <1>3 DEF Linking
<1>4. ASSUME Linking(c) \subseteq {h}
      PROVE  Linking(c)' = IF todo = {} THEN {} ELSE {new}
  BY <1>1, <1>2, <1>4 DEF Linking
<1>. QED BY <1>1, <1>3, <1>4

LEMMA InsertOrgCipherLinks ==
  ASSUME LinksInv, [Next]_vars, NEW h \in running, InsertOrgCipher(h), NEW c \in Cipher
  PROVE  LinkFine(c)'
<1>1. PICK d \in Cipher \ used, cs \in SUBSET Collection :
        /\ rows' = rows \cup {New(d, Org)} /\ used' = used \cup {d}
        /\ asked' = [asked EXCEPT ![d] = cs] /\ LinkAll(h, d, cs)
  BY DEF InsertOrgCipher
<1>2. h \notin Linking(c) /\ TypeInv /\ links' = links /\ asked \in [Cipher -> SUBSET Collection]
  BY DEF InsertOrgCipher, Linking, LinksInv, TypeInv, TypeOK
<1>3. CASE c # d
  <2>1. Linking(c)' = Linking(c)
    BY <1>1, <1>2, <1>3, LinkingAfterLinkAll
  <2>2. LinksOf(c)' = LinksOf(c) /\ asked'[c] = asked[c]
    BY <1>1, <1>2, <1>3 DEF LinksOf
  <2>. QED BY <2>1, <2>2, Untouched
<1>4. CASE c = d
  <2>1. Linking(c) = {}
    BY <1>1, <1>2, <1>4, LinkersUsed
  <2>2. LinksOf(c)' = {} /\ asked'[c] = cs /\ c \in used'
    BY <1>1, <1>2, <1>4 DEF LinksInv, LinkFine, LinksOf
  <2>3. /\ \A g \in Linking(c)' : g.todo = cs
        /\ \A f, g \in Linking(c)' : f = g
        /\ Linking(c)' = {} => cs = {}
    BY <1>1, <1>4, <2>1, LinkingAfterLinkAll
  <2>. QED BY <2>2, <2>3 DEF LinkFine
<1>. QED BY <1>3, <1>4

LEMMA ShareRowLinks ==
  ASSUME LinksInv, [Next]_vars, NEW h \in running, ShareRow(h), NEW c \in Cipher
  PROVE  LinkFine(c)'
<1>1. PICK cs \in SUBSET Collection :
        /\ asked' = [asked EXCEPT ![h.cipher] = cs]
        /\ Become(h, [Start(h.id, "share", "clear") EXCEPT !.cipher = h.cipher, !.todo = cs])
  BY DEF ShareRow
<1>. DEFINE new == [Start(h.id, "share", "clear") EXCEPT !.cipher = h.cipher, !.todo = cs]
<1>2. new.cipher = h.cipher /\ new.pc = "clear" /\ running' = (running \ {h}) \cup {new}
  BY <1>1 DEF Start, Become
<1>. HIDE DEF new
<1>3. TypeInv /\ links' = links /\ h.pc = "write" /\ h.cipher \in used
  BY DEF LinksInv, ShareRow, TypeInv, HandlersOK
<1>4. CASE c # h.cipher
  <2>1. Linking(c)' = Linking(c)
    BY <1>2, <1>3, <1>4 DEF Linking
  <2>. QED BY <1>1, <1>3, <1>4, <2>1, Untouched DEF LinksOf, TypeInv, TypeOK
<1>5. CASE c = h.cipher
  <2>1. Linking(c)' = Linking(c) \cup {new}
    BY <1>2, <1>3, <1>5 DEF Linking
  <2>2. c \in torn' \/ Linking(c) = {}
    BY <1>5 DEF ShareRow
  <2>3. c \in used'
    BY <1>3, <1>5, UsedGrows
  <2>. QED BY <1>2, <2>1, <2>2, <2>3 DEF LinkFine
<1>. QED BY <1>4, <1>5

LEMMA ClearLinksLinks ==
  ASSUME LinksInv, [Next]_vars, NEW h \in running, ClearLinks(h), NEW c \in Cipher
  PROVE  LinkFine(c)'
<1>1. PICK cs \in SUBSET Collection :
        asked' = [asked EXCEPT ![h.cipher] = cs] /\ LinkAll(h, h.cipher, cs)
  BY DEF ClearLinks
<1>2. TypeInv /\ h.cipher \in used /\ asked \in [Cipher -> SUBSET Collection]
  BY DEF LinksInv, ClearLinks, TypeInv, TypeOK, HandlersOK, Checked
<1>3. CASE c # h.cipher
  <2>0. h \notin Linking(c)
    BY <1>3 DEF Linking
  <2>1. Linking(c)' = Linking(c)
    BY <1>1, <1>3, <2>0, LinkingAfterLinkAll
  <2>2. LinksOf(c)' = LinksOf(c)
    BY <1>3 DEF ClearLinks, LinksOf
  <2>. QED BY <1>1, <1>2, <1>3, <2>1, <2>2, Untouched
<1>4. CASE c = h.cipher
  <2>1. c \in used' /\ asked'[c] = cs /\ LinksOf(c)' = {}
    BY <1>1, <1>2, <1>4, UsedGrows DEF ClearLinks, LinksOf
  <2>2. c \in torn' \/ Linking(c) \subseteq {h}
    BY <1>4 DEF ClearLinks
  <2>3. Linking(c) \subseteq {h} =>
          /\ \A g \in Linking(c)' : g.todo = cs
          /\ \A f, g \in Linking(c)' : f = g
          /\ Linking(c)' = {} => cs = {}
    BY <1>1, <1>4, LinkingAfterLinkAll
  <2>. QED BY <2>1, <2>2, <2>3 DEF LinkFine
<1>. QED BY <1>3, <1>4

LEMMA SetLinkLinks ==
  ASSUME LinksInv, [Next]_vars, NEW h \in running, SetLink(h), NEW c \in Cipher
  PROVE  LinkFine(c)'
<1>1. PICK col \in h.todo : /\ links' = links \cup {[cipher |-> h.cipher, col |-> col]}
                            /\ LinkAll(h, h.cipher, h.todo \ {col})
  BY DEF SetLink
<1>2. /\ TypeInv /\ h.pc = "link" /\ h.cipher \in used
      /\ rows' = rows /\ used' = used /\ asked' = asked /\ torn' = torn
  BY DEF LinksInv, SetLink, TypeInv, TypeOK, HandlersOK, Checked, Handler
<1>3. CASE c # h.cipher
  <2>0. h \notin Linking(c)
    BY <1>3 DEF Linking
  <2>1. Linking(c)' = Linking(c)
    BY <1>1, <1>3, <2>0, LinkingAfterLinkAll
  <2>2. LinksOf(c)' = LinksOf(c)
    BY <1>1, <1>3 DEF LinksOf
  <2>. QED BY <1>2, <2>1, <2>2, <1>3, Untouched
<1>4. CASE c = h.cipher
  <2>0. h \in Linking(c)
    BY <1>2, <1>4 DEF Linking
  <2>1. LinksOf(c)' = LinksOf(c) \cup {col} /\ h \in Linking(c)
    <3>. DEFINE l == [cipher |-> h.cipher, col |-> col]
    <3>1. l.cipher = c /\ l.col = col /\ links' = links \cup {l}
      BY <1>1, <1>4
    <3>. HIDE DEF l
    <3>. QED BY <2>0, <3>1 DEF LinksOf
  <2>2. c \notin torn => Linking(c) = {h}
    BY <2>1 DEF LinksInv, LinkFine
  <2>3. c \notin torn =>
          /\ \A g \in Linking(c)' : g.todo = h.todo \ {col}
          /\ \A f, g \in Linking(c)' : f = g
          /\ Linking(c)' = {} => h.todo \ {col} = {}
    BY <1>1, <1>4, <2>2, LinkingAfterLinkAll
  <2>4. c \in Uuids' \ (torn' \cup Doomed') => LinksOf(c) \cup h.todo = asked[c]
    <3>1. c \in Uuids' \ (torn' \cup Doomed') => c \in Uuids \ (torn \cup Doomed)
      BY <1>2, DoomedStays DEF Uuids
    <3>. QED BY <1>2, <2>1, <3>1 DEF LinksInv, LinkFine
  <2>. QED BY <1>1, <1>2, <1>4, <2>1, <2>3, <2>4 DEF LinkFine
<1>. QED BY <1>3, <1>4

LEMMA PurgeLinksLinks ==
  ASSUME LinksInv, [Next]_vars, NEW r \in Request, PurgeLinks(r), NEW c \in Cipher
  PROVE  LinkFine(c)'
<1>. DEFINE new == Start(r, "purge", "rows")
<1>1. /\ new.pc = "rows" /\ new.op = "purge" /\ running' = running \cup {new}
      /\ rows' = rows /\ used' = used /\ asked' = asked
      /\ links' = {l \in links : l.cipher \notin {row.uuid : row \in {x \in rows : x.trash = "old"}}}
  BY DEF PurgeLinks, Start
<1>. HIDE DEF new
<1>2. Linking(c)' = Linking(c)
  BY <1>1 DEF Linking
<1>3. CASE \E row \in rows : row.trash = "old" /\ row.uuid = c
  <2>1. c \in Doomed'
    BY <1>1, <1>3 DEF Doomed, Going
  <2>2. c \in used'
    BY <1>1, <1>3 DEF LinksInv, TypeInv, TypeOK, Uuids
  <2>. QED BY <1>2, <2>1, <2>2, TornGrows DEF LinksInv, LinkFine
<1>4. CASE ~ \E row \in rows : row.trash = "old" /\ row.uuid = c
  <2>1. LinksOf(c)' = LinksOf(c)
    BY <1>1, <1>4 DEF LinksOf
  <2>. QED BY <1>1, <1>2, <2>1, Untouched
<1>. QED BY <1>3, <1>4

LEMMA UnlinkAccountLinks ==
  ASSUME LinksInv, [Next]_vars, NEW r \in Request, NEW u \in User, UnlinkAccount(r, u),
         NEW c \in Cipher
  PROVE  LinkFine(c)'
<1>. DEFINE new == [Start(r, "account", "rows") EXCEPT !.user = u]
<1>1. /\ new.pc = "rows" /\ new.op = "account" /\ new.user = u
      /\ running' = running \cup {new}
      /\ rows' = rows /\ used' = used /\ asked' = asked
      /\ links' = {l \in links : l.cipher \notin {row.uuid : row \in At(u)}}
  BY DEF UnlinkAccount, Start
<1>. HIDE DEF new
<1>2. Linking(c)' = Linking(c)
  BY <1>1 DEF Linking
<1>3. CASE \E row \in At(u) : row.uuid = c
  <2>1. c \in Doomed'
    BY <1>1, <1>3 DEF Doomed, Going, At
  <2>2. c \in used'
    BY <1>1, <1>3 DEF LinksInv, TypeInv, TypeOK, Uuids, At
  <2>. QED BY <1>2, <2>1, <2>2, TornGrows DEF LinksInv, LinkFine
<1>4. CASE ~ \E row \in At(u) : row.uuid = c
  <2>1. LinksOf(c)' = LinksOf(c)
    BY <1>1, <1>4 DEF LinksOf
  <2>. QED BY <1>1, <1>2, <2>1, Untouched
<1>. QED BY <1>3, <1>4

LEMMA DropLinksOfLinks ==
  ASSUME LinksInv, [Next]_vars, NEW col \in Collection, DropLinksOf(col), NEW c \in Cipher
  PROVE  LinkFine(c)'
<1>1. /\ LinkFine(c) /\ rows' = rows /\ running' = running /\ used' = used
      /\ torn \subseteq torn' /\ asked'[c] = asked[c] \ {col}
  BY TornGrows DEF LinksInv, DropLinksOf, TypeInv, TypeOK
<1>2. Linking(c)' = Linking(c)
  BY <1>1 DEF Linking
<1>3. LinksOf(c)' = LinksOf(c) \ {col}
  BY DEF DropLinksOf, LinksOf
<1>4. c \in torn' \/ \A h \in Linking(c) : col \notin h.todo
  BY DEF DropLinksOf
<1>5. c \in Uuids' \ (torn' \cup Doomed') => c \in Uuids \ (torn \cup Doomed)
  BY <1>1, DoomedStays DEF Uuids, LinksInv
<1>. QED BY <1>1, <1>2, <1>3, <1>4, <1>5 DEF LinkFine

LEMMA AbandonLinks ==
  ASSUME LinksInv, [Next]_vars, NEW h \in running, Abandon(h), NEW c \in Cipher
  PROVE  LinkFine(c)'
<1>1. /\ rows' = rows /\ links' = links /\ asked' = asked /\ used' = used
      /\ running' = running \ {h}
  BY DEF Abandon, End
<1>2. Linking(c)' = Linking(c) \ {h} /\ LinksOf(c)' = LinksOf(c)
  BY <1>1 DEF Linking, LinksOf
<1>3. CASE h \in Linking(c)
  <2>1. c \in torn'
    BY <1>3 DEF Abandon, Linking
  <2>2. c \in used'
    BY <1>1, <1>3 DEF Linking, LinksInv, TypeInv, TypeOK, HandlersOK, Handler, Checked
  <2>. QED BY <2>1, <2>2 DEF LinkFine
<1>4. CASE h \notin Linking(c)
  BY <1>1, <1>2, <1>4, Untouched
<1>. QED BY <1>3, <1>4

LEMMA LinksNext == ASSUME LinksInv, [Next]_vars, NEW c \in Cipher PROVE LinkFine(c)'
<1>0. TypeInv /\ asked \in [Cipher -> SUBSET Collection]
  BY DEF LinksInv, TypeInv, TypeOK
<1>1. CASE \E h \in running : \/ InsertOrgCipher(h) \/ ShareRow(h) \/ ClearLinks(h)
                             \/ SetLink(h) \/ Abandon(h)
  BY <1>1, InsertOrgCipherLinks, ShareRowLinks, ClearLinksLinks, SetLinkLinks, AbandonLinks
<1>2. CASE \E r \in Request : PurgeLinks(r) \/ \E u \in User : UnlinkAccount(r, u)
  BY <1>2, PurgeLinksLinks, UnlinkAccountLinks
<1>3. CASE \E col \in Collection : DropLinksOf(col)
  BY <1>3, DropLinksOfLinks
<1>4. CASE \E h \in running : \/ UpdateCipher(h) \/ SetTrash(h) \/ DeleteRow(h) \/ DeleteGoing(h)
                             \/ FindMembership(h) \/ FindGrants(h)
                             \/ SyncMemberships(h) \/ SyncOrg(h)
  <2>1. PICK h \in running : \/ UpdateCipher(h) \/ SetTrash(h) \/ DeleteRow(h) \/ DeleteGoing(h)
                             \/ FindMembership(h) \/ FindGrants(h)
                             \/ SyncMemberships(h) \/ SyncOrg(h)
    BY <1>4
  <2>2. links' = links /\ asked' = asked
    BY <2>1 DEF UpdateCipher, SetTrash, DeleteRow, DeleteGoing, FindMembership, FindGrants,
      SyncMemberships, SyncOrg
  <2>3. h \in Handler /\ h.pc \notin {"clear", "link"}
    BY <1>0, <2>1 DEF UpdateCipher, SetTrash, DeleteRow, DeleteGoing, FindMembership,
      FindGrants, SyncMemberships, SyncOrg, TypeInv, TypeOK
  <2>4. ASSUME NEW new \in running' \ running PROVE new.pc \notin {"clear", "link"}
    <3>1. CASE UpdateCipher(h) \/ SetTrash(h) \/ DeleteRow(h) \/ DeleteGoing(h)
      BY <2>4, <3>1 DEF UpdateCipher, SetTrash, DeleteRow, DeleteGoing, End
    <3>2. CASE FindMembership(h)
      <4>1. PICK pc \in {"write", "grants"} : new = [h EXCEPT !.access = Seen(h), !.pc = pc]
        BY <2>4, <3>2 DEF FindMembership, Become
      <4>. QED BY <2>3, <4>1 DEF Handler
    <3>3. CASE FindGrants(h)
      <4>1. new = [h EXCEPT !.pc = "write", !.access = Seen(h)]
        BY <2>4, <3>3 DEF FindGrants, Become
      <4>. QED BY <2>3, <4>1 DEF Handler
    <3>4. CASE SyncMemberships(h)
      <4>1. PICK pc \in {"answer", "org"} : new = [h EXCEPT !.pc = pc]
        BY <2>4, <3>4 DEF SyncMemberships, Become
      <4>. QED BY <2>3, <4>1 DEF Handler
    <3>5. CASE SyncOrg(h)
      <4>1. PICK more : new = [h EXCEPT !.pc = "answer", !.found = more]
        BY <2>4, <3>5 DEF SyncOrg, Become
      <4>. QED BY <2>3, <4>1 DEF Handler
    <3>. QED BY <2>1, <3>1, <3>2, <3>3, <3>4, <3>5
  <2>5. running \ {h} \subseteq running'
    BY <2>1 DEF UpdateCipher, SetTrash, DeleteRow, DeleteGoing, FindMembership,
      FindGrants, SyncMemberships, SyncOrg, Become, End
  <2>6. Linking(c)' = Linking(c)
    BY <2>3, <2>4, <2>5 DEF Linking
  <2>. QED BY <2>2, <2>6, Untouched DEF LinksOf
<1>5. CASE \E r \in Request \ Busy : Begin(r) /\ ~PurgeLinks(r)
                                  /\ ~ \E u \in User : UnlinkAccount(r, u)
  <2>1. links' = links /\ asked' = asked /\ running \subseteq running'
    BY <1>5 DEF Begin, BeginCreate, FindOwnCipher, FindCipher, SyncOwn
  <2>2. \A new \in running' \ running : new.pc \notin {"clear", "link"}
    <3>1. HandlersOK'
      BY <1>0, HandlersNext
    <3>2. ASSUME NEW new \in running' \ running
          PROVE  new.op \in Checked \cup {"create", "purge", "sync"} \/ new.pc = "member"
      <4>1. PICK r \in Request \ Busy : Begin(r) /\ ~PurgeLinks(r)
                                         /\ ~ \E u \in User : UnlinkAccount(r, u)
        BY <1>5
      <4>2. CASE \E u \in User : BeginCreate(r, u)
        BY <3>2, <4>2 DEF BeginCreate, Start
      <4>3. CASE \E u \in User : FindOwnCipher(r, u)
        BY <3>2, <4>3 DEF FindOwnCipher, Start
      <4>4. CASE \E u \in User, op \in Checked : FindCipher(r, u, op)
        BY <3>2, <4>4, FindCipherBegins
      <4>5. CASE \E u \in User : SyncOwn(r, u)
        BY <3>2, <4>5, SyncOwnBegins
      <4>. QED BY <4>1, <4>2, <4>3, <4>4, <4>5 DEF Begin
    <3>. QED BY <3>1, <3>2 DEF HandlersOK
  <2>3. Linking(c)' = Linking(c)
    BY <2>1, <2>2 DEF Linking
  <2>. QED BY <2>1, <2>3, Untouched DEF LinksOf
<1>6. CASE (Others /\ ~ \E col \in Collection : DropLinksOf(col)) \/ UNCHANGED vars
  <2>1. links' = links /\ asked' = asked /\ running' = running
    BY <1>6 DEF Others, PostCipher, SetRole, SetGrant, DeleteAllAt, Age, vars
  <2>2. Linking(c)' = Linking(c)
    BY <2>1 DEF Linking
  <2>. QED BY <2>1, <2>2, Untouched DEF LinksOf
<1>. QED BY <1>1, <1>2, <1>3, <1>4, <1>5, <1>6 DEF Next, Begin, Step

\* A cipher is in the collections last asked for it, unless a handler stopped
\* half-way, two writers of its collections met, or a purge or the deletion of an
\* account had deleted its links and not the cipher.
THEOREM LinksAsAskedAlways == Spec => []LinksAsAsked
<1>1. Init => LinksInv
  BY TypeInit DEF Init, LinksInv, LinkFine, LinksOf, Linking, Uuids
<1>2. LinksInv /\ [Next]_vars => LinksInv'
  BY TypeNext, LinksNext DEF LinksInv
<1>3. LinksInv => LinksAsAsked
  BY DEF LinksInv, LinkFine, LinksOf, LinksAsAsked, TypeInv, TypeOK
<1>. QED BY <1>1, <1>2, <1>3, PTL DEF Spec
-----------------------------------------------------------------------------
(* Requests one at a time: an update is not overtaken by a share.            *)

OneAtATime == \A r, s \in Request : r = s

Solo == \A g, h \in running : g = h

LEMMA SoloNext ==
  ASSUME OneAtATime, TypeInv, Solo, [Next]_vars PROVE Solo'
<1>1. ASSUME NEW r \in Request \ Busy, Begin(r) PROVE Solo'
  <2>1. running = {}
    <3>1. \A h \in running : h.id \in Request /\ h.id \in Busy
      BY DEF TypeInv, TypeOK, Handler, Busy
    <3>. QED BY <1>1, <3>1 DEF OneAtATime
  <2>2. \E new : running' = running \cup {new}
    BY <1>1 DEF Begin, BeginCreate, FindOwnCipher, FindCipher, SyncOwn, PurgeLinks, UnlinkAccount
  <2>. QED BY <2>1, <2>2 DEF Solo
<1>2. ASSUME NEW h \in running, Step(h) PROVE Solo'
  <2>1. running' = running \ {h} \/ \E new : running' = (running \ {h}) \cup {new}
    BY <1>2 DEF Step, InsertOrgCipher, FindMembership, FindGrants, UpdateCipher,
       SetTrash, DeleteRow, ShareRow, ClearLinks, SetLink, DeleteGoing, SyncMemberships,
       SyncOrg, Abandon, LinkAll, Become, End
  <2>. QED BY <2>1 DEF Solo
<1>3. CASE Others \/ UNCHANGED vars
  BY <1>3, OthersRun DEF Solo
<1>. QED BY <1>1, <1>2, <1>3 DEF Next

NoneCrossed == crossed = {}

LEMMA NothingCrossed ==
  ASSUME Solo, NoneCrossed, [Next]_vars PROVE NoneCrossed'
<1>. USE DEF NoneCrossed
<1>1. ASSUME NEW h \in running, ShareRow(h) PROVE crossed' = {}
  <2>1. {g \in running : g.op = "put" /\ g.cipher = h.cipher} = {}
    BY <1>1 DEF Solo, ShareRow
  <2>. QED BY <1>1, <2>1 DEF ShareRow
<1>2. CASE ~ \E h \in running : ShareRow(h)
  <2>1. UNCHANGED crossed
    BY <1>2 DEF vars, Next, Begin, BeginCreate, FindOwnCipher, FindCipher, SyncOwn,
       PurgeLinks, UnlinkAccount, Step, InsertOrgCipher, FindMembership, FindGrants, UpdateCipher,
       SetTrash, DeleteRow, ClearLinks, SetLink, DeleteGoing, SyncMemberships, SyncOrg,
       Abandon, Others, PostCipher, SetRole, SetGrant, DeleteAllAt, DropLinksOf, Age
  <2>. QED BY <2>1
<1>. QED BY <1>1, <1>2

\* Without overlapping requests a cipher is always encrypted for whoever its
\* home is, its notes and fields from the first update after a share on.
THEOREM KeysMatchAlone ==
  OneAtATime =>
    (Spec => [](\A row \in rows :
                  /\ row.data = row.home
                  /\ row.uuid \notin kept => row.notes = row.home))
<1>. SUFFICES ASSUME OneAtATime
              PROVE  Spec => [](\A row \in rows :
                                  /\ row.data = row.home
                                  /\ row.uuid \notin kept => row.notes = row.home)
  OBVIOUS
<1>1. Init => Solo /\ NoneCrossed
  BY DEF Init, Solo, NoneCrossed
<1>2. TypeInv /\ Solo /\ NoneCrossed /\ [Next]_vars => Solo' /\ NoneCrossed'
  BY SoloNext, NothingCrossed
<1>3. KeysExplained /\ NoneCrossed =>
        \A row \in rows : /\ row.data = row.home
                          /\ row.uuid \notin kept => row.notes = row.home
  BY DEF KeysExplained, NoneCrossed
<1>. QED BY <1>1, <1>2, <1>3, TypeInvariant, KeysExplainedAlways, PTL DEF Spec
=============================================================================
