---------------------------- MODULE SendsProofs ----------------------------
(***************************************************************************)
(* Proofs about Sends, for any number of sends and of requests at a time,   *)
(* any settings and any bounds.                                             *)
(***************************************************************************)
EXTENDS Sends, FiniteSetTheorems, TLAPS

-----------------------------------------------------------------------------
(* Type correctness.  A send's id stays unique because ids are not given out *)
(* twice, and nothing is remembered of a send that was not created.         *)

Fresh ==
  /\ \A row \in rows : row.uuid \in created
  /\ \A e \in edits : e.row.uuid \in created
  /\ \A u \in uploads : u.uuid \in created
  /\ \A v \in visits : v.uuid \in created
  /\ blobs \subseteq created /\ uploaded \subseteq created
  /\ \A s \in Send \ created : served[s] = 0

TypeInv == TypeOK /\ Fresh

LEMMA TypeInit == Init => TypeInv
BY DEF Init, TypeInv, TypeOK, Fresh

LEMMA CreateType ==
  ASSUME TypeInv, NEW s \in Send, Create(s) PROVE TypeInv'
<1>1. PICK new \in Row : /\ rows' = rows \cup {new}
                         /\ limits' = limits \cup {[uuid |-> s, max |-> new.max]}
                         /\ new.uuid = s
  <2>1. PICK file, locked \in BOOLEAN, set \in Settings :
          /\ rows' = rows \cup
               {[uuid |-> s, file |-> file, locked |-> locked, count |-> 0,
                 max |-> set.max, disabled |-> set.disabled,
                 expires |-> set.expires, deletes |-> set.deletes]}
          /\ limits' = limits \cup {[uuid |-> s, max |-> set.max]}
    BY DEF Create
  <2>2. set \in [max: Limits, disabled: BOOLEAN, expires: Limits, deletes: Nat]
    BY SettingsAssumption
  <2>3. [uuid |-> s, file |-> file, locked |-> locked, count |-> 0,
         max |-> set.max, disabled |-> set.disabled,
         expires |-> set.expires, deletes |-> set.deletes] \in Row
    BY <2>2 DEF Row
  <2>. QED BY <2>1, <2>3
<1>2. \A row \in rows : row.uuid # s
  BY DEF Create, TypeInv, Fresh
<1>3. new.max \in Limits
  BY DEF Row
<1>. QED BY <1>1, <1>2, <1>3 DEF Create, TypeInv, TypeOK, Fresh

\* The row an edit writes back, or a removal of the password.
LEMMA EditType ==
  ASSUME TypeInv, NEW r \in Request, BeginPut(r) \/ BeginRemovePassword(r)
  PROVE  \E row \in rows, new \in Row, op \in {"put", "remove_password"} :
           /\ edits' = edits \cup {[id |-> r, op |-> op, row |-> new,
                                    was |-> row.locked]}
           /\ new.uuid = row.uuid /\ new.file = row.file
           /\ op = "put" => new.locked = TRUE \/ ~row.locked
<1>1. CASE BeginPut(r)
  <2>1. PICK row \in rows, set \in Settings, lock \in BOOLEAN :
          edits' = edits \cup
            {[id |-> r, op |-> "put", was |-> row.locked,
              row |-> [row EXCEPT !.locked = @ \/ lock, !.max = set.max,
                        !.disabled = set.disabled, !.expires = set.expires,
                        !.deletes = set.deletes]]}
    BY <1>1 DEF BeginPut
  <2>. DEFINE new == [row EXCEPT !.locked = @ \/ lock, !.max = set.max,
                        !.disabled = set.disabled, !.expires = set.expires,
                        !.deletes = set.deletes]
  <2>2. row \in Row /\ set \in [max: Limits, disabled: BOOLEAN, expires: Limits,
                                deletes: Nat]
    BY SettingsAssumption DEF TypeInv, TypeOK
  <2>3. new \in Row /\ new.uuid = row.uuid /\ new.file = row.file
    BY <2>2 DEF Row
  <2>4. new.locked = (row.locked \/ lock) /\ row.locked \in BOOLEAN
    BY <2>2 DEF Row
  <2>5. new.locked = TRUE \/ ~row.locked
    BY <2>4
  <2>. QED BY <2>1, <2>3, <2>5
<1>2. CASE BeginRemovePassword(r)
  <2>1. PICK row \in rows :
          edits' = edits \cup
            {[id |-> r, op |-> "remove_password", was |-> row.locked,
              row |-> [row EXCEPT !.locked = FALSE]]}
    BY <1>2 DEF BeginRemovePassword
  <2>. DEFINE new == [row EXCEPT !.locked = FALSE]
  <2>2. new \in Row /\ new.uuid = row.uuid /\ new.file = row.file
    BY DEF Row, TypeInv, TypeOK
  <2>. QED BY <2>1, <2>2
<1>. QED BY <1>1, <1>2

LEMMA BeginEditType ==
  ASSUME TypeInv, NEW r \in Request, BeginPut(r) \/ BeginRemovePassword(r)
  PROVE  TypeInv'
<1>1. PICK row \in rows, new \in Row, op \in {"put", "remove_password"} :
        /\ edits' = edits \cup {[id |-> r, op |-> op, row |-> new,
                                 was |-> row.locked]}
        /\ new.uuid = row.uuid
  BY EditType
<1>2. UNCHANGED <<rows, blobs, account, uploads, visits, removals, now, created,
                  limits, served, uploaded, overlapped, failed, cut>>
  BY DEF BeginPut, BeginRemovePassword
<1>3. row.locked \in BOOLEAN /\ row.uuid \in created
  BY DEF Row, TypeInv, TypeOK, Fresh
<1>4. edits' \subseteq Edit
  BY <1>1, <1>3 DEF Edit, TypeInv, TypeOK
<1>. QED BY <1>1, <1>2, <1>3, <1>4 DEF TypeInv, TypeOK, Fresh

LEMMA WriteEditType ==
  ASSUME TypeInv, NEW e \in edits, WriteEdit(e) PROVE TypeInv'
<1>1. e.row \in Row
  BY DEF TypeInv, TypeOK, Edit
<1>2. \A row \in rows : row.uuid = e.row.uuid =>
        Written(row, e.row) \in Row /\ Written(row, e.row).uuid = row.uuid
  BY <1>1 DEF Written, Row, TypeInv, TypeOK
<1>3. rows' \subseteq Row /\ \A x, y \in rows' : x.uuid = y.uuid => x = y
  BY <1>2 DEF WriteEdit, TypeInv, TypeOK
<1>4. \A row \in rows' : row.uuid \in created
  BY <1>2 DEF WriteEdit, TypeInv, Fresh
<1>5. limits' \subseteq [uuid: Send, max: Limits]
  BY <1>1 DEF WriteEdit, Row, TypeInv, TypeOK
<1>6. overlapped' \subseteq Send
  BY <1>1 DEF WriteEdit, Row, TypeInv, TypeOK
<1>. QED BY <1>3, <1>4, <1>5, <1>6 DEF WriteEdit, TypeInv, TypeOK, Fresh

LEMMA UploadType ==
  ASSUME TypeInv, \/ \E r \in Request : BeginUpload(r)
                  \/ \E u \in uploads : PutBlob(u) \/ AbandonUpload(u)
  PROVE  TypeInv'
<1>1. ASSUME NEW r \in Request, BeginUpload(r) PROVE TypeInv'
  BY <1>1 DEF BeginUpload, TypeInv, TypeOK, Fresh, Row, Upload
<1>2. ASSUME NEW u \in uploads, PutBlob(u) PROVE TypeInv'
  BY <1>2 DEF PutBlob, TypeInv, TypeOK, Fresh, Upload
<1>3. ASSUME NEW u \in uploads, AbandonUpload(u) PROVE TypeInv'
  BY <1>3 DEF AbandonUpload, TypeInv, TypeOK, Fresh
<1>. QED BY <1>1, <1>2, <1>3

LEMMA VisitType ==
  ASSUME TypeInv, \/ \E r \in Request : BeginVisit(r)
                  \/ \E v \in visits : CountVisit(v) \/ Serve(v) \/ AbandonVisit(v)
  PROVE  TypeInv'
<1>1. ASSUME NEW r \in Request, BeginVisit(r) PROVE TypeInv'
  BY <1>1 DEF BeginVisit, TypeInv, TypeOK, Fresh, Row, Visit
<1>2. ASSUME NEW v \in visits, CountVisit(v) PROVE TypeInv'
  <2>. DEFINE f(row) == IF row.uuid = v.uuid THEN [row EXCEPT !.count = @ + 1] ELSE row
  <2>1. \A row \in rows : f(row) \in Row /\ f(row).uuid = row.uuid
    BY DEF Row, TypeInv, TypeOK
  <2>0. rows' = {f(row) : row \in rows}
    BY <1>2 DEF CountVisit
  <2>. HIDE DEF f
  <2>2. rows' \subseteq Row /\ \A x, y \in rows' : x.uuid = y.uuid => x = y
    BY <2>0, <2>1 DEF TypeInv, TypeOK
  <2>3. \A row \in rows' : row.uuid \in created
    BY <2>0, <2>1 DEF TypeInv, Fresh
  <2>4. [v EXCEPT !.pc = "serve"] \in Visit /\ [v EXCEPT !.pc = "serve"].uuid = v.uuid
    BY DEF Visit, TypeInv, TypeOK
  <2>. QED BY <1>2, <2>2, <2>3, <2>4 DEF CountVisit, TypeInv, TypeOK, Fresh
<1>3. ASSUME NEW v \in visits, Serve(v) PROVE TypeInv'
  <2>1. v.uuid \in Send /\ v.uuid \in created
    BY DEF Visit, TypeInv, TypeOK, Fresh
  <2>2. /\ served' \in [Send -> Nat]
        /\ \A s \in Send \ created : served'[s] = 0
    BY <1>3, <2>1 DEF Serve, TypeInv, TypeOK, Fresh
  <2>. QED BY <1>3, <2>2 DEF Serve, TypeInv, TypeOK, Fresh
<1>4. ASSUME NEW v \in visits, AbandonVisit(v) PROVE TypeInv'
  BY <1>4 DEF AbandonVisit, TypeInv, TypeOK, Fresh
<1>. QED BY <1>1, <1>2, <1>3, <1>4

LEMMA BeginRemovalType ==
  ASSUME TypeInv, NEW r \in Request,
         \/ BeginDelete(r) \/ BeginErase(r)
         \/ \E found \in BOOLEAN : BeginPurge(r, found)
  PROVE  TypeInv'
<1>1. ExpiredFiles \subseteq Send /\ OwnFiles \subseteq Send
  BY DEF ExpiredFiles, OwnFiles, Row, TypeInv, TypeOK
<1>2. CASE BeginDelete(r)
  <2>1. PICK row \in rows : removals' = removals \cup
          {[id |-> r, op |-> "delete", scope |-> {row.uuid},
            left |-> IF row.file THEN {row.uuid} ELSE {}, at |-> 0,
            pc |-> "files"]}
    BY <1>2 DEF BeginDelete
  <2>2. row.uuid \in Send
    BY DEF Row, TypeInv, TypeOK
  <2>3. removals' \subseteq Removal
    BY <2>1, <2>2 DEF Removal, TypeInv, TypeOK
  <2>. QED BY <1>2, <2>3 DEF BeginDelete, TypeInv, TypeOK, Fresh
<1>3. CASE BeginErase(r)
  BY <1>1, <1>3 DEF BeginErase, TypeInv, TypeOK, Fresh, Removal
<1>4. ASSUME NEW found \in BOOLEAN, BeginPurge(r, found) PROVE TypeInv'
  BY <1>1, <1>4 DEF BeginPurge, TypeInv, TypeOK, Fresh, Removal
<1>. QED BY <1>2, <1>3, <1>4

LEMMA RemovalStepType ==
  ASSUME TypeInv, NEW m \in removals, RemovalStep(m) PROVE TypeInv'
<1>0. m \in Removal
  BY DEF TypeInv, TypeOK
<1>1. ASSUME NEW s \in Send, NEW done \in BOOLEAN, DropFile(m, s, done) PROVE TypeInv'
  <2>1. [m EXCEPT !.left = @ \ {s}] \in Removal
    BY <1>0 DEF Removal
  <2>. QED BY <1>1, <2>1 DEF DropFile, TypeInv, TypeOK, Fresh
<1>2. CASE DropRows(m)
  <2>1. [m EXCEPT !.pc = "user"] \in Removal
    BY <1>0 DEF Removal
  <2>. QED BY <1>2, <2>1 DEF DropRows, TypeInv, TypeOK, Fresh
<1>3. CASE DropUser(m)
  BY <1>3 DEF DropUser, TypeInv, TypeOK, Fresh
<1>4. CASE AbandonRemoval(m)
  BY <1>0, <1>4 DEF AbandonRemoval, TypeInv, TypeOK, Fresh, Removal
<1>. QED BY <1>1, <1>2, <1>3, <1>4 DEF RemovalStep

LEMMA TypeStep == ASSUME TypeInv, [Next]_vars PROVE TypeInv'
<1>1. CASE Tick
  BY <1>1 DEF Tick, TypeInv, TypeOK, Fresh
<1>2. CASE \E s \in Send : Create(s)
  BY <1>2, CreateType
<1>3. CASE \E r \in Request : Begin(r)
  BY <1>3, BeginEditType, UploadType, VisitType, BeginRemovalType DEF Begin
<1>4. CASE \E e \in edits : WriteEdit(e)
  BY <1>4, WriteEditType
<1>5. CASE \E e \in edits : AbandonEdit(e)
  BY <1>5 DEF AbandonEdit, TypeInv, TypeOK, Fresh
<1>6. CASE \E u \in uploads : PutBlob(u) \/ AbandonUpload(u)
  BY <1>6, UploadType
<1>7. CASE \E v \in visits : CountVisit(v) \/ Serve(v) \/ AbandonVisit(v)
  BY <1>7, VisitType
<1>8. CASE \E m \in removals : RemovalStep(m)
  BY <1>8, RemovalStepType
<1>9. CASE UNCHANGED vars
  BY <1>9 DEF vars, TypeInv, TypeOK, Fresh
<1>. QED BY <1>1, <1>2, <1>3, <1>4, <1>5, <1>6, <1>7, <1>8, <1>9 DEF Next

LEMMA TypeInvariant == Spec => []TypeInv
BY TypeInit, TypeStep, PTL DEF Spec

\* Rows, handlers and histories are well formed, and a send has one row, for any
\* number of sends and requests.
THEOREM TypeCorrect == Spec => []TypeOK
BY TypeInvariant, PTL DEF TypeInv

-----------------------------------------------------------------------------
(* Where the rows after a step come from. *)

LEMMA RowOrigin ==
  ASSUME [Next]_vars, NEW y \in rows'
  PROVE  \/ y \in rows
         \/ \E s \in Send \ created : Create(s) /\ y.uuid = s /\ y.count = 0
         \/ \E e \in edits, x \in rows :
              WriteEdit(e) /\ x.uuid = e.row.uuid /\ y = Written(x, e.row)
         \/ \E v \in visits, x \in rows :
              CountVisit(v) /\ x.uuid = v.uuid /\ y = [x EXCEPT !.count = @ + 1]
<1>1. CASE \E s \in Send : Create(s)
  <2>1. PICK s \in Send, file, locked \in BOOLEAN, set \in Settings :
          /\ Create(s) /\ s \notin created
          /\ rows' = rows \cup
               {[uuid |-> s, file |-> file, locked |-> locked, count |-> 0,
                 max |-> set.max, disabled |-> set.disabled,
                 expires |-> set.expires, deletes |-> set.deletes]}
    BY <1>1 DEF Create
  <2>. QED BY <2>1
<1>2. CASE \E e \in edits : WriteEdit(e)
  <2>1. PICK e \in edits : WriteEdit(e)
    BY <1>2
  <2>2. PICK x \in rows : y = IF x.uuid = e.row.uuid THEN Written(x, e.row) ELSE x
    BY <2>1 DEF WriteEdit
  <2>. QED BY <2>1, <2>2
<1>3. CASE \E v \in visits : CountVisit(v)
  <2>1. PICK v \in visits : CountVisit(v)
    BY <1>3
  <2>2. PICK x \in rows : y = IF x.uuid = v.uuid THEN [x EXCEPT !.count = @ + 1] ELSE x
    BY <2>1 DEF CountVisit
  <2>. QED BY <2>1, <2>2
<1>4. CASE \E m \in removals : DropRows(m)
  BY <1>4 DEF DropRows
<1>5. CASE UNCHANGED rows
  BY <1>5
<1>6. \/ \E s \in Send : Create(s)
      \/ \E e \in edits : WriteEdit(e)
      \/ \E v \in visits : CountVisit(v)
      \/ \E m \in removals : DropRows(m)
      \/ UNCHANGED rows
  BY DEF Next, vars, Tick, Begin, BeginPut, BeginRemovePassword, BeginUpload,
    BeginVisit, BeginDelete, BeginErase, BeginPurge, AbandonEdit, PutBlob,
    AbandonUpload, Serve, AbandonVisit, RemovalStep, DropFile, DropUser,
    AbandonRemoval
<1>. QED BY <1>1, <1>2, <1>3, <1>4, <1>5, <1>6

\* Edits begin in two ways, and otherwise only end.
LEMMA EditsEffect ==
  ASSUME [Next]_vars
  PROVE  \/ edits' \subseteq edits
         \/ \E r \in Request : BeginPut(r) \/ BeginRemovePassword(r)
BY DEF Next, vars, Tick, Create, Begin, BeginUpload, BeginVisit, BeginDelete,
  BeginErase, BeginPurge, WriteEdit, AbandonEdit, PutBlob, AbandonUpload,
  CountVisit, Serve, AbandonVisit, RemovalStep, DropFile, DropRows, DropUser,
  AbandonRemoval

\* Ids are never forgotten.
LEMMA CreatedGrows == ASSUME [Next]_vars PROVE created \subseteq created'
BY DEF Next, vars, Tick, Create, Begin, BeginPut, BeginRemovePassword, BeginUpload,
  BeginVisit, BeginDelete, BeginErase, BeginPurge, WriteEdit, AbandonEdit, PutBlob,
  AbandonUpload, CountVisit, Serve, AbandonVisit, RemovalStep, DropFile, DropRows,
  DropUser, AbandonRemoval

-----------------------------------------------------------------------------
(* What an edit in flight knows: the kind of its send, which never changes,  *)
(* and whether it may take the password away.                               *)

EditsKnow ==
  \A e \in edits :
    /\ \A row \in rows : row.uuid = e.row.uuid => row.file = e.row.file
    /\ e.was => e.op = "remove_password" \/ e.row.locked

\* A row after a step is of a new send, or of one that had a row of that kind.
LEMMA KindKept ==
  ASSUME TypeInv, EditsKnow, [Next]_vars, NEW y \in rows'
  PROVE  \/ y.uuid \notin created
         \/ \E x \in rows : x.uuid = y.uuid /\ x.file = y.file
<1>1. ASSUME NEW e \in edits, NEW x \in rows, x.uuid = e.row.uuid,
             y = Written(x, e.row)
      PROVE  x.uuid = y.uuid /\ x.file = y.file
  <2>1. e.row \in Row
    BY DEF TypeInv, TypeOK, Edit
  <2>2. y.uuid = e.row.uuid /\ y.file = e.row.file
    BY <1>1, <2>1 DEF Written, Row
  <2>. QED BY <1>1, <2>2 DEF EditsKnow
<1>2. ASSUME NEW x \in rows, y = [x EXCEPT !.count = @ + 1]
      PROVE  x.uuid = y.uuid /\ x.file = y.file
  BY <1>2 DEF TypeInv, TypeOK, Row
<1>. QED BY <1>1, <1>2, RowOrigin

LEMMA EditsKnowStep ==
  ASSUME TypeInv, EditsKnow, [Next]_vars PROVE EditsKnow'
<1>1. ASSUME NEW e \in edits, NEW y \in rows', y.uuid = e.row.uuid
      PROVE  y.file = e.row.file
  BY <1>1, KindKept DEF TypeInv, Fresh, EditsKnow
<1>2. CASE edits' \subseteq edits
  BY <1>1, <1>2 DEF EditsKnow
<1>3. CASE \E r \in Request : BeginPut(r) \/ BeginRemovePassword(r)
  <2>1. PICK r \in Request : BeginPut(r) \/ BeginRemovePassword(r)
    BY <1>3
  <2>2. PICK row \in rows, new \in Row, op \in {"put", "remove_password"} :
          /\ edits' = edits \cup {[id |-> r, op |-> op, row |-> new,
                                   was |-> row.locked]}
          /\ new.uuid = row.uuid /\ new.file = row.file
          /\ op = "put" => new.locked = TRUE \/ ~row.locked
    BY <2>1, EditType
  <2>3. rows' = rows
    BY <2>1 DEF BeginPut, BeginRemovePassword
  <2>4. \A x \in rows : x.uuid = new.uuid => x.file = new.file
    BY <2>2 DEF TypeInv, TypeOK
  <2>5. row.locked => op = "remove_password" \/ new.locked
    BY <2>2
  <2>. QED BY <1>1, <2>2, <2>3, <2>4, <2>5 DEF EditsKnow
<1>. QED BY <1>2, <1>3, EditsEffect

LEMMA EditsKnowInvariant == Spec => [](TypeInv /\ EditsKnow)
<1>1. Init => EditsKnow
  BY DEF Init, EditsKnow
<1>. QED BY <1>1, TypeInit, TypeStep, EditsKnowStep, PTL DEF Spec

\* A deleted send never comes back: an edit updates the row it read, and does
\* not insert it.
THEOREM DeletionFinal == Spec => DeletedStaysDeleted
<1>1. ASSUME TypeInv, EditsKnow, [Next]_vars, NEW s \in created, ~Has(s)
      PROVE  ~Has(s)'
  BY <1>1, KindKept DEF Has
<1>2. TypeInv /\ EditsKnow /\ [Next]_vars =>
        [\A s \in created : ~Has(s) => ~Has(s)']_vars
  BY <1>1
<1>. QED BY <1>2, EditsKnowInvariant, PTL DEF Spec, DeletedStaysDeleted

LEMMA PasswordStep ==
  ASSUME TypeInv, EditsKnow, [Next]_vars, NEW x \in rows, NEW y \in rows',
         x.uuid = y.uuid, x.locked, ~y.locked
  PROVE  \E e \in edits \ edits' :
           e.row.uuid = x.uuid /\ (e.was => e.op = "remove_password")
<1>1. y \notin rows
  BY DEF TypeInv, TypeOK
<1>2. ASSUME NEW z \in rows, y = [z EXCEPT !.count = @ + 1] PROVE FALSE
  <2>1. z.uuid = y.uuid /\ z.locked = y.locked
    BY <1>2 DEF TypeInv, TypeOK, Row
  <2>. QED BY <2>1 DEF TypeInv, TypeOK
<1>3. x.uuid \in created
  BY DEF TypeInv, Fresh
<1>4. PICK e \in edits, z \in rows :
        WriteEdit(e) /\ z.uuid = e.row.uuid /\ y = Written(z, e.row)
  BY <1>1, <1>2, <1>3, RowOrigin
<1>5. e.row \in Row
  BY DEF TypeInv, TypeOK, Edit
<1>6. y.uuid = e.row.uuid /\ y.locked = e.row.locked
  BY <1>4, <1>5 DEF Written, Row
<1>7. e \notin edits'
  BY <1>4 DEF WriteEdit
<1>8. e.was => e.op = "remove_password"
  BY <1>6 DEF EditsKnow
<1>. QED BY <1>6, <1>7, <1>8

\* A send loses its password only to whom asked for that, or read it without
\* one: an edit that began before writes back what it read.
THEOREM PasswordKept == Spec => PasswordOutlivesEdits
<1>1. TypeInv /\ EditsKnow /\ [Next]_vars =>
        [\A x \in rows, y \in rows' :
           x.uuid = y.uuid /\ x.locked /\ ~y.locked =>
             \E e \in edits \ edits' :
               e.row.uuid = x.uuid /\ (e.was => e.op = "remove_password")]_vars
  BY PasswordStep
<1>. QED BY <1>1, EditsKnowInvariant, PTL DEF Spec, PasswordOutlivesEdits

-----------------------------------------------------------------------------
(* Rows and files.  Only file sends get files; each removal has, among the   *)
(* files it has still to delete, those of all rows that its DELETE will take,*)
(* but for those left behind or interfered with; and a row without its file  *)
(* is one that a removal is about to take.                                  *)

Holding == blobs \cup uploaded \cup {u.uuid : u \in uploads}

FileKinds == \A row \in rows : row.uuid \in Holding => row.file

LeftFits ==
  \A m \in removals : /\ m.left \subseteq m.scope /\ m.left \subseteq created
                      /\ m.left # {} => m.pc = "files"

FoundInScope ==
  \A m \in removals, row \in rows :
    row.uuid \in m.left => InScope(m, row) \/ row.uuid \in overlapped

AllFound ==
  \A m \in removals, row \in rows :
    m.pc = "files" /\ InScope(m, row) /\ row.uuid \in blobs
      => row.uuid \in m.left \cup overlapped \cup failed

GoingWithFile ==
  \A row \in rows : row.uuid \in uploaded \ blobs =>
    \/ row.uuid \in overlapped \cup cut
    \/ \E m \in removals : m.pc = "files" /\ InScope(m, row)

FilesInv == /\ TypeInv /\ EditsKnow /\ FileKinds /\ LeftFits /\ FoundInScope
            /\ AllFound /\ OrphanExplained /\ GoingWithFile

LEMMA HistoryGrows ==
  ASSUME [Next]_vars
  PROVE  /\ overlapped \subseteq overlapped' /\ failed \subseteq failed'
         /\ cut \subseteq cut'
BY DEF Next, vars, Tick, Create, Begin, BeginPut, BeginRemovePassword, BeginUpload,
  BeginVisit, BeginDelete, BeginErase, BeginPurge, WriteEdit, AbandonEdit, PutBlob,
  AbandonUpload, CountVisit, Serve, AbandonVisit, RemovalStep, DropFile, DropRows,
  DropUser, AbandonRemoval

\* The actions that store or delete a file.
LEMMA FilesEffect ==
  ASSUME [Next]_vars
  PROVE  \/ UNCHANGED <<blobs, uploaded>>
         \/ \E u \in uploads : PutBlob(u)
         \/ \E m \in removals, s \in Send : DropFile(m, s, TRUE)
BY DEF Next, vars, Tick, Create, Begin, BeginPut, BeginRemovePassword, BeginUpload,
  BeginVisit, BeginDelete, BeginErase, BeginPurge, WriteEdit, AbandonEdit, PutBlob,
  AbandonUpload, CountVisit, Serve, AbandonVisit, RemovalStep, DropFile, DropRows,
  DropUser, AbandonRemoval

LEMMA UploadsEffect ==
  ASSUME [Next]_vars
  PROVE  uploads' \subseteq uploads \/ \E r \in Request : BeginUpload(r)
BY DEF Next, vars, Tick, Create, Begin, BeginPut, BeginRemovePassword,
  BeginVisit, BeginDelete, BeginErase, BeginPurge, WriteEdit, AbandonEdit, PutBlob,
  AbandonUpload, CountVisit, Serve, AbandonVisit, RemovalStep, DropFile, DropRows,
  DropUser, AbandonRemoval

\* The removals after a step: those before, new ones, and one that went on.
LEMMA RemovalOrigin ==
  ASSUME [Next]_vars, NEW m \in removals'
  PROVE  \/ m \in removals
         \/ \E r \in Request : \/ BeginDelete(r) \/ BeginErase(r)
                               \/ \E found \in BOOLEAN : BeginPurge(r, found)
         \/ \E g \in removals, s \in Send, done \in BOOLEAN :
              DropFile(g, s, done) /\ m = [g EXCEPT !.left = @ \ {s}]
         \/ \E g \in removals : DropRows(g) /\ m = [g EXCEPT !.pc = "user"]
<1>1. ASSUME NEW g \in removals, NEW s \in Send, NEW done \in BOOLEAN,
             DropFile(g, s, done)
      PROVE  m \in removals \/ m = [g EXCEPT !.left = @ \ {s}]
  BY <1>1 DEF DropFile
<1>2. ASSUME NEW g \in removals, DropRows(g)
      PROVE  m \in removals \/ m = [g EXCEPT !.pc = "user"]
  BY <1>2 DEF DropRows
<1>3. \/ removals' \subseteq removals
      \/ \E r \in Request : \/ BeginDelete(r) \/ BeginErase(r)
                            \/ \E found \in BOOLEAN : BeginPurge(r, found)
      \/ \E g \in removals, s \in Send, done \in BOOLEAN : DropFile(g, s, done)
      \/ \E g \in removals : DropRows(g)
  BY DEF Next, vars, Tick, Create, Begin, BeginPut, BeginRemovePassword, BeginUpload,
    BeginVisit, WriteEdit, AbandonEdit, PutBlob, AbandonUpload, CountVisit, Serve,
    AbandonVisit, RemovalStep, DropUser, AbandonRemoval
<1>. QED BY <1>1, <1>2, <1>3

\* A removal that is no longer there went on, or ended.
LEMMA RemovalFate ==
  ASSUME [Next]_vars, NEW m \in removals
  PROVE  \/ m \in removals'
         \/ \E s \in Send, done \in BOOLEAN : DropFile(m, s, done)
         \/ DropRows(m) \/ DropUser(m) \/ AbandonRemoval(m)
<1>1. \/ removals \subseteq removals'
      \/ \E g \in removals : RemovalStep(g)
  BY DEF Next, vars, Tick, Create, Begin, BeginPut, BeginRemovePassword, BeginUpload,
    BeginVisit, BeginDelete, BeginErase, BeginPurge, WriteEdit, AbandonEdit, PutBlob,
    AbandonUpload, CountVisit, Serve, AbandonVisit
<1>2. ASSUME NEW g \in removals, RemovalStep(g), g # m PROVE m \in removals'
  BY <1>2 DEF RemovalStep, DropFile, DropRows, DropUser, AbandonRemoval
<1>. QED BY <1>1, <1>2 DEF RemovalStep

\* A step changes what a removal makes of a row only if it writes the row, which
\* is remembered where it could matter.
LEMMA ScopeKept ==
  ASSUME TypeInv, [Next]_vars, NEW y \in rows', y.uuid \in created,
         NEW m \in removals
  PROVE  \E x \in rows : /\ x.uuid = y.uuid
                         /\ \/ InScope(m, x) = InScope(m, y)
                            \/ y.uuid \in overlapped'
<1>1. CASE y \in rows
  BY <1>1
<1>2. ASSUME NEW e \in edits, NEW x \in rows, WriteEdit(e), x.uuid = e.row.uuid,
             y = Written(x, e.row)
      PROVE  /\ x.uuid = y.uuid
             /\ InScope(m, x) = InScope(m, y) \/ y.uuid \in overlapped'
  <2>1. e.row \in Row
    BY DEF TypeInv, TypeOK, Edit
  <2>2. y.uuid = e.row.uuid
    BY <1>2, <2>1 DEF Written, Row
  <2>3. CASE m.op = "purge"
    BY <1>2, <2>2, <2>3 DEF WriteEdit
  <2>4. CASE m.op # "purge"
    BY <1>2, <2>2, <2>4 DEF InScope
  <2>. QED BY <1>2, <2>2, <2>3, <2>4
<1>3. ASSUME NEW x \in rows, y = [x EXCEPT !.count = @ + 1]
      PROVE  x.uuid = y.uuid /\ InScope(m, x) = InScope(m, y)
  BY <1>3 DEF TypeInv, TypeOK, Row, InScope
<1>. QED BY <1>1, <1>2, <1>3, RowOrigin

\* Rows disappear only in the DELETE of a removal.
LEMMA RowGone ==
  ASSUME TypeInv, [Next]_vars, NEW x \in rows, ~Has(x.uuid)'
  PROVE  \E m \in removals : DropRows(m) /\ InScope(m, x)
<1>1. ASSUME NEW e \in edits, WriteEdit(e) PROVE FALSE
  <2>1. e.row \in Row
    BY DEF TypeInv, TypeOK, Edit
  <2>2. \A row \in rows : row.uuid = e.row.uuid => Written(row, e.row).uuid = row.uuid
    BY <2>1 DEF Written, Row
  <2>. QED BY <1>1, <2>2 DEF WriteEdit, Has
<1>2. ASSUME NEW v \in visits, CountVisit(v) PROVE FALSE
  <2>. DEFINE f(row) == IF row.uuid = v.uuid THEN [row EXCEPT !.count = @ + 1] ELSE row
  <2>1. f(x).uuid = x.uuid
    BY DEF TypeInv, TypeOK, Row
  <2>2. f(x) \in rows'
    BY <1>2 DEF CountVisit
  <2>. QED BY <2>1, <2>2 DEF Has
<1>3. ASSUME rows \subseteq rows' PROVE FALSE
  BY <1>3 DEF Has
<1>4. \/ rows \subseteq rows'
      \/ \E e \in edits : WriteEdit(e)
      \/ \E v \in visits : CountVisit(v)
      \/ \E m \in removals : DropRows(m)
  BY DEF Next, vars, Tick, Create, Begin, BeginPut, BeginRemovePassword, BeginUpload,
    BeginVisit, BeginDelete, BeginErase, BeginPurge, AbandonEdit, PutBlob,
    AbandonUpload, Serve, AbandonVisit, RemovalStep, DropFile, DropUser,
    AbandonRemoval
<1>5. PICK m \in removals : DropRows(m)
  BY <1>1, <1>2, <1>3, <1>4
<1>. QED BY <1>5 DEF DropRows, Has

LEMMA FileKindsStep ==
  ASSUME TypeInv, EditsKnow, FileKinds, [Next]_vars PROVE FileKinds'
<1>. SUFFICES ASSUME NEW y \in rows', y.uuid \in Holding' PROVE y.file
  BY DEF FileKinds
<1>1. CASE y.uuid \in Holding
  <2>1. y.uuid \in created
    BY <1>1 DEF Holding, TypeInv, Fresh
  <2>. QED BY <1>1, <2>1, KindKept DEF FileKinds
<1>2. CASE y.uuid \notin Holding
  <2>1. \/ UNCHANGED <<blobs, uploaded>>
        \/ \E u \in uploads : PutBlob(u)
        \/ \E m \in removals, s \in Send : DropFile(m, s, TRUE)
    BY FilesEffect
  <2>2. blobs' \cup uploaded' \subseteq Holding
    BY <2>1 DEF Holding, PutBlob, DropFile
  <2>3. ~ (uploads' \subseteq uploads)
    BY <1>2, <2>2 DEF Holding
  <2>4. PICK r \in Request : BeginUpload(r)
    BY <2>3, UploadsEffect
  <2>5. PICK row \in rows : row.file /\ uploads' = uploads \cup {[id |-> r, uuid |-> row.uuid]}
    BY <2>4 DEF BeginUpload
  <2>6. rows' = rows /\ y.uuid = row.uuid
    BY <1>2, <2>2, <2>4, <2>5 DEF Holding, BeginUpload
  <2>. QED BY <2>5, <2>6 DEF TypeInv, TypeOK
<1>. QED BY <1>1, <1>2

\* What a removal that begins has found, of all that its DELETE would take.
LEMMA BeginRemovalFinds ==
  ASSUME TypeInv, FileKinds, NEW r \in Request,
         \/ BeginDelete(r) \/ BeginErase(r)
         \/ \E found \in BOOLEAN : BeginPurge(r, found),
         NEW m \in removals', m \notin removals
  PROVE  /\ m.left \subseteq m.scope /\ m.left \subseteq created /\ m.pc = "files"
         /\ \A row \in rows : row.uuid \in m.left => InScope(m, row)
         /\ \A row \in rows : InScope(m, row) /\ row.uuid \in blobs
                                => row.uuid \in m.left \cup failed'
         /\ UNCHANGED <<rows, blobs>>
<1>1. \A row \in rows : row.uuid \in blobs => row.file
  BY DEF FileKinds, Holding
<1>2. \A row \in rows : row.uuid \in Send /\ row.uuid \in created
  BY DEF TypeInv, TypeOK, Row, Fresh
<1>3. CASE BeginDelete(r)
  <2>1. PICK row \in rows : m =
          [id |-> r, op |-> "delete", scope |-> {row.uuid},
           left |-> IF row.file THEN {row.uuid} ELSE {}, at |-> 0,
           pc |-> "files"]
    BY <1>3 DEF BeginDelete
  <2>2. /\ m.scope = {row.uuid} /\ m.op = "delete" /\ m.pc = "files"
        /\ m.left = IF row.file THEN {row.uuid} ELSE {}
    BY <2>1
  <2>3. \A x \in rows : x.uuid = row.uuid => x = row
    BY DEF TypeInv, TypeOK
  <2>. QED BY <1>1, <1>2, <1>3, <2>2, <2>3 DEF BeginDelete, InScope
<1>4. CASE BeginErase(r)
  <2>1. m = [id |-> r, op |-> "erase", scope |-> Send, left |-> OwnFiles,
             at |-> 0, pc |-> "files"]
    BY <1>4 DEF BeginErase
  <2>2. m.scope = Send /\ m.op = "erase" /\ m.pc = "files" /\ m.left = OwnFiles
    BY <2>1
  <2>. QED BY <1>1, <1>2, <1>4, <2>2 DEF BeginErase, InScope, OwnFiles
<1>5. ASSUME NEW found \in BOOLEAN, BeginPurge(r, found) PROVE
         /\ m.left \subseteq m.scope /\ m.left \subseteq created /\ m.pc = "files"
         /\ \A row \in rows : row.uuid \in m.left => InScope(m, row)
         /\ \A row \in rows : InScope(m, row) /\ row.uuid \in blobs
                                => row.uuid \in m.left \cup failed'
         /\ UNCHANGED <<rows, blobs>>
  <2>1. m = [id |-> r, op |-> "purge", scope |-> Send,
             left |-> IF found THEN ExpiredFiles ELSE {}, at |-> now,
             pc |-> "files"]
    BY <1>5 DEF BeginPurge
  <2>2. /\ m.scope = Send /\ m.op = "purge" /\ m.pc = "files" /\ m.at = now
        /\ m.left = IF found THEN ExpiredFiles ELSE {}
    BY <2>1
  <2>3. \A x \in rows : x.uuid \in ExpiredFiles => x.file /\ x.deletes <= now
    BY DEF ExpiredFiles, TypeInv, TypeOK
  <2>4. ExpiredFiles \subseteq created
    BY <1>2 DEF ExpiredFiles
  <2>5. \A x \in rows : x.file /\ x.deletes <= now => x.uuid \in ExpiredFiles
    BY DEF ExpiredFiles
  <2>6. /\ UNCHANGED <<rows, blobs>>
        /\ ~found => blobs \subseteq failed'
    BY <1>5 DEF BeginPurge
  <2>7. ExpiredFiles \subseteq Send
    BY <1>2 DEF ExpiredFiles
  <2>. QED BY <1>1, <1>2, <2>2, <2>3, <2>4, <2>5, <2>6, <2>7 DEF InScope
<1>. QED BY <1>3, <1>4, <1>5

LEMMA LeftFitsStep ==
  ASSUME TypeInv, FileKinds, LeftFits, [Next]_vars PROVE LeftFits'
<1>. SUFFICES ASSUME NEW m \in removals'
              PROVE  /\ m.left \subseteq m.scope /\ m.left \subseteq created'
                     /\ m.left # {} => m.pc = "files"
  BY DEF LeftFits
<1>1. CASE m \in removals
  BY <1>1, CreatedGrows DEF LeftFits
<1>2. CASE m \notin removals /\ \E r \in Request :
             \/ BeginDelete(r) \/ BeginErase(r)
             \/ \E found \in BOOLEAN : BeginPurge(r, found)
  BY <1>2, CreatedGrows, BeginRemovalFinds
<1>3. ASSUME NEW g \in removals, NEW s \in Send, m = [g EXCEPT !.left = @ \ {s}]
      PROVE  /\ m.left \subseteq m.scope /\ m.left \subseteq created'
             /\ m.left # {} => m.pc = "files"
  <2>1. m.left = g.left \ {s} /\ m.scope = g.scope /\ m.pc = g.pc
    BY <1>3 DEF TypeInv, TypeOK, Removal
  <2>. QED BY <2>1, CreatedGrows DEF LeftFits
<1>4. ASSUME NEW g \in removals, DropRows(g), m = [g EXCEPT !.pc = "user"]
      PROVE  m.left = {}
  BY <1>4 DEF TypeInv, TypeOK, Removal, DropRows
<1>. QED BY <1>1, <1>2, <1>3, <1>4, RemovalOrigin

\* A removal that goes on takes the same rows.
LEMMA SameScope ==
  ASSUME TypeInv, NEW g \in removals, NEW s, NEW row
  PROVE  LET m == [g EXCEPT !.left = @ \ {s}]
         IN /\ m.left = g.left \ {s} /\ m.pc = g.pc
            /\ InScope(m, row) = InScope(g, row)
BY DEF TypeInv, TypeOK, Removal, InScope

LEMMA FoundInScopeStep ==
  ASSUME TypeInv, FileKinds, LeftFits, FoundInScope, [Next]_vars PROVE FoundInScope'
<1>. SUFFICES ASSUME NEW m \in removals', NEW y \in rows', y.uuid \in m.left
              PROVE  InScope(m, y) \/ y.uuid \in overlapped'
  BY DEF FoundInScope
<1>1. CASE m \in removals
  <2>1. y.uuid \in created
    BY <1>1 DEF LeftFits
  <2>2. PICK x \in rows : /\ x.uuid = y.uuid
                          /\ \/ InScope(m, x) = InScope(m, y)
                             \/ y.uuid \in overlapped'
    BY <1>1, <2>1, ScopeKept
  <2>. QED BY <1>1, <2>2, HistoryGrows DEF FoundInScope
<1>2. CASE m \notin removals /\ \E r \in Request :
             \/ BeginDelete(r) \/ BeginErase(r)
             \/ \E found \in BOOLEAN : BeginPurge(r, found)
  BY <1>2, BeginRemovalFinds
<1>3. ASSUME NEW g \in removals, NEW s \in Send, NEW done \in BOOLEAN,
             DropFile(g, s, done), m = [g EXCEPT !.left = @ \ {s}]
      PROVE  InScope(m, y) \/ y.uuid \in overlapped'
  <2>1. m.left = g.left \ {s} /\ InScope(m, y) = InScope(g, y)
    BY <1>3, SameScope
  <2>. QED BY <1>3, <2>1 DEF DropFile, FoundInScope
<1>4. ASSUME NEW g \in removals, DropRows(g), m = [g EXCEPT !.pc = "user"]
      PROVE  m.left = {}
  BY <1>4 DEF TypeInv, TypeOK, Removal, DropRows
<1>. QED BY <1>1, <1>2, <1>3, <1>4, RemovalOrigin

LEMMA AllFoundStep ==
  ASSUME TypeInv, FileKinds, AllFound, [Next]_vars PROVE AllFound'
<1>. SUFFICES ASSUME NEW m \in removals', NEW y \in rows', m.pc = "files",
                     InScope(m, y), y.uuid \in blobs'
              PROVE  y.uuid \in m.left \cup overlapped' \cup failed'
  BY DEF AllFound
<1>1. ASSUME m \in removals, y.uuid \in blobs
      PROVE  y.uuid \in m.left \cup overlapped' \cup failed'
  <2>1. y.uuid \in created
    BY <1>1 DEF TypeInv, Fresh
  <2>2. PICK x \in rows : /\ x.uuid = y.uuid
                          /\ \/ InScope(m, x) = InScope(m, y)
                             \/ y.uuid \in overlapped'
    BY <1>1, <2>1, ScopeKept
  <2>. QED BY <1>1, <2>2, HistoryGrows DEF AllFound
<1>2. ASSUME m \in removals, y.uuid \notin blobs
      PROVE  y.uuid \in overlapped'
  <2>1. PICK u \in uploads : PutBlob(u)
    BY <1>2, FilesEffect DEF DropFile
  <2>2. y.uuid = u.uuid
    BY <1>2, <2>1 DEF PutBlob
  <2>3. UnderRemoval(u.uuid)
    BY <1>2, <2>2 DEF UnderRemoval, InScope
  <2>. QED BY <2>1, <2>2, <2>3 DEF PutBlob
<1>3. CASE m \notin removals /\ \E r \in Request :
             \/ BeginDelete(r) \/ BeginErase(r)
             \/ \E found \in BOOLEAN : BeginPurge(r, found)
  BY <1>3, BeginRemovalFinds
<1>4. ASSUME NEW g \in removals, NEW s \in Send, NEW done \in BOOLEAN,
             DropFile(g, s, done), m = [g EXCEPT !.left = @ \ {s}]
      PROVE  y.uuid \in m.left \cup overlapped' \cup failed'
  <2>1. m.left = g.left \ {s} /\ m.pc = g.pc /\ InScope(m, y) = InScope(g, y)
    BY <1>4, SameScope
  <2>2. /\ UNCHANGED <<rows, overlapped>>
        /\ IF done THEN blobs' = blobs \ {s} /\ UNCHANGED failed
                   ELSE failed' = failed \cup {s} /\ UNCHANGED blobs
    BY <1>4 DEF DropFile
  <2>3. y.uuid \in g.left \cup overlapped \cup failed
    BY <2>1, <2>2 DEF AllFound
  <2>. QED BY <2>1, <2>2, <2>3
<1>5. ASSUME NEW g \in removals, m = [g EXCEPT !.pc = "user"] PROVE FALSE
  BY <1>5 DEF TypeInv, TypeOK, Removal
<1>. QED BY <1>1, <1>2, <1>3, <1>4, <1>5, RemovalOrigin

LEMMA OrphanStep ==
  ASSUME TypeInv, AllFound, OrphanExplained, [Next]_vars PROVE OrphanExplained'
<1>. SUFFICES ASSUME NEW s \in blobs', ~Has(s)'
              PROVE  s \in overlapped' \cup failed'
  BY DEF OrphanExplained
<1>1. CASE s \in blobs /\ ~Has(s)
  BY <1>1, HistoryGrows DEF OrphanExplained
<1>2. CASE s \in blobs /\ Has(s)
  <2>1. PICK x \in rows : x.uuid = s
    BY <1>2 DEF Has
  <2>2. ~Has(x.uuid)'
    BY <2>1
  <2>3. PICK m \in removals : DropRows(m) /\ InScope(m, x)
    BY <2>2, RowGone
  <2>4. m.pc = "files" /\ m.left = {}
    BY <2>3 DEF DropRows
  <2>. QED BY <1>2, <2>1, <2>3, <2>4, HistoryGrows DEF AllFound
<1>3. CASE s \notin blobs
  <2>1. PICK u \in uploads : PutBlob(u)
    BY <1>3, FilesEffect DEF DropFile
  <2>2. s = u.uuid /\ rows' = rows
    BY <1>3, <2>1 DEF PutBlob
  <2>3. ~Has(u.uuid)
    BY <2>2 DEF Has
  <2>. QED BY <2>1, <2>2, <2>3 DEF PutBlob
<1>. QED BY <1>1, <1>2, <1>3

LEMMA GoingStep ==
  ASSUME FilesInv, [Next]_vars PROVE GoingWithFile'
<1>. USE DEF FilesInv
<1>. SUFFICES ASSUME NEW y \in rows', y.uuid \in uploaded', y.uuid \notin blobs'
              PROVE  \/ y.uuid \in overlapped' \cup cut'
                     \/ \E m \in removals' : m.pc = "files" /\ InScope(m, y)
  BY DEF GoingWithFile
<1>1. y.uuid \in uploaded
  BY FilesEffect DEF PutBlob, DropFile
<1>2. y.uuid \in created
  BY <1>1 DEF TypeInv, Fresh
<1>3. CASE y.uuid \in blobs
  <2>1. PICK g \in removals, s \in Send : DropFile(g, s, TRUE)
    BY <1>3, FilesEffect DEF PutBlob
  <2>2. s = y.uuid /\ s \in g.left /\ rows' = rows
    BY <1>3, <2>1 DEF DropFile
  <2>3. InScope(g, y) \/ y.uuid \in overlapped
    BY <2>2 DEF FoundInScope
  <2>4. g.pc = "files"
    BY <2>2 DEF LeftFits
  <2>5. [g EXCEPT !.left = @ \ {s}] \in removals'
    BY <2>1 DEF DropFile
  <2>6. InScope(g, y) => InScope([g EXCEPT !.left = @ \ {s}], y)
        /\ [g EXCEPT !.left = @ \ {s}].pc = g.pc
    BY SameScope
  <2>. QED BY <2>3, <2>4, <2>5, <2>6, HistoryGrows
<1>4. CASE y.uuid \notin blobs
  <2>1. PICK x \in rows : x.uuid = y.uuid
    BY <1>2, KindKept
  <2>2. CASE y.uuid \in overlapped \cup cut
    BY <2>2, HistoryGrows
  <2>3. ASSUME NEW m \in removals, m.pc = "files", InScope(m, x),
               y.uuid \notin overlapped'
        PROVE  y.uuid \in cut' \/ \E g \in removals' : g.pc = "files" /\ InScope(g, y)
    <3>1. InScope(m, y)
      <4>1. PICK z \in rows : z.uuid = y.uuid /\ InScope(m, z) = InScope(m, y)
        BY <1>2, <2>3, ScopeKept
      <4>2. z = x
        BY <2>1, <4>1 DEF TypeInv, TypeOK
      <4>. QED BY <2>3, <4>1, <4>2
    <3>2. CASE m \in removals'
      BY <2>3, <3>1, <3>2
    <3>3. ASSUME NEW s \in Send, NEW done \in BOOLEAN, DropFile(m, s, done)
          PROVE  \E g \in removals' : g.pc = "files" /\ InScope(g, y)
      <4>1. [m EXCEPT !.left = @ \ {s}] \in removals'
        BY <3>3 DEF DropFile
      <4>2. /\ InScope([m EXCEPT !.left = @ \ {s}], y)
            /\ [m EXCEPT !.left = @ \ {s}].pc = "files"
        BY <2>3, <3>1, SameScope
      <4>. QED BY <4>1, <4>2
    <3>4. ~DropRows(m)
      BY <3>1 DEF DropRows
    <3>5. ~DropUser(m)
      BY <2>3 DEF DropUser
    <3>6. CASE AbandonRemoval(m)
      BY <3>1, <3>6 DEF AbandonRemoval, InScope
    <3>. QED BY <3>2, <3>3, <3>4, <3>5, <3>6, RemovalFate
  <2>. QED BY <1>1, <1>4, <2>1, <2>2, <2>3 DEF GoingWithFile
<1>. QED BY <1>3, <1>4

LEMMA FilesInvariant == Spec => []FilesInv
<1>1. Init => FilesInv
  BY TypeInit DEF Init, FilesInv, EditsKnow, FileKinds, LeftFits, FoundInScope,
    AllFound, OrphanExplained, GoingWithFile, Has
<1>2. FilesInv /\ [Next]_vars => FilesInv'
  BY TypeStep, EditsKnowStep, FileKindsStep, LeftFitsStep, FoundInScopeStep,
    AllFoundStep, OrphanStep, GoingStep DEF FilesInv
<1>. QED BY <1>1, <1>2, PTL DEF Spec

\* A file outlives its send only where a failure or an interference left it.
THEOREM Orphans == Spec => []OrphanExplained
BY FilesInvariant, PTL DEF FilesInv

\* A send outlives its file only during a removal, after one that stopped, or
\* when it was written meanwhile.
THEOREM MissingFiles == Spec => []MissingFileExplained
<1>1. FilesInv => MissingFileExplained
  BY DEF FilesInv, GoingWithFile, MissingFileExplained, UnderRemoval, InScope
<1>. QED BY <1>1, FilesInvariant, PTL

-----------------------------------------------------------------------------
(* Counting.  A visit that is counted moves from one set to another, so each *)
(* property compares a count with the size of a set of visits.              *)

Among(V, s, pc) == {v \in V : v.uuid = s /\ v.pc = pc}

VisitsFit ==
  /\ IsFiniteSet(visits)
  /\ \A v, w \in visits : v.id = w.id => v = w

LimitKnown == \A row \in rows : [uuid |-> row.uuid, max |-> row.max] \in limits

CountInv == TypeInv /\ VisitsFit /\ LimitKnown /\ ServedCounted /\ OvershootBounded

LEMMA AmongFinite ==
  ASSUME NEW V, IsFiniteSet(V), NEW s, NEW pc
  PROVE  IsFiniteSet(Among(V, s, pc)) /\ Cardinality(Among(V, s, pc)) \in Nat
<1>1. Among(V, s, pc) \in SUBSET V
  BY DEF Among
<1>. QED BY <1>1, FS_Subset, FS_CardinalityType

\* No more visits than requests.
LEMMA VisitsBounded ==
  ASSUME NEW V \in SUBSET Visit, \A v, w \in V : v.id = w.id => v = w, NEW s, NEW pc
  PROVE  Cardinality(Among(V, s, pc)) <= Cardinality(Request)
<1>. DEFINE S == Among(V, s, pc)
            f == [v \in S |-> v.id]
<1>1. f \in Injection(S, Request)
  BY DEF Injection, IsInjective, Among, Visit
<1>. QED BY <1>1, FS_Injection, RequestAssumption

\* The actions that change the visits, or what went out.
LEMMA VisitsEffect ==
  ASSUME [Next]_vars
  PROVE  \/ UNCHANGED <<visits, served>>
         \/ \E r \in Request : BeginVisit(r)
         \/ \E v \in visits : CountVisit(v) \/ Serve(v) \/ AbandonVisit(v)
BY DEF Next, vars, Tick, Create, Begin, BeginPut, BeginRemovePassword, BeginUpload,
  BeginDelete, BeginErase, BeginPurge, WriteEdit, AbandonEdit, PutBlob,
  AbandonUpload, RemovalStep, DropFile, DropRows, DropUser, AbandonRemoval

\* The count of a send after a step: nothing but CountVisit changes it.
LEMMA CountOrigin ==
  ASSUME TypeInv, [Next]_vars, NEW y \in rows'
  PROVE  \/ y.uuid \notin created /\ y.count = 0 /\ UNCHANGED <<visits, served>>
         \/ \E x \in rows :
              /\ x.uuid = y.uuid
              /\ \/ y.count = x.count
                 \/ \E v \in visits : /\ CountVisit(v) /\ v.uuid = y.uuid
                                      /\ y.count = x.count + 1
<1>1. ASSUME NEW e \in edits, NEW x \in rows, x.uuid = e.row.uuid,
             y = Written(x, e.row)
      PROVE  x.uuid = y.uuid /\ y.count = x.count
  <2>1. e.row \in Row
    BY DEF TypeInv, TypeOK, Edit
  <2>. QED BY <1>1, <2>1 DEF Written, Row
<1>2. ASSUME NEW x \in rows, y = [x EXCEPT !.count = @ + 1]
      PROVE  x.uuid = y.uuid /\ y.count = x.count + 1
  BY <1>2 DEF TypeInv, TypeOK, Row
<1>3. ASSUME NEW s \in Send, Create(s) PROVE UNCHANGED <<visits, served>>
  BY <1>3 DEF Create
<1>. QED BY <1>1, <1>2, <1>3, RowOrigin

LEMMA VisitsFitStep ==
  ASSUME TypeInv, VisitsFit, [Next]_vars PROVE VisitsFit'
<1>1. CASE \E r \in Request : BeginVisit(r)
  <2>1. PICK r \in Request, row \in rows :
          /\ r \notin Busy
          /\ visits' = visits \cup {[id |-> r, uuid |-> row.uuid, pc |-> "count"]}
    BY <1>1 DEF BeginVisit
  <2>2. IsFiniteSet(visits')
    BY <2>1, FS_AddElement DEF VisitsFit
  <2>. QED BY <2>1, <2>2 DEF VisitsFit, Busy
<1>2. ASSUME NEW v \in visits, CountVisit(v) PROVE VisitsFit'
  <2>1. visits' = (visits \ {v}) \cup {[v EXCEPT !.pc = "serve"]}
    BY <1>2 DEF CountVisit
  <2>2. IsFiniteSet(visits')
    BY <2>1, FS_AddElement, FS_RemoveElement DEF VisitsFit
  <2>3. [v EXCEPT !.pc = "serve"].id = v.id
    BY DEF TypeInv, TypeOK, Visit
  <2>. QED BY <2>1, <2>2, <2>3 DEF VisitsFit
<1>3. ASSUME NEW v \in visits, Serve(v) \/ AbandonVisit(v) PROVE VisitsFit'
  <2>1. visits' = visits \ {v}
    BY <1>3 DEF Serve, AbandonVisit
  <2>2. IsFiniteSet(visits')
    BY <2>1, FS_RemoveElement DEF VisitsFit
  <2>. QED BY <2>1, <2>2 DEF VisitsFit
<1>4. CASE UNCHANGED visits
  BY <1>4 DEF VisitsFit
<1>. QED BY <1>1, <1>2, <1>3, <1>4, VisitsEffect

LEMMA LimitKnownStep ==
  ASSUME TypeInv, LimitKnown, [Next]_vars PROVE LimitKnown' /\ limits \subseteq limits'
<1>1. limits \subseteq limits'
  BY DEF Next, vars, Tick, Create, Begin, BeginPut, BeginRemovePassword, BeginUpload,
    BeginVisit, BeginDelete, BeginErase, BeginPurge, WriteEdit, AbandonEdit, PutBlob,
    AbandonUpload, CountVisit, Serve, AbandonVisit, RemovalStep, DropFile, DropRows,
    DropUser, AbandonRemoval
<1>2. ASSUME NEW y \in rows' PROVE [uuid |-> y.uuid, max |-> y.max] \in limits'
  <2>1. ASSUME NEW s \in Send, Create(s), y \notin rows
        PROVE  [uuid |-> y.uuid, max |-> y.max] \in limits'
    BY <2>1 DEF Create
  <2>2. ASSUME NEW e \in edits, NEW x \in rows, WriteEdit(e), y = Written(x, e.row)
        PROVE  [uuid |-> y.uuid, max |-> y.max] \in limits'
    <3>1. e.row \in Row
      BY DEF TypeInv, TypeOK, Edit
    <3>2. y.uuid = e.row.uuid /\ y.max = e.row.max
      BY <2>2, <3>1 DEF Written, Row
    <3>. QED BY <2>2, <3>2 DEF WriteEdit
  <2>3. ASSUME NEW x \in rows, y = [x EXCEPT !.count = @ + 1]
        PROVE  y.uuid = x.uuid /\ y.max = x.max
    BY <2>3 DEF TypeInv, TypeOK, Row
  <2>. QED BY <1>1, <2>1, <2>2, <2>3, RowOrigin DEF LimitKnown
<1>. QED BY <1>1, <1>2 DEF LimitKnown

\* How the visits of one send that wait at one statement change in number.
LEMMA AmongStep ==
  ASSUME TypeInv, VisitsFit, [Next]_vars, NEW s, NEW pc \in {"count", "serve"}
  PROVE  LET before == Among(visits, s, pc)
             after == Among(visits', s, pc)
         IN \/ Cardinality(after) <= Cardinality(before)
            \/ /\ pc = "count"
               /\ \E r \in Request, row \in rows :
                    BeginVisit(r) /\ row.uuid = s /\ Available(row)
            \/ /\ pc = "serve" /\ Cardinality(after) <= Cardinality(before) + 1
               /\ \E v \in visits : CountVisit(v) /\ v.uuid = s
<1>. DEFINE before == Among(visits, s, pc)
            after == Among(visits', s, pc)
<1>. SUFFICES \/ Cardinality(after) <= Cardinality(before)
                \/ /\ pc = "count"
                   /\ \E r \in Request, row \in rows :
                        BeginVisit(r) /\ row.uuid = s /\ Available(row)
                \/ /\ pc = "serve" /\ Cardinality(after) <= Cardinality(before) + 1
                   /\ \E v \in visits : CountVisit(v) /\ v.uuid = s
  OBVIOUS
<1>0. VisitsFit'
  BY VisitsFitStep
<1>1. IsFiniteSet(before) /\ Cardinality(before) \in Nat /\ Cardinality(after) \in Nat
  BY <1>0, AmongFinite DEF VisitsFit
<1>2. ASSUME after \subseteq before PROVE Cardinality(after) <= Cardinality(before)
  BY <1>1, <1>2, FS_Subset
<1>3. CASE \E r \in Request : BeginVisit(r)
  <2>1. PICK r \in Request : BeginVisit(r)
    BY <1>3
  <2>2. PICK row \in rows :
          /\ Available(row)
          /\ visits' = visits \cup {[id |-> r, uuid |-> row.uuid, pc |-> "count"]}
    BY <2>1 DEF BeginVisit
  <2>3. CASE row.uuid = s /\ pc = "count"
    BY <2>1, <2>2, <2>3
  <2>4. CASE ~ (row.uuid = s /\ pc = "count")
    <3>1. after \subseteq before
      BY <2>2, <2>4 DEF Among
    <3>. QED BY <3>1, <1>2
  <2>. QED BY <2>3, <2>4
<1>4. ASSUME NEW v \in visits, CountVisit(v)
      PROVE  \/ Cardinality(after) <= Cardinality(before)
             \/ pc = "serve" /\ Cardinality(after) <= Cardinality(before) + 1
                  /\ v.uuid = s
  <2>. DEFINE new == [v EXCEPT !.pc = "serve"]
  <2>1. visits' = (visits \ {v}) \cup {new}
    BY <1>4 DEF CountVisit
  <2>2. new.uuid = v.uuid /\ new.pc = "serve"
    BY DEF TypeInv, TypeOK, Visit
  <2>. HIDE DEF new
  <2>3. CASE pc = "serve" /\ v.uuid = s
    <3>1. after \in SUBSET (before \cup {new})
      BY <2>1 DEF Among
    <3>2. /\ IsFiniteSet(before \cup {new})
          /\ Cardinality(before \cup {new}) <= Cardinality(before) + 1
      BY <1>1, FS_AddElement
    <3>3. Cardinality(before \cup {new}) \in Nat
      BY <3>2, FS_CardinalityType
    <3>4. Cardinality(after) <= Cardinality(before \cup {new})
      BY <3>1, <3>2, FS_Subset
    <3>. QED BY <1>1, <2>3, <3>2, <3>3, <3>4
  <2>4. CASE ~ (pc = "serve" /\ v.uuid = s)
    <3>1. after \subseteq before
      BY <2>1, <2>2, <2>4 DEF Among
    <3>. QED BY <3>1, <1>2
  <2>. QED BY <2>3, <2>4
<1>5. CASE \E v \in visits : Serve(v) \/ AbandonVisit(v)
  <2>1. after \subseteq before
    BY <1>5 DEF Serve, AbandonVisit, Among
  <2>. QED BY <2>1, <1>2
<1>6. CASE UNCHANGED visits
  <2>1. after = before
    BY <1>6
  <2>. QED BY <2>1, <1>2
<1>7. \/ UNCHANGED visits
      \/ \E r \in Request : BeginVisit(r)
      \/ \E v \in visits : CountVisit(v)
      \/ \E v \in visits : Serve(v) \/ AbandonVisit(v)
  BY VisitsEffect
<1>. QED BY <1>3, <1>4, <1>5, <1>6, <1>7

\* Nothing counts a send that was not created.
LEMMA NoneAmong ==
  ASSUME TypeInv, NEW s, s \notin created, NEW pc
  PROVE  Cardinality(Among(visits, s, pc)) = 0
<1>1. Among(visits, s, pc) = {}
  BY DEF Among, TypeInv, Fresh
<1>. QED BY <1>1, FS_EmptySet

\* A visit that is counted raises the count of its send, and waits no longer.
LEMMA CountVisitEffect ==
  ASSUME TypeInv, VisitsFit, NEW v \in visits, CountVisit(v),
         NEW y \in rows', NEW x \in rows, x.uuid = y.uuid, v.uuid = y.uuid
  PROVE  /\ y.count = x.count + 1
         /\ Cardinality(Among(visits', y.uuid, "count"))
              = Cardinality(Among(visits, y.uuid, "count")) - 1
<1>1. y.count = x.count + 1
  <2>1. PICK z \in rows : y = IF z.uuid = v.uuid THEN [z EXCEPT !.count = @ + 1] ELSE z
    BY DEF CountVisit
  <2>2. z.uuid = y.uuid
    BY <2>1 DEF TypeInv, TypeOK, Row
  <2>3. z = x
    BY <2>2 DEF TypeInv, TypeOK
  <2>. QED BY <2>1, <2>2, <2>3 DEF TypeInv, TypeOK, Row
<1>2. [v EXCEPT !.pc = "serve"].pc = "serve" /\ v.pc = "count"
  BY DEF CountVisit, TypeInv, TypeOK, Visit
<1>3. /\ Among(visits', y.uuid, "count") = Among(visits, y.uuid, "count") \ {v}
      /\ v \in Among(visits, y.uuid, "count")
  BY <1>2 DEF CountVisit, Among
<1>4. IsFiniteSet(Among(visits, y.uuid, "count"))
  BY AmongFinite DEF VisitsFit
<1>. QED BY <1>1, <1>3, <1>4, FS_RemoveElement

LEMMA ServedStep ==
  ASSUME TypeInv, VisitsFit, ServedCounted, [Next]_vars PROVE ServedCounted'
<1>0. TypeInv' /\ VisitsFit'
  BY TypeStep, VisitsFitStep
<1>. SUFFICES ASSUME NEW y \in rows'
              PROVE  served'[y.uuid] + Cardinality(Among(visits', y.uuid, "serve"))
                       <= y.count
  BY DEF ServedCounted, Serving, Among
<1>1. y \in Row
  BY <1>0 DEF TypeInv, TypeOK
<1>2. CASE y.uuid \notin created /\ y.count = 0 /\ UNCHANGED <<visits, served>>
  <2>1. served'[y.uuid] = 0
    BY <1>1, <1>2 DEF TypeInv, Fresh, Row
  <2>2. Cardinality(Among(visits', y.uuid, "serve")) = 0
    BY <1>2, NoneAmong
  <2>. QED BY <1>2, <2>1, <2>2
<1>3. ASSUME NEW x \in rows, x.uuid = y.uuid,
             \/ y.count = x.count
             \/ \E v \in visits : /\ CountVisit(v) /\ v.uuid = y.uuid
                                  /\ y.count = x.count + 1
      PROVE  served'[y.uuid] + Cardinality(Among(visits', y.uuid, "serve")) <= y.count
  <2>. DEFINE before == Among(visits, y.uuid, "serve")
              after == Among(visits', y.uuid, "serve")
  <2>1. served[y.uuid] + Cardinality(before) <= x.count
    BY <1>3 DEF ServedCounted, Serving, Among
  <2>2. /\ Cardinality(before) \in Nat /\ Cardinality(after) \in Nat
        /\ served[y.uuid] \in Nat /\ served'[y.uuid] \in Nat
        /\ x.count \in Nat /\ y.count \in Nat
    BY <1>0, <1>1, AmongFinite DEF VisitsFit, TypeInv, TypeOK, Row
  <2>3. y.count >= x.count
    BY <1>3, <2>2
  <2>4. ASSUME NEW v \in visits, Serve(v), v.uuid = y.uuid
        PROVE  served'[y.uuid] + Cardinality(after) <= y.count
    <3>1. after = before \ {v} /\ v \in before
      BY <2>4 DEF Serve, Among
    <3>2. Cardinality(after) = Cardinality(before) - 1
      BY <3>1, FS_RemoveElement, AmongFinite DEF VisitsFit
    <3>3. served'[y.uuid] = served[y.uuid] + 1
      BY <2>4, <1>1 DEF Serve, TypeInv, TypeOK, Row
    <3>. QED BY <2>1, <2>2, <2>3, <3>2, <3>3
  <2>5. CASE ~ \E v \in visits : Serve(v) /\ v.uuid = y.uuid
    <3>1. served'[y.uuid] = served[y.uuid]
      <4>1. \/ served' = served
            \/ \E v \in visits : Serve(v)
        BY VisitsEffect DEF BeginVisit, CountVisit, AbandonVisit
      <4>. QED BY <2>5, <4>1, <1>1 DEF Serve, TypeInv, TypeOK, Row
    <3>2. \/ Cardinality(after) <= Cardinality(before)
          \/ /\ Cardinality(after) <= Cardinality(before) + 1
             /\ \E v \in visits : CountVisit(v) /\ v.uuid = y.uuid
      BY AmongStep
    <3>3. (\E v \in visits : CountVisit(v) /\ v.uuid = y.uuid) => y.count = x.count + 1
      BY <1>3, CountVisitEffect
    <3>. HIDE DEF before, after
    <3>4. served'[y.uuid] + Cardinality(after) <= y.count
      BY <2>1, <2>2, <2>3, <3>1, <3>2, <3>3
    <3>. QED BY <3>4 DEF after
  <2>. QED BY <2>4, <2>5
<1>. QED BY <1>2, <1>3, CountOrigin

LEMMA RequestsCounted == Cardinality(Request) \in Nat \ {0}
<1>1. Cardinality(Request) \in Nat
  BY RequestAssumption, FS_CardinalityType
<1>2. Cardinality(Request) # 0
  BY RequestAssumption, FS_EmptySet
<1>. QED BY <1>1, <1>2

\* Limits the send of a row ever had are numbers, unless one was none.
LEMMA LimitType ==
  ASSUME TypeInv, NEW row, None \notin Limit(row) PROVE Limit(row) \subseteq Nat
BY DEF TypeInv, TypeOK, Limit, Limits

LEMMA OvershootStep ==
  ASSUME CountInv, [Next]_vars PROVE OvershootBounded'
<1>. USE DEF CountInv
<1>0. TypeInv' /\ VisitsFit' /\ LimitKnown' /\ limits \subseteq limits'
  BY TypeStep, VisitsFitStep, LimitKnownStep
<1>. DEFINE Ever(y) == {l.max : l \in {z \in limits' : z.uuid = y.uuid}}
<1>. SUFFICES ASSUME NEW y \in rows', None \notin Ever(y)
              PROVE  \E max \in Ever(y) :
                       y.count + Cardinality(Among(visits', y.uuid, "count"))
                         < max + Cardinality(Request)
  BY DEF OvershootBounded, Counting, Limit, Among
<1>1. y \in Row
  BY <1>0 DEF TypeInv, TypeOK
<1>2. y.max \in Ever(y) /\ y.max \in Nat
  <2>1. [uuid |-> y.uuid, max |-> y.max] \in limits'
    BY <1>0 DEF LimitKnown
  <2>2. y.max \in Ever(y)
    BY <2>1
  <2>. QED BY <1>1, <2>2 DEF Row, Limits
<1>3. CASE y.uuid \notin created /\ y.count = 0 /\ UNCHANGED <<visits, served>>
  <2>1. Cardinality(Among(visits', y.uuid, "count")) = 0
    BY <1>3, NoneAmong
  <2>. QED BY <1>2, <1>3, <2>1, RequestsCounted
<1>4. ASSUME NEW x \in rows, x.uuid = y.uuid,
             \/ y.count = x.count
             \/ \E v \in visits : /\ CountVisit(v) /\ v.uuid = y.uuid
                                  /\ y.count = x.count + 1
      PROVE  \E max \in Ever(y) :
               y.count + Cardinality(Among(visits', y.uuid, "count"))
                 < max + Cardinality(Request)
  <2>. DEFINE before == Among(visits, y.uuid, "count")
              after == Among(visits', y.uuid, "count")
  <2>1. Limit(x) \subseteq Ever(y) /\ Limit(x) \subseteq Nat
    <3>1. Limit(x) \subseteq Ever(y)
      BY <1>0, <1>4 DEF Limit
    <3>. QED BY <3>1, LimitType
  <2>2. PICK max \in Limit(x) :
          x.count + Cardinality(before) < max + Cardinality(Request)
    BY <2>1, <1>4 DEF OvershootBounded, Counting, Among
  <2>3. /\ Cardinality(before) \in Nat /\ Cardinality(after) \in Nat
        /\ x.count \in Nat /\ y.count \in Nat /\ max \in Nat
    BY <1>0, <1>1, <2>1, AmongFinite DEF VisitsFit, TypeInv, TypeOK, Row
  <2>4. CASE \E v \in visits : CountVisit(v) /\ v.uuid = y.uuid
    <3>1. y.count = x.count + 1 /\ Cardinality(after) = Cardinality(before) - 1
      BY <1>4, <2>4, CountVisitEffect
    <3>2. y.count + Cardinality(after) < max + Cardinality(Request)
      BY <2>2, <2>3, <3>1, RequestsCounted
    <3>. QED BY <2>1, <3>2
  <2>5. CASE /\ y.count = x.count
             /\ Cardinality(after) <= Cardinality(before)
    <3>1. y.count + Cardinality(after) < max + Cardinality(Request)
      BY <2>2, <2>3, <2>5, RequestsCounted
    <3>. QED BY <2>1, <3>1
  <2>6. ASSUME NEW r \in Request, NEW row \in rows, BeginVisit(r), row.uuid = y.uuid,
               Available(row)
        PROVE  \E m \in Ever(y) : y.count + Cardinality(after) < m + Cardinality(Request)
    <3>1. rows' = rows
      BY <2>6 DEF BeginVisit
    <3>2. row = y
      BY <2>6, <3>1 DEF TypeInv, TypeOK
    <3>3. y.count < y.max
      BY <1>2, <2>6, <3>2, NoneAssumption DEF Available
    <3>4. Cardinality(after) <= Cardinality(Request)
      <4>1. visits' \in SUBSET Visit /\ \A v, w \in visits' : v.id = w.id => v = w
        BY <1>0 DEF TypeInv, TypeOK, VisitsFit
      <4>. QED BY <4>1, VisitsBounded
    <3>. HIDE DEF after
    <3>. QED BY <1>2, <2>3, <3>3, <3>4, RequestsCounted
  <2>7. \/ Cardinality(after) <= Cardinality(before)
        \/ \E r \in Request, row \in rows :
             BeginVisit(r) /\ row.uuid = y.uuid /\ Available(row)
    BY AmongStep
  <2>8. y.count = x.count \/ \E v \in visits : CountVisit(v) /\ v.uuid = y.uuid
    BY <1>4
  <2>. HIDE DEF Ever
  <2>. QED BY <2>4, <2>5, <2>6, <2>7, <2>8
<1>. HIDE DEF Ever
<1>. QED BY <1>3, <1>4, CountOrigin

LEMMA CountInvariant == Spec => []CountInv
<1>1. Init => CountInv
  <2>1. IsFiniteSet({})
    BY FS_EmptySet
  <2>. QED BY <2>1, TypeInit DEF Init, CountInv, VisitsFit, LimitKnown, ServedCounted,
         OvershootBounded
<1>2. CountInv /\ [Next]_vars => CountInv'
  BY TypeStep, VisitsFitStep, LimitKnownStep, ServedStep, OvershootStep DEF CountInv
<1>. QED BY <1>1, <1>2, PTL DEF Spec

\* No edit, however old the row it writes back, takes back a counted access.
THEOREM CountKept == Spec => []ServedCounted
BY CountInvariant, PTL DEF CountInv

\* Visits that race past the limit are no more than can run at once, less one.
THEOREM Overshoot == Spec => []OvershootBounded
BY CountInvariant, PTL DEF CountInv

-----------------------------------------------------------------------------
(* One handler at a time.                                                   *)

OneAtATime == \A r, s \in Request : r = s

\* The promise of check_send_available and of the tests, that a limit ends
\* access, is broken by nothing but visits that overlap: edits, stops and
\* removals keep it.
THEOREM LimitHoldsAlone == OneAtATime => (Spec => []LimitHolds)
<1>. SUFFICES ASSUME OneAtATime PROVE Spec => []LimitHolds
  OBVIOUS
<1>1. Cardinality(Request) = 1
  <2>1. PICK r : Request = {r}
    BY RequestAssumption DEF OneAtATime
  <2>. QED BY <2>1, FS_Singleton
<1>2. CountInv => LimitHolds
  <2>. SUFFICES ASSUME CountInv, NEW row \in rows, None \notin Limit(row)
                PROVE \E max \in Limit(row) : row.count <= max
    BY DEF LimitHolds
  <2>1. OvershootBounded /\ VisitsFit /\ TypeInv
    BY DEF CountInv
  <2>2. PICK max \in Limit(row) :
          row.count + Cardinality(Counting(row)) < max + Cardinality(Request)
    BY <2>1 DEF OvershootBounded
  <2>3. max \in Nat
    BY <2>1 DEF Limit, TypeInv, TypeOK, Limits
  <2>4. Cardinality(Counting(row)) \in Nat
    <3>1. Counting(row) \subseteq visits /\ IsFiniteSet(visits)
      BY <2>1 DEF Counting, VisitsFit
    <3>. QED BY <3>1, FS_Subset, FS_CardinalityType
  <2>5. row.count \in Nat
    BY <2>1 DEF TypeInv, TypeOK, Row
  <2>. QED BY <1>1, <2>2, <2>3, <2>4, <2>5
<1>. QED BY <1>2, CountInvariant, PTL
Solo ==
  /\ \A e, f \in edits : e = f
  /\ \A u, w \in uploads : u = w
  /\ \A v, w \in visits : v = w
  /\ \A m, n \in removals : m = n
  /\ edits # {} => uploads = {} /\ visits = {} /\ removals = {}
  /\ uploads # {} => visits = {} /\ removals = {}
  /\ visits # {} => removals = {}

\* An upload stores the file of a send that is there, and nothing is written
\* while a send is being removed.
NoneOverlapped ==
  /\ overlapped = {}
  /\ \A u \in uploads : Has(u.uuid)

LEMMA Idle ==
  ASSUME OneAtATime, TypeInv, NEW r \in Request, r \notin Busy
  PROVE  edits = {} /\ uploads = {} /\ visits = {} /\ removals = {}
<1>1. /\ \A e \in edits : e.id \in Request /\ e.id \in Busy
      /\ \A u \in uploads : u.id \in Request /\ u.id \in Busy
      /\ \A v \in visits : v.id \in Request /\ v.id \in Busy
      /\ \A m \in removals : m.id \in Request /\ m.id \in Busy
  BY DEF TypeInv, TypeOK, Edit, Upload, Visit, Removal, Busy
<1>. QED BY <1>1 DEF OneAtATime

LEMMA SoloStep == ASSUME OneAtATime, TypeInv, Solo, [Next]_vars PROVE Solo'
<1>1. ASSUME NEW r \in Request, Begin(r) PROVE Solo'
  <2>1. r \notin Busy
    BY <1>1 DEF Begin, BeginPut, BeginRemovePassword, BeginUpload, BeginVisit,
       BeginDelete, BeginErase, BeginPurge
  <2>2. edits = {} /\ uploads = {} /\ visits = {} /\ removals = {}
    BY <2>1, Idle
  <2>3. \/ (\E x : edits' = {x}) /\ UNCHANGED <<uploads, visits, removals>>
        \/ (\E x : uploads' = {x}) /\ UNCHANGED <<edits, visits, removals>>
        \/ (\E x : visits' = {x}) /\ UNCHANGED <<edits, uploads, removals>>
        \/ (\E x : removals' = {x}) /\ UNCHANGED <<edits, uploads, visits>>
    <3>1. CASE BeginPut(r)
      <4>1. \E x : edits' = edits \cup {x}
        BY <3>1 DEF BeginPut
      <4>2. UNCHANGED <<uploads, visits, removals>>
        BY <3>1 DEF BeginPut
      <4>. QED BY <2>2, <4>1, <4>2
    <3>2. CASE BeginRemovePassword(r)
      BY <2>2, <3>2 DEF BeginRemovePassword
    <3>3. CASE BeginUpload(r)
      BY <2>2, <3>3 DEF BeginUpload
    <3>4. CASE BeginVisit(r)
      BY <2>2, <3>4 DEF BeginVisit
    <3>5. CASE BeginDelete(r)
      BY <2>2, <3>5 DEF BeginDelete
    <3>6. CASE BeginErase(r)
      BY <2>2, <3>6 DEF BeginErase
    <3>7. ASSUME NEW found, BeginPurge(r, found) PROVE \E x : removals' = {x}
      BY <2>2, <3>7 DEF BeginPurge
    <3>8. ASSUME NEW found, BeginPurge(r, found) PROVE UNCHANGED <<edits, uploads, visits>>
      BY <3>8 DEF BeginPurge
    <3>. QED BY <1>1, <3>1, <3>2, <3>3, <3>4, <3>5, <3>6, <3>7, <3>8 DEF Begin
  <2>. QED BY <2>2, <2>3 DEF Solo
<1>2. ASSUME NEW v \in visits, CountVisit(v) PROVE Solo'
  <2>1. visits' = (visits \ {v}) \cup {[v EXCEPT !.pc = "serve"]}
    BY <1>2 DEF CountVisit
  <2>. QED BY <1>2, <2>1 DEF CountVisit, Solo
<1>3. ASSUME NEW m \in removals, RemovalStep(m) PROVE Solo'
  <2>1. \/ removals' = removals \ {m}
        \/ \E x : removals' = (removals \ {m}) \cup {x}
    BY <1>3 DEF RemovalStep, DropFile, DropRows, DropUser, AbandonRemoval
  <2>2. UNCHANGED <<edits, uploads, visits>>
    BY <1>3 DEF RemovalStep, DropFile, DropRows, DropUser, AbandonRemoval
  <2>. QED BY <2>1, <2>2 DEF Solo
<1>4. \/ \E r \in Request : Begin(r)
      \/ \E v \in visits : CountVisit(v)
      \/ \E m \in removals : RemovalStep(m)
      \/ /\ edits' \subseteq edits /\ uploads' \subseteq uploads
         /\ visits' \subseteq visits /\ removals' \subseteq removals
  BY DEF Next, vars, Tick, Create, WriteEdit, AbandonEdit, PutBlob, AbandonUpload,
         Serve, AbandonVisit
<1>. QED BY <1>1, <1>2, <1>3, <1>4 DEF Solo

LEMMA OverlapStep ==
  ASSUME OneAtATime, TypeInv, Solo, NoneOverlapped, [Next]_vars
  PROVE  NoneOverlapped'
<1>1. ASSUME NEW e \in edits, WriteEdit(e) PROVE NoneOverlapped'
  <2>1. removals = {} /\ uploads' = {}
    BY <1>1 DEF Solo, WriteEdit
  <2>. QED BY <1>1, <2>1 DEF WriteEdit, NoneOverlapped
<1>2. ASSUME NEW u \in uploads, PutBlob(u) PROVE NoneOverlapped'
  <2>1. removals = {} /\ uploads' = {} /\ Has(u.uuid)
    BY <1>2 DEF Solo, PutBlob, NoneOverlapped
  <2>. QED BY <1>2, <2>1 DEF PutBlob, NoneOverlapped, UnderRemoval
<1>3. ASSUME NEW r \in Request, BeginUpload(r) PROVE NoneOverlapped'
  <2>1. uploads = {}
    BY <1>3, Idle DEF BeginUpload
  <2>2. PICK row \in rows : uploads' = {[id |-> r, uuid |-> row.uuid]}
    BY <1>3, <2>1 DEF BeginUpload
  <2>3. UNCHANGED <<rows, overlapped>>
    BY <1>3 DEF BeginUpload
  <2>. QED BY <2>2, <2>3 DEF NoneOverlapped, Has
<1>4. ASSUME NEW m \in removals, RemovalStep(m) PROVE NoneOverlapped'
  <2>1. uploads = {} /\ UNCHANGED <<uploads, overlapped>>
    BY <1>4 DEF Solo, RemovalStep, DropFile, DropRows, DropUser, AbandonRemoval
  <2>. QED BY <2>1 DEF NoneOverlapped
<1>5. ASSUME NEW v \in visits, CountVisit(v) PROVE NoneOverlapped'
  <2>1. uploads = {} /\ UNCHANGED <<uploads, overlapped>>
    BY <1>5 DEF Solo, CountVisit
  <2>. QED BY <2>1 DEF NoneOverlapped
<1>6. \/ \E e \in edits : WriteEdit(e)
      \/ \E u \in uploads : PutBlob(u)
      \/ \E r \in Request : BeginUpload(r)
      \/ \E m \in removals : RemovalStep(m)
      \/ \E v \in visits : CountVisit(v)
      \/ rows \subseteq rows' /\ uploads' \subseteq uploads /\ UNCHANGED overlapped
  BY DEF Next, vars, Tick, Create, Begin, BeginPut, BeginRemovePassword, BeginVisit,
         BeginDelete, BeginErase, BeginPurge, AbandonEdit, AbandonUpload, Serve,
         AbandonVisit
<1>. QED BY <1>1, <1>2, <1>3, <1>4, <1>5, <1>6 DEF NoneOverlapped, Has

\* Without overlapping requests only a failing R2 call leaves a file behind, and
\* only a removal that stops half-way takes the file and leaves the send.
THEOREM FilesAlone ==
  OneAtATime =>
    (Spec => [](/\ \A s \in blobs : ~Has(s) => s \in failed
                /\ \A row \in rows : row.file /\ row.uuid \in uploaded \ blobs =>
                     UnderRemoval(row.uuid) \/ row.uuid \in cut))
<1>. SUFFICES ASSUME OneAtATime
              PROVE  Spec =>
                [](/\ \A s \in blobs : ~Has(s) => s \in failed
                   /\ \A row \in rows : row.file /\ row.uuid \in uploaded \ blobs =>
                        UnderRemoval(row.uuid) \/ row.uuid \in cut)
  OBVIOUS
<1>1. Init => Solo /\ NoneOverlapped
  BY DEF Init, Solo, NoneOverlapped
<1>2. TypeInv /\ Solo /\ NoneOverlapped /\ [Next]_vars => Solo' /\ NoneOverlapped'
  BY SoloStep, OverlapStep
<1>3. OrphanExplained /\ MissingFileExplained /\ NoneOverlapped =>
        /\ \A s \in blobs : ~Has(s) => s \in failed
        /\ \A row \in rows : row.file /\ row.uuid \in uploaded \ blobs =>
             UnderRemoval(row.uuid) \/ row.uuid \in cut
  BY DEF OrphanExplained, MissingFileExplained, NoneOverlapped
<1>. QED BY <1>1, <1>2, <1>3, TypeInvariant, Orphans, MissingFiles, PTL DEF Spec
=============================================================================
