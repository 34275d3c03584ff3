------------------------------- MODULE Sends -------------------------------
(***************************************************************************)
(* The sends of one account: the rows of `sends`, the R2 objects of file    *)
(* sends, and every handler or scheduled job that touches either.  D1 and   *)
(* R2 share no transaction: one action is one call to one of them, with the *)
(* code up to the next, and a handler may stop after any call.              *)
(*                                                                         *)
(* Times are small numbers; the code compares their RFC 3339 texts, which    *)
(* Dates models.  A visitor of a protected send is taken to know its         *)
(* password.                                                                *)
(***************************************************************************)
EXTENDS Naturals, FiniteSets

CONSTANTS
  Send,         \* values generate_uuid yields for sends.uuid
  Request,      \* handler instances that may run at the same time
  None,         \* an absent limit or date
  Settings,     \* limit, switch and dates an owner may give a send
  MaxTime,      \* bound: the clock
  MaxCount      \* bound: accesses counted per send

Limits == Nat \cup {None}

ASSUME BoundAssumption == MaxTime \in Nat /\ MaxCount \in Nat
ASSUME NoneAssumption == None \notin Nat
ASSUME SettingsAssumption ==
  Settings \subseteq [max: Limits, disabled: BOOLEAN, expires: Limits,
                      deletes: Nat]
ASSUME RequestAssumption == IsFiniteSet(Request) /\ Request # {}

VARIABLES
  rows,         \* rows of `sends`
  blobs,        \* sends with an object sends/<uuid>/<file id> in R2
  account,      \* whether the owner's account exists
  edits,        \* in-flight put_send and put_send_remove_password
  uploads,      \* in-flight post_send_file
  visits,       \* in-flight post_access (text) and post_access_file
  removals,     \* in-flight delete_send, purge_expired_sends, delete_account
  now,          \* the clock
  created,      \* send ids already given out
  limits,       \* history: every access limit a send ever had
  served,       \* history: texts returned and download links issued
  uploaded,     \* history: sends with a file stored at some time
  overlapped,   \* history: sends written while a removal of them was under way
  failed,       \* history: files R2 or a failed search left behind
  cut           \* history: sends whose removal stopped half-way

vars == <<rows, blobs, account, edits, uploads, visits, removals, now, created,
          limits, served, uploaded, overlapped, failed, cut>>

Row == [uuid: Send, file: BOOLEAN, locked: BOOLEAN, count: Nat,
        max: Limits, disabled: BOOLEAN, expires: Limits, deletes: Nat]

\* `row` is the copy the handler is about to write, `was` whether the row it
\* read had a password.
Edit == [id: Request, op: {"put", "remove_password"}, row: Row, was: BOOLEAN]
Upload == [id: Request, uuid: Send]
Visit == [id: Request, uuid: Send, pc: {"count", "serve"}]

\* `left` are the files still to delete, `at` the time the job started with.
Removal == [id: Request, op: {"delete", "purge", "erase"}, scope: SUBSET Send,
            left: SUBSET Send, at: Nat, pc: {"files", "user"}]

-----------------------------------------------------------------------------
Busy == {e.id : e \in edits} \cup {u.id : u \in uploads}
          \cup {v.id : v \in visits} \cup {m.id : m \in removals}

Has(s) == \E row \in rows : row.uuid = s

\* Mutant: the access that reaches the limit is not the last one.
AvailableOnceMore(row) == /\ ~row.disabled
                          /\ row.expires # None => row.expires > now
                          /\ row.deletes > now
                          /\ row.max # None => row.count <= row.max

\* check_send_available.
Available(row) == /\ ~row.disabled
                  /\ row.expires # None => row.expires > now
                  /\ row.deletes > now
                  /\ row.max # None => row.count < row.max

\* Mutant: the search for files and the deletion of rows differ in a bound.
ExpiredFilesStrictly ==
  {row.uuid : row \in {x \in rows : x.file /\ x.deletes < now}}

\* find_expired_file_sends and find_file_send_data_by_user.
ExpiredFiles == {row.uuid : row \in {x \in rows : x.file /\ x.deletes <= now}}
OwnFiles == {row.uuid : row \in {x \in rows : x.file}}

\* Mutant: the same difference, the other way round.
InScopeStrictly(m, row) == /\ row.uuid \in m.scope
                           /\ m.op = "purge" => row.deletes < m.at

\* The rows the DELETE that ends a removal takes.
InScope(m, row) == /\ row.uuid \in m.scope
                   /\ m.op = "purge" => row.deletes <= m.at

UnderRemoval(s) == \E m \in removals : s \in m.scope

-----------------------------------------------------------------------------
Init == /\ rows = {} /\ blobs = {} /\ account = TRUE
        /\ edits = {} /\ uploads = {} /\ visits = {} /\ removals = {}
        /\ now = 0 /\ created = {} /\ limits = {}
        /\ served = [s \in Send |-> 0]
        /\ uploaded = {} /\ overlapped = {} /\ failed = {} /\ cut = {}

Tick == /\ now < MaxTime
        /\ now' = now + 1
        /\ UNCHANGED <<rows, blobs, account, edits, uploads, visits, removals,
                       created, limits, served, uploaded, overlapped, failed,
                       cut>>

\* post_send and post_send_file_v2: a single INSERT.
Create(s) ==
  /\ account /\ s \notin created
  /\ \E file, locked \in BOOLEAN, set \in Settings :
       /\ rows' = rows \cup
            {[uuid |-> s, file |-> file, locked |-> locked, count |-> 0,
              max |-> set.max, disabled |-> set.disabled,
              expires |-> set.expires, deletes |-> set.deletes]}
       /\ limits' = limits \cup {[uuid |-> s, max |-> set.max]}
  /\ created' = created \cup {s}
  /\ UNCHANGED <<blobs, account, edits, uploads, visits, removals, now, served,
                 uploaded, overlapped, failed, cut>>

-----------------------------------------------------------------------------
\* Mutant: a body without a password clears it.
PutClearingPassword(r) ==
  /\ account /\ r \notin Busy
  /\ \E row \in rows, set \in Settings, lock \in BOOLEAN :
       edits' = edits \cup
         {[id |-> r, op |-> "put", was |-> row.locked,
           row |-> [row EXCEPT !.locked = lock, !.max = set.max,
                     !.disabled = set.disabled, !.expires = set.expires,
                     !.deletes = set.deletes]]}
  /\ UNCHANGED <<rows, blobs, account, uploads, visits, removals, now, created,
                 limits, served, uploaded, overlapped, failed, cut>>

\* put_send: the whole row is read, and changed in memory.  A body without a
\* password keeps the one that was read.
BeginPut(r) ==
  /\ account /\ r \notin Busy
  /\ \E row \in rows, set \in Settings, lock \in BOOLEAN :
       edits' = edits \cup
         {[id |-> r, op |-> "put", was |-> row.locked,
           row |-> [row EXCEPT !.locked = @ \/ lock, !.max = set.max,
                     !.disabled = set.disabled, !.expires = set.expires,
                     !.deletes = set.deletes]]}
  /\ UNCHANGED <<rows, blobs, account, uploads, visits, removals, now, created,
                 limits, served, uploaded, overlapped, failed, cut>>

BeginRemovePassword(r) ==
  /\ account /\ r \notin Busy
  /\ \E row \in rows :
       edits' = edits \cup
         {[id |-> r, op |-> "remove_password", was |-> row.locked,
           row |-> [row EXCEPT !.locked = FALSE]]}
  /\ UNCHANGED <<rows, blobs, account, uploads, visits, removals, now, created,
                 limits, served, uploaded, overlapped, failed, cut>>

\* Mutant: update_send sets access_count too.
WrittenWithCount(row, new) == new

\* update_send sets every column but access_count, if the row is still there.
Written(row, new) == [new EXCEPT !.count = row.count]

\* Mutant: INSERT OR REPLACE instead of UPDATE.
WriteOrInsert(e) ==
  /\ rows' = {row \in rows : row.uuid # e.row.uuid} \cup {e.row}
  /\ limits' = limits \cup {[uuid |-> e.row.uuid, max |-> e.row.max]}
  /\ edits' = edits \ {e}
  /\ UNCHANGED <<blobs, account, uploads, visits, removals, now, created,
                 served, uploaded, overlapped, failed, cut>>

\* Mutant: the edit is stored as another row.
WriteAnother(e) ==
  /\ rows' = rows \cup {e.row}
  /\ limits' = limits \cup {[uuid |-> e.row.uuid, max |-> e.row.max]}
  /\ edits' = edits \ {e}
  /\ UNCHANGED <<blobs, account, uploads, visits, removals, now, created,
                 served, uploaded, overlapped, failed, cut>>

WriteEdit(e) ==
  /\ rows' = {IF row.uuid = e.row.uuid THEN Written(row, e.row) ELSE row :
                row \in rows}
  /\ limits' = limits \cup {[uuid |-> e.row.uuid, max |-> e.row.max]}
  /\ overlapped' = IF \E m \in removals : m.op = "purge"
                   THEN overlapped \cup {e.row.uuid} ELSE overlapped
  /\ edits' = edits \ {e}
  /\ UNCHANGED <<blobs, account, uploads, visits, removals, now, created,
                 served, uploaded, failed, cut>>

-----------------------------------------------------------------------------
\* post_send_file: the row is checked before the body is stored.
BeginUpload(r) ==
  /\ account /\ r \notin Busy
  /\ \E row \in rows : /\ row.file
                       /\ uploads' = uploads \cup {[id |-> r, uuid |-> row.uuid]}
  /\ UNCHANGED <<rows, blobs, account, edits, visits, removals, now, created,
                 limits, served, uploaded, overlapped, failed, cut>>

PutBlob(u) ==
  /\ blobs' = blobs \cup {u.uuid}
  /\ uploaded' = uploaded \cup {u.uuid}
  /\ overlapped' = IF UnderRemoval(u.uuid) \/ ~Has(u.uuid)
                   THEN overlapped \cup {u.uuid} ELSE overlapped
  /\ uploads' = uploads \ {u}
  /\ UNCHANGED <<rows, account, edits, visits, removals, now, created, limits,
                 served, failed, cut>>

-----------------------------------------------------------------------------
\* post_access of a text send and post_access_file of a file send.
BeginVisit(r) ==
  /\ r \notin Busy
  /\ \E row \in rows :
       /\ Available(row)
       /\ visits' = visits \cup {[id |-> r, uuid |-> row.uuid, pc |-> "count"]}
  /\ UNCHANGED <<rows, blobs, account, edits, uploads, removals, now, created,
                 limits, served, uploaded, overlapped, failed, cut>>

\* increment_send_access_count adds to the stored value.
CountVisit(v) ==
  /\ v.pc = "count"
  /\ \A row \in rows : row.uuid = v.uuid => row.count < MaxCount
  /\ rows' = {IF row.uuid = v.uuid THEN [row EXCEPT !.count = @ + 1] ELSE row :
                row \in rows}
  /\ visits' = (visits \ {v}) \cup {[v EXCEPT !.pc = "serve"]}
  /\ UNCHANGED <<blobs, account, edits, uploads, removals, now, created, limits,
                 served, uploaded, overlapped, failed, cut>>

\* The text, or a link that get_send_file honours for a while, goes out.
Serve(v) ==
  /\ v.pc = "serve"
  /\ served' = [served EXCEPT ![v.uuid] = @ + 1]
  /\ visits' = visits \ {v}
  /\ UNCHANGED <<rows, blobs, account, edits, uploads, removals, now, created,
                 limits, uploaded, overlapped, failed, cut>>

-----------------------------------------------------------------------------
BeginDelete(r) ==
  /\ account /\ r \notin Busy
  /\ \E row \in rows :
       removals' = removals \cup
         {[id |-> r, op |-> "delete", scope |-> {row.uuid},
           left |-> IF row.file THEN {row.uuid} ELSE {}, at |-> 0,
           pc |-> "files"]}
  /\ UNCHANGED <<rows, blobs, account, edits, uploads, visits, now, created,
                 limits, served, uploaded, overlapped, failed, cut>>

\* purge_expired_sends: a search that fails is logged, and the rows go anyway.
BeginPurge(r, found) ==
  /\ r \notin Busy
  /\ removals' = removals \cup
       {[id |-> r, op |-> "purge", scope |-> Send,
         left |-> IF found THEN ExpiredFiles ELSE {}, at |-> now,
         pc |-> "files"]}
  /\ failed' = IF found THEN failed ELSE failed \cup blobs
  /\ UNCHANGED <<rows, blobs, account, edits, uploads, visits, now, created,
                 limits, served, uploaded, overlapped, cut>>

\* delete_account.
BeginErase(r) ==
  /\ account /\ r \notin Busy
  /\ removals' = removals \cup
       {[id |-> r, op |-> "erase", scope |-> Send, left |-> OwnFiles,
         at |-> 0, pc |-> "files"]}
  /\ UNCHANGED <<rows, blobs, account, edits, uploads, visits, now, created,
                 limits, served, uploaded, overlapped, failed, cut>>

\* An R2 delete; all three callers go on when it fails.
DropFile(m, s, done) ==
  /\ s \in m.left
  /\ IF done THEN blobs' = blobs \ {s} /\ UNCHANGED failed
             ELSE failed' = failed \cup {s} /\ UNCHANGED blobs
  /\ removals' = (removals \ {m}) \cup {[m EXCEPT !.left = @ \ {s}]}
  /\ UNCHANGED <<rows, account, edits, uploads, visits, now, created, limits,
                 served, uploaded, overlapped, cut>>

DropRows(m) ==
  /\ m.pc = "files" /\ m.left = {}
  /\ rows' = {row \in rows : ~InScope(m, row)}
  /\ removals' = IF m.op = "erase"
                 THEN (removals \ {m}) \cup {[m EXCEPT !.pc = "user"]}
                 ELSE removals \ {m}
  /\ UNCHANGED <<blobs, account, edits, uploads, visits, now, created, limits,
                 served, uploaded, overlapped, failed, cut>>

\* delete_user_cascade deletes the users row last.
DropUser(m) ==
  /\ m.pc = "user"
  /\ account' = FALSE
  /\ removals' = removals \ {m}
  /\ UNCHANGED <<rows, blobs, edits, uploads, visits, now, created, limits,
                 served, uploaded, overlapped, failed, cut>>

-----------------------------------------------------------------------------
\* A refused check, a failed call or an evicted isolate ends a handler.
AbandonEdit(e) ==
  /\ edits' = edits \ {e}
  /\ UNCHANGED <<rows, blobs, account, uploads, visits, removals, now, created,
                 limits, served, uploaded, overlapped, failed, cut>>

AbandonUpload(u) ==
  /\ uploads' = uploads \ {u}
  /\ UNCHANGED <<rows, blobs, account, edits, visits, removals, now, created,
                 limits, served, uploaded, overlapped, failed, cut>>

AbandonVisit(v) ==
  /\ visits' = visits \ {v}
  /\ UNCHANGED <<rows, blobs, account, edits, uploads, removals, now, created,
                 limits, served, uploaded, overlapped, failed, cut>>

AbandonRemoval(m) ==
  /\ removals' = removals \ {m}
  /\ cut' = cut \cup m.scope
  /\ UNCHANGED <<rows, blobs, account, edits, uploads, visits, now, created,
                 limits, served, uploaded, overlapped, failed>>

Begin(r) == \/ BeginPut(r) \/ BeginRemovePassword(r) \/ BeginUpload(r)
            \/ BeginVisit(r) \/ BeginDelete(r) \/ BeginErase(r)
            \/ \E found \in BOOLEAN : BeginPurge(r, found)

RemovalStep(m) == \/ \E s \in Send, done \in BOOLEAN : DropFile(m, s, done)
                  \/ DropRows(m) \/ DropUser(m) \/ AbandonRemoval(m)

Next == \/ Tick
        \/ \E s \in Send : Create(s)
        \/ \E r \in Request : Begin(r)
        \/ \E e \in edits : WriteEdit(e) \/ AbandonEdit(e)
        \/ \E u \in uploads : PutBlob(u) \/ AbandonUpload(u)
        \/ \E v \in visits : CountVisit(v) \/ Serve(v) \/ AbandonVisit(v)
        \/ \E m \in removals : RemovalStep(m)

Spec == Init /\ [][Next]_vars

-----------------------------------------------------------------------------
\* Rows and handlers are well formed, and sends.uuid is unique.
TypeOK ==
  /\ rows \subseteq Row
  /\ \A x, y \in rows : x.uuid = y.uuid => x = y
  /\ blobs \subseteq Send /\ account \in BOOLEAN
  /\ edits \subseteq Edit /\ uploads \subseteq Upload
  /\ visits \subseteq Visit /\ removals \subseteq Removal
  /\ now \in Nat /\ created \subseteq Send
  /\ limits \subseteq [uuid: Send, max: Limits]
  /\ served \in [Send -> Nat]
  /\ uploaded \subseteq Send /\ overlapped \subseteq Send
  /\ failed \subseteq Send /\ cut \subseteq Send

Limit(row) == {l.max : l \in {x \in limits : x.uuid = row.uuid}}
Counting(row) == {v \in visits : v.uuid = row.uuid /\ v.pc = "count"}
Serving(row) == {v \in visits : v.uuid = row.uuid /\ v.pc = "serve"}

\* A send is never given out more often than its limit plus the number of other
\* visits that can be under way at once: check_send_available and the increment
\* are separate statements, but no edit of the send sets the count back.
OvershootBounded ==
  \A row \in rows : None \notin Limit(row) =>
    \E max \in Limit(row) :
      row.count + Cardinality(Counting(row)) < max + Cardinality(Request)

\* Every text and download link that went out is in the send's access_count.
ServedCounted ==
  \A row \in rows : served[row.uuid] + Cardinality(Serving(row)) <= row.count

\* A file without a send was left by a failing R2 call or search, or stored
\* or re-dated while its send was being removed; otherwise it is removed with
\* its send, by whichever path.
OrphanExplained ==
  \A s \in blobs : ~Has(s) => s \in overlapped \cup failed

\* A send that lost its file is being removed, or its removal stopped half-way,
\* or it was written during the removal.
MissingFileExplained ==
  \A row \in rows : row.file /\ row.uuid \in uploaded \ blobs =>
    \/ UnderRemoval(row.uuid)
    \/ row.uuid \in overlapped \cup cut

\* A deleted send never comes back, whatever edits were under way.
DeletedStaysDeleted == [][\A s \in created : ~Has(s) => ~Has(s)']_vars

\* A send loses its password only to put_send_remove_password, or to an edit
\* that had read it without one.
PasswordOutlivesEdits ==
  [][\A x \in rows, y \in rows' :
       x.uuid = y.uuid /\ x.locked /\ ~y.locked =>
         \E e \in edits \ edits' :
           e.row.uuid = x.uuid /\ (e.was => e.op = "remove_password")]_vars

\* The test "returns 404 when max access count is reached": a send with a limit
\* is not given out more often than that.
LimitHolds ==
  \A row \in rows : None \notin Limit(row) =>
    \E max \in Limit(row) : row.count <= max
=============================================================================
