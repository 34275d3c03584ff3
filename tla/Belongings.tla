----------------------------- MODULE Belongings -----------------------------
(***************************************************************************)
(* What hangs on a cipher besides its collections: the folder it is filed   *)
(* in, its favorite marks, its attachments and their files in R2; and the   *)
(* folders themselves.  Nothing in the database ties these to the cipher,   *)
(* the folder or the user, so every deletion must delete them first, one    *)
(* statement after another, while other handlers go on inserting.           *)
(*                                                                         *)
(* Ciphers models access and sharing; here a handler begins when its access *)
(* check has passed, and a cipher row is its home and its age in the trash. *)
(***************************************************************************)
EXTENDS Naturals, FiniteSets

CONSTANTS
  Cipher,      \* values generate_uuid yields for ciphers.uuid
  Folder,      \* ... for folders.uuid
  Attachment,  \* ... for attachments.id
  User,        \* users, by their uuid
  Org,         \* the organization, the home of shared ciphers
  None,        \* no user, cipher, folder or attachment
  Request      \* handler instances that may run at the same time

ASSUME OrgAssumption == Org \notin User
ASSUME NoneAssumption == None \notin Cipher \cup Folder \cup Attachment \cup User

VARIABLES
  ciphers,     \* rows of `ciphers`
  folders,     \* rows of `folders`
  filed,       \* rows of `folders_ciphers`
  stars,       \* rows of `favorites`
  attached,    \* rows of `attachments`
  files,       \* objects in R2, attachments/<cipher>/<attachment>
  accounts,    \* rows of `users`
  running,     \* handlers in flight
  given,       \* ids already given out
  left,        \* history: rows inserted while, or after, what they hang on was
               \* being deleted, and rows whose deletion no statement sees to
  overlapped,  \* history: ciphers filed by two handlers at the same time
  spread,      \* history: ... by an import that names several folders for them
  stored,      \* history: attachments whose file was once stored
  raced,       \* history: ... was stored during or after its deletion
  missed,      \* history: ... was not deleted with the row
  cut          \* history: ... was deleted without the row

tables == <<ciphers, folders, filed, stars>>
crowded == <<overlapped, spread>>
uploads == <<attached, files, stored, raced, missed, cut>>
vars == <<tables, uploads, accounts, running, given, left, crowded>>

Homes == User \cup {Org}
Row == [uuid: Cipher, home: Homes, old: BOOLEAN]
FolderRow == [uuid: Folder, user: User]
Filing == [cipher: Cipher, folder: Folder]
Star == [user: User, cipher: Cipher]
AttachmentRow == [id: Attachment, cipher: Cipher]

\* Only to tell the kinds of rows in `left` apart.
ASSUME LeftAssumption == /\ Cipher \cap Folder = {}
                         /\ (Cipher \cup Folder) \cap (Filing \cup Star) = {}

\* Deletions of ciphers with what hangs on them.
Purges == {"delete", "purge_user", "purge_trash", "delete_account"}
\* What a handler remembers: its user, cipher, attachment, the folder it deletes,
\* and the folders it has yet to file its cipher in.
Handler == [id: Request,
            op: Purges \cup {"create", "import", "put", "move", "post_folder",
                             "delete_folder", "attach", "upload", "detach"},
            pc: {"insert", "clear", "file", "star", "unfile", "unstar",
                 "detach", "rows", "folders", "drop", "put", "erase"},
            user: User \cup {None}, cipher: Cipher \cup {None},
            folder: Folder \cup {None}, todo: SUBSET Folder,
            att: Attachment \cup {None}]

-----------------------------------------------------------------------------
Busy == {h.id : h \in running}
Become(h, new) == running' = (running \ {h}) \cup {new}
Goto(h, pc) == Become(h, [h EXCEPT !.pc = pc])
End(h) == running' = running \ {h}

Start(r, op, pc) == [id |-> r, op |-> op, pc |-> pc, user |-> None,
  cipher |-> None, folder |-> None, todo |-> {}, att |-> None]

Uuids == {row.uuid : row \in ciphers}
OwnFolders(u) == {f.uuid : f \in {x \in folders : x.user = u}}
Ids == {a.id : a \in attached}

\* The ciphers a statement of a deletion works on, found anew by each.
Subject(h) == CASE h.op = "delete" -> {h.cipher}
                [] h.op = "purge_trash" -> {row.uuid : row \in {x \in ciphers : x.old}}
                [] OTHER -> {row.uuid : row \in {x \in ciphers : x.home = h.user}}

\* What is being deleted by handlers that are past deleting what hangs on it:
\* the links of ciphers and of folders, the marks of ciphers and of users.
Unfiled == UNION {Subject(h) : h \in {g \in running : g.op \in Purges /\ g.pc \notin
             {"unfile"} \cup (IF g.op = "delete_account" THEN {"unstar"} ELSE {})}}
Emptied == {h.folder : h \in {g \in running : g.op = "delete_folder" /\ g.pc = "drop"}}
Unstarred == UNION {Subject(h) : h \in {g \in running : g.op \in Purges \ {"delete_account"}
                                                       /\ g.pc = "rows"}}
Leaving == {h.user : h \in {g \in running : g.op = "delete_account" /\ g.pc # "unstar"}}

\* Whether a row for u hangs on a user who is going, or gone.
Late(u) == u \in Leaving \/ u \notin accounts
Note(x, late) == left' = IF late THEN left \cup {x} ELSE left \ {x}

-----------------------------------------------------------------------------
Init == /\ ciphers = {} /\ folders = {} /\ filed = {} /\ stars = {}
        /\ attached = {} /\ files = {}
        /\ accounts = User /\ running = {} /\ given = {}
        /\ left = {} /\ overlapped = {} /\ spread = {}
        /\ stored = {} /\ raced = {} /\ missed = {} /\ cut = {}

Spawn(h) == /\ running' = running \cup {h}
            /\ UNCHANGED <<tables, uploads, accounts, given, left, crowded>>

\* The folder a body names, or none.  Nothing looks it up: it may be gone, or
\* another user's.
Choice == {{}} \cup {{f} : f \in Folder \cap given}

\* The handlers as they begin, auth_from_request and their checks passed.
\* post_cipher, with a folder or without; import_ciphers; post_folder.
PostCipher(r, u) ==
  \E todo \in Choice :
    Spawn([Start(r, "create", "insert") EXCEPT !.user = u, !.todo = todo])
PostFolders(r, u) ==
  \E op \in {"import", "post_folder"} : Spawn([Start(r, op, "folders") EXCEPT !.user = u])

\* put_cipher, of a cipher of the user's or the organization's, and bulk_move,
\* of the user's only.
PutCipher(r, u) ==
  \E row \in ciphers, todo \in Choice :
    /\ row.home \in {u, Org}
    /\ Spawn([Start(r, "put", "clear") EXCEPT
               !.user = u, !.cipher = row.uuid, !.todo = todo])
BulkMove(r, u) ==
  \E row \in ciphers, todo \in Choice :
    /\ row.home = u
    /\ Spawn([Start(r, "move", "clear") EXCEPT
               !.user = u, !.cipher = row.uuid, !.todo = todo])

DeleteFolder(r, u) ==
  \E f \in OwnFolders(u) : Spawn([Start(r, "delete_folder", "unfile") EXCEPT !.folder = f])
PurgeCiphers(r, u) == Spawn([Start(r, "purge_user", "unfile") EXCEPT !.user = u])
DeleteAccount(r, u) == Spawn([Start(r, "delete_account", "unstar") EXCEPT !.user = u])

DeleteCipher(r) ==
  \E c \in Uuids : Spawn([Start(r, "delete", "unfile") EXCEPT !.cipher = c])
PurgeTrashed(r) == Spawn(Start(r, "purge_trash", "unfile"))

\* The attachment handlers: the attachment is the cipher's.
PostAttachment(r) ==
  \E c \in Uuids : Spawn([Start(r, "attach", "insert") EXCEPT !.cipher = c])
UploadAttachment(r) ==
  \E a \in attached : /\ a.cipher \in Uuids
                      /\ Spawn([Start(r, "upload", "put") EXCEPT !.att = a.id])
DetachAttachment(r) ==
  \E a \in attached : /\ a.cipher \in Uuids
                      /\ Spawn([Start(r, "detach", "erase") EXCEPT !.att = a.id])

-----------------------------------------------------------------------------
\* insert_folder, of post_folder and of import_ciphers, which inserts all of its
\* folders before its ciphers.
InsertFolder(h) ==
  /\ h.op \in {"post_folder", "import"} /\ h.pc = "folders"
  /\ \E f \in Folder \ given :
       /\ folders' = folders \cup {[uuid |-> f, user |-> h.user]}
       /\ given' = given \cup {f}
       /\ Note(f, Late(h.user))
       /\ \/ h.op = "post_folder" /\ End(h)
          \/ h.op = "import" /\ \E pc \in {"folders", "insert"} :
               Become(h, [h EXCEPT !.pc = pc, !.todo = @ \cup {f}])
  /\ UNCHANGED <<ciphers, filed, stars, uploads, accounts, crowded>>

\* Where a handler goes on that has yet to file its cipher in todo.
FileNext(h, todo) ==
  IF todo # {} THEN "file" ELSE IF h.op \in {"create", "put"} THEN "star" ELSE "end"
GoFile(h, c, todo) ==
  LET pc == FileNext(h, todo) IN
  IF pc = "end" THEN End(h)
  ELSE Become(h, [h EXCEPT !.pc = pc, !.cipher = c, !.todo = todo])

\* insert_cipher, of post_cipher and import_ciphers, of whose ciphers one is
\* followed; the cipher is filed next in the folder that the body names, or in
\* those of the import that its folder_relationships name for it.
InsertCipher(h) ==
  /\ h.op \in {"create", "import"} /\ h.pc = "insert"
  /\ \E c \in Cipher \ given, todo \in SUBSET h.todo :
       /\ h.op = "create" => todo = h.todo
       /\ ciphers' = ciphers \cup {[uuid |-> c, home |-> h.user, old |-> FALSE]}
       /\ given' = given \cup {c}
       /\ Note(c, Late(h.user))
       /\ spread' = IF \E f, g \in todo : f # g THEN spread \cup {c} ELSE spread
       /\ GoFile(h, c, todo)
  /\ UNCHANGED <<folders, filed, stars, uploads, accounts, overlapped>>

\* Handlers about to insert a folder link for c.
FilingNow(c) == {h \in running : h.pc = "file" /\ h.cipher = c}

\* Mutant: a cipher is filed where it is going without leaving where it was.
KeepFolder(h) ==
  /\ h.op \in {"put", "move"} /\ h.pc = "clear"
  /\ GoFile(h, h.cipher, h.todo)
  /\ UNCHANGED <<tables, uploads, accounts, given, left, crowded>>

\* clear_folder_for_cipher, whose folder it may be.
ClearFolder(h) ==
  /\ h.op \in {"put", "move"} /\ h.pc = "clear"
  /\ filed' = {l \in filed : l.cipher # h.cipher}
  /\ IF FilingNow(h.cipher) = {}
     THEN overlapped' = overlapped \ {h.cipher} /\ spread' = spread \ {h.cipher}
     ELSE overlapped' = overlapped \cup {h.cipher} /\ UNCHANGED spread
  /\ GoFile(h, h.cipher, h.todo)
  /\ UNCHANGED <<ciphers, folders, stars, uploads, accounts, given, left>>

\* set_folder_cipher, INSERT OR REPLACE of a pair.
SetFolder(h) ==
  /\ h.pc = "file"
  /\ \E f \in h.todo : LET l == [cipher |-> h.cipher, folder |-> f] IN
       /\ filed' = filed \cup {l}
       /\ Note(l, \/ h.cipher \notin Uuids \/ h.cipher \in Unfiled
                  \/ f \in Emptied \/ ~\E g \in folders : g.uuid = f)
       /\ GoFile(h, h.cipher, h.todo \ {f})
  /\ UNCHANGED <<ciphers, folders, stars, uploads, accounts, given, crowded>>

\* set_favorite, or for put_cipher unset_favorite.
SetFavorite(h) ==
  LET s == [user |-> h.user, cipher |-> h.cipher] IN
  /\ h.pc = "star"
  /\ \/ /\ stars' = stars \cup {s}
        /\ Note(s, \/ h.cipher \notin Uuids \/ h.cipher \in Unstarred \/ Late(h.user))
     \/ /\ h.op = "put" /\ stars' = stars \ {s}
        /\ UNCHANGED left
  /\ End(h)
  /\ UNCHANGED <<ciphers, folders, filed, uploads, accounts, given, crowded>>

-----------------------------------------------------------------------------
\* Mutant: the statement on folders_ciphers is missing.
SkipLinks(h) ==
  /\ h.op \in Purges \cup {"delete_folder"} /\ h.pc = "unfile"
  /\ Goto(h, CASE h.op = "delete_folder" -> "drop"
               [] h.op = "delete_account" -> "detach"
               [] OTHER -> "unstar")
  /\ UNCHANGED <<tables, uploads, accounts, given, left, crowded>>

\* The deletions, statement by statement.  hard_delete_cipher,
\* purge_ciphers_for_user and purge_trashed_ciphers delete links, marks and
\* rows; delete_user_cascade the user's marks, then links, attachments, rows,
\* folders and the user; delete_folder links and the folder.
Unfile(h) ==
  LET gone == {l \in filed : IF h.op = "delete_folder" THEN l.folder = h.folder
                             ELSE l.cipher \in Subject(h)} IN
  /\ h.op \in Purges \cup {"delete_folder"} /\ h.pc = "unfile"
  /\ filed' = filed \ gone /\ left' = left \ gone
  /\ Goto(h, CASE h.op = "delete_folder" -> "drop"
               [] h.op = "delete_account" -> "detach"
               [] OTHER -> "unstar")
  /\ UNCHANGED <<ciphers, folders, stars, uploads, accounts, given, crowded>>

Unstar(h) ==
  LET gone == {s \in stars : IF h.op = "delete_account" THEN s.user = h.user
                             ELSE s.cipher \in Subject(h)} IN
  /\ h.op \in Purges /\ h.pc = "unstar"
  /\ stars' = stars \ gone /\ left' = left \ gone
  /\ Goto(h, IF h.op = "delete_account" THEN "unfile" ELSE "rows")
  /\ UNCHANGED <<ciphers, folders, filed, uploads, accounts, given, crowded>>

\* delete_user_cascade on attachments: the rows, and not the files.
DetachAll(h) ==
  LET gone == {a \in attached : a.cipher \in Subject(h)} IN
  /\ h.op = "delete_account" /\ h.pc = "detach"
  /\ attached' = attached \ gone
  /\ missed' = missed \cup {a.id : a \in gone}
  /\ Goto(h, "rows")
  /\ UNCHANGED <<tables, files, stored, raced, cut, accounts, given, left, crowded>>

DeleteRows(h) ==
  LET gone == Subject(h) IN
  /\ h.op \in Purges /\ h.pc = "rows"
  /\ ciphers' = {row \in ciphers : row.uuid \notin gone}
  /\ left' = left \ gone
  /\ IF h.op = "delete_account" THEN Goto(h, "folders") ELSE End(h)
  /\ UNCHANGED <<folders, filed, stars, uploads, accounts, given, crowded>>

\* Links of shared ciphers into the folders of a deleted account are no
\* statement's business.
DropFolders(h) ==
  LET gone == {f \in folders : f.user = h.user} IN
  /\ h.op = "delete_account" /\ h.pc = "folders"
  /\ folders' = folders \ gone
  /\ left' = (left \ {f.uuid : f \in gone})
               \cup {l \in filed : \E f \in gone : f.uuid = l.folder}
  /\ Goto(h, "drop")
  /\ UNCHANGED <<ciphers, filed, stars, uploads, accounts, given, crowded>>

DropFolder(h) ==
  /\ h.op = "delete_folder" /\ h.pc = "drop"
  /\ folders' = {f \in folders : f.uuid # h.folder}
  /\ left' = left \ {h.folder}
  /\ End(h)
  /\ UNCHANGED <<ciphers, filed, stars, uploads, accounts, given, crowded>>

\* The last statement; the rows the model leaves out go before it.
DropUser(h) ==
  /\ h.op = "delete_account" /\ h.pc = "drop"
  /\ accounts' = accounts \ {h.user}
  /\ End(h)
  /\ UNCHANGED <<tables, uploads, given, left, crowded>>

-----------------------------------------------------------------------------
\* post_attachment_v2, upload_attachment and delete_attachment.
InsertAttachment(h) ==
  /\ h.op = "attach" /\ h.pc = "insert"
  /\ \E a \in Attachment \ given :
       /\ attached' = attached \cup {[id |-> a, cipher |-> h.cipher]}
       /\ given' = given \cup {a}
  /\ End(h)
  /\ UNCHANGED <<tables, files, stored, raced, missed, cut, accounts, left, crowded>>

PutFile(h) ==
  LET Erased == \E g \in running : g.op = "detach" /\ g.pc = "rows" /\ g.att = h.att IN
  /\ h.op = "upload" /\ h.pc = "put"
  /\ files' = files \cup {h.att} /\ stored' = stored \cup {h.att}
  /\ raced' = IF h.att \notin Ids \/ Erased THEN raced \cup {h.att} ELSE raced
  /\ End(h)
  /\ UNCHANGED <<tables, attached, missed, cut, accounts, given, left, crowded>>

\* Mutant: the file is left to a later clean-up.
SkipFile(h) ==
  /\ h.op = "detach" /\ h.pc = "erase"
  /\ Goto(h, "rows")
  /\ UNCHANGED <<tables, uploads, accounts, given, left, crowded>>

\* r2.delete, whose failure is ignored.
DeleteFile(h) ==
  /\ h.op = "detach" /\ h.pc = "erase"
  /\ \/ files' = files \ {h.att} /\ UNCHANGED missed
     \/ missed' = missed \cup {h.att} /\ UNCHANGED files
  /\ Goto(h, "rows")
  /\ UNCHANGED <<tables, attached, stored, raced, cut, accounts, given, left, crowded>>

DeleteAttachment(h) ==
  /\ h.op = "detach" /\ h.pc = "rows"
  /\ attached' = {a \in attached : a.id # h.att}
  /\ End(h)
  /\ UNCHANGED <<tables, files, stored, raced, missed, cut, accounts, given, left,
                 crowded>>

-----------------------------------------------------------------------------
\* Mutant: the shared cipher is inserted.
InsertShared ==
  /\ \E row \in ciphers : /\ row.home \in accounts
                          /\ ciphers' = ciphers \cup {[row EXCEPT !.home = Org]}
                          /\ left' = left \ {row.uuid}
  /\ UNCHANGED <<folders, filed, stars, uploads, accounts, running, given, crowded>>

\* Single statements of Ciphers and Organizations: a cipher is shared, has been
\* in the trash for 30 days (no handler runs for so long), is restored or
\* trashed anew, or is deleted with the organization, which does not look for
\* what hangs on it.
Share == /\ \E row \in ciphers :
              /\ row.home \in accounts
              /\ ciphers' = (ciphers \ {row}) \cup {[row EXCEPT !.home = Org]}
              /\ left' = left \ {row.uuid}
         /\ UNCHANGED <<folders, filed, stars, uploads, accounts, running, given,
                        crowded>>
Age == /\ running = {}
       /\ \E row \in ciphers :
            ciphers' = (ciphers \ {row}) \cup {[row EXCEPT !.old = TRUE]}
       /\ UNCHANGED <<folders, filed, stars, uploads, accounts, running, given, left,
                      crowded>>
Save == /\ \E row \in ciphers :
             ciphers' = (ciphers \ {row}) \cup {[row EXCEPT !.old = FALSE]}
        /\ UNCHANGED <<folders, filed, stars, uploads, accounts, running, given, left,
                       crowded>>
Dissolve == LET gone == {row.uuid : row \in {x \in ciphers : x.home = Org}} IN
  /\ ciphers' = {row \in ciphers : row.home # Org}
  /\ left' = (left \ gone) \cup {l \in filed : l.cipher \in gone}
                           \cup {s \in stars : s.cipher \in gone}
  /\ UNCHANGED <<folders, filed, stars, uploads, accounts, running, given, crowded>>

\* A refused check, a failed statement or an evicted isolate.
Abandon(h) ==
  /\ End(h)
  /\ cut' = IF h.op = "detach" /\ h.pc = "rows" THEN cut \cup {h.att} ELSE cut
  /\ UNCHANGED <<tables, attached, files, stored, raced, missed, accounts, given, left,
                 crowded>>

Begin(r) ==
  \/ \E u \in accounts : \/ PostCipher(r, u) \/ PostFolders(r, u)
                         \/ PutCipher(r, u) \/ BulkMove(r, u)
                         \/ DeleteFolder(r, u) \/ PurgeCiphers(r, u)
                         \/ DeleteAccount(r, u)
  \/ DeleteCipher(r) \/ PurgeTrashed(r)
  \/ PostAttachment(r) \/ UploadAttachment(r) \/ DetachAttachment(r)

Step(h) ==
  \/ InsertFolder(h) \/ InsertCipher(h)
  \/ ClearFolder(h) \/ SetFolder(h) \/ SetFavorite(h)
  \/ Unfile(h) \/ Unstar(h) \/ DetachAll(h) \/ DeleteRows(h)
  \/ DropFolders(h) \/ DropFolder(h) \/ DropUser(h)
  \/ InsertAttachment(h) \/ PutFile(h) \/ DeleteFile(h) \/ DeleteAttachment(h)
  \/ Abandon(h)

Next == \/ \E r \in Request \ Busy : Begin(r)
        \/ \E h \in running : Step(h)
        \/ Share \/ Age \/ Save \/ Dissolve

Spec == Init /\ [][Next]_vars

-----------------------------------------------------------------------------
\* Rows and handlers are well formed, and the primary keys are unique.
TypeOK ==
  /\ ciphers \subseteq Row /\ folders \subseteq FolderRow
  /\ \A c, d \in ciphers : c.uuid = d.uuid => c = d
  /\ \A f, g \in folders : f.uuid = g.uuid => f = g
  /\ filed \subseteq Filing /\ stars \subseteq Star
  /\ attached \subseteq AttachmentRow
  /\ accounts \subseteq User /\ running \subseteq Handler
  /\ given \subseteq Cipher \cup Folder \cup Attachment
  /\ left \subseteq Cipher \cup Folder \cup Filing \cup Star
  /\ overlapped \subseteq Cipher /\ spread \subseteq Cipher
  /\ \A ids \in {files, stored, raced, missed, cut} : ids \subseteq Attachment

\* A cipher is in one folder at most, and in none while a handler is about to
\* put it in one, unless two handlers filed it at the same time or one import
\* named several folders for it; and then until it is moved with nobody else at it.
OneFolder ==
  \A c \in Cipher \ (overlapped \cup spread) :
    Cardinality({l \in filed : l.cipher = c}) + Cardinality(FilingNow(c)) <= 1

\* A folder link or favorite mark hangs on a cipher and on a folder or user that
\* exist, unless it was inserted while one of them was being deleted, or the
\* cipher went with the organization, or the folder with its account: no other
\* deletion, complete or cut short, leaves one behind.  In the same way a deleted
\* account leaves no cipher or folder, but for those inserted meanwhile.
LinksHang ==
  /\ \A l \in filed \ left : /\ l.cipher \in Uuids
                             /\ \E f \in folders : f.uuid = l.folder
  /\ \A s \in stars \ left : s.cipher \in Uuids /\ s.user \in accounts
  /\ \A u \in User \ accounts :
       /\ {row.uuid : row \in {x \in ciphers : x.home = u}} \subseteq left
       /\ OwnFolders(u) \subseteq left

\* A file without a row was stored during or after the deletion of its row, or
\* its own deletion failed, or its row went with an account; a row that lost its
\* file is being deleted, or its deletion stopped half-way.
FilesExplained ==
  /\ files \subseteq Ids \cup raced \cup missed
  /\ \A a \in (Ids \cap stored) \ (files \cup cut) :
       \E h \in running : h.op = "detach" /\ h.pc = "rows" /\ h.att = a
=============================================================================
