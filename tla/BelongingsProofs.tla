-------------------------- MODULE BelongingsProofs --------------------------
(***************************************************************************)
(* Proofs about Belongings, for any number of ciphers, folders, attachments, *)
(* users and requests at a time.                                            *)
(***************************************************************************)
EXTENDS Belongings, FiniteSetTheorems, TLAPS

-----------------------------------------------------------------------------
(* Type correctness.  Ids are not given out twice, and what a handler works  *)
(* on or a row hangs on was given out before.                                *)

\* At most one folder.
Single(todo) == \A f, g \in todo : f = g

HandlerOK(h) ==
  /\ h.op \in {"create", "import", "put", "move", "post_folder", "purge_user",
               "delete_account"} => h.user \in User
  /\ h.op \in {"put", "move", "delete", "attach"} \/ h.pc \in {"file", "star"}
       => h.cipher \in Cipher \cap given
  /\ h.op = "delete_folder" => h.folder \in Folder
  /\ h.pc = "file" => h.todo # {}
  /\ h.op \in {"create", "put", "move"} => Single(h.todo)
  /\ h.op \in {"upload", "detach"} => h.att \in Attachment \cap given
  /\ h.pc \in {"file", "star"} => h.op \in {"create", "import", "put", "move"}
  /\ h.pc = "star" => h.op # "move"
  /\ h.cipher \in given \cup {None}

Known ==
  /\ \A row \in ciphers : row.uuid \in given
  /\ \A f \in folders : f.uuid \in given
  /\ \A l \in filed : l.cipher \in given
  /\ \A s \in stars : s.cipher \in given
  /\ Ids \subseteq given /\ stored \subseteq given

TypeInv ==
  /\ TypeOK /\ Known
  /\ \A h \in running : HandlerOK(h)

LEMMA TypeInit == Init => TypeInv
BY DEF Init, TypeInv, TypeOK, Known, Ids

\* A filing is never a mark.
LEMMA FilingNoStar == Filing \cap Star = {}
<1>1. ASSUME NEW x \in Filing \cap Star PROVE FALSE
  <2>1. DOMAIN x = {"cipher", "folder"} /\ DOMAIN x = {"user", "cipher"}
    BY <1>1 DEF Filing, Star
  <2>. QED BY <2>1
<1>. QED BY <1>1

\* A handler that begins.
LEMMA BeginShape ==
  ASSUME TypeInv, NEW r \in Request \ Busy, Begin(r)
  PROVE  /\ UNCHANGED <<tables, uploads, accounts, given, left, crowded>>
         /\ \E new \in Handler :
              /\ running' = running \cup {new} /\ new.id = r
              /\ HandlerOK(new)
              /\ new.pc \notin {"file", "star", "rows", "drop"}
              /\ new.op \in Purges =>
                   new.pc = IF new.op = "delete_account" THEN "unstar" ELSE "unfile"
              /\ new.op \in {"create", "import"} => new.cipher = None
              /\ new.op = "put" => \E row \in ciphers :
                   row.uuid = new.cipher /\ row.home \in {new.user, Org}
              /\ new.op = "upload" => new.pc = "put" /\ new.att \in Ids
<1>1. /\ \A row \in ciphers : row.uuid \in Cipher \cap given
      /\ \A a \in attached : a.id \in Attachment \cap given
      /\ accounts \subseteq User
  BY DEF TypeInv, TypeOK, Known, Row, AttachmentRow, Ids
<1>2. ASSUME NEW u \in User
      PROVE  /\ OwnFolders(u) \subseteq Folder
             /\ \A todo \in Choice : todo \in SUBSET Folder /\ Single(todo)
  BY DEF TypeInv, TypeOK, FolderRow, OwnFolders, Choice, Single
<1>3. UNCHANGED <<tables, uploads, accounts, given, left, crowded>>
  BY DEF Begin, Spawn, PostCipher, PostFolders, PutCipher, BulkMove, DeleteFolder,
     PurgeCiphers, DeleteAccount, DeleteCipher, PurgeTrashed, PostAttachment,
     UploadAttachment, DetachAttachment
<1>4. \E new \in Handler :
        /\ running' = running \cup {new} /\ new.id = r
        /\ HandlerOK(new)
        /\ new.pc \notin {"file", "star", "rows", "drop"}
        /\ new.op \in Purges =>
             new.pc = IF new.op = "delete_account" THEN "unstar" ELSE "unfile"
        /\ new.op \in {"create", "import"} => new.cipher = None
        /\ new.op = "put" => \E row \in ciphers :
             row.uuid = new.cipher /\ row.home \in {new.user, Org}
        /\ new.op = "upload" => new.pc = "put" /\ new.att \in Ids
  <2>. USE DEF Start, Handler, Purges, HandlerOK
  <2>1. ASSUME NEW u \in accounts, PostCipher(r, u)
        PROVE  \E new \in Handler :
                 /\ running' = running \cup {new} /\ new.id = r /\ HandlerOK(new)
                 /\ new.op = "create" /\ new.pc = "insert" /\ new.cipher = None
    <3>1. PICK todo \in Choice :
            Spawn([Start(r, "create", "insert") EXCEPT !.user = u, !.todo = todo])
      BY <2>1 DEF PostCipher
    <3>. DEFINE new == [Start(r, "create", "insert") EXCEPT !.user = u, !.todo = todo]
    <3>2. u \in User /\ todo \in SUBSET Folder /\ Single(todo)
      BY <1>1, <1>2
    <3>3. new \in Handler /\ HandlerOK(new)
      BY <3>2
    <3>. QED BY <3>1, <3>3 DEF Spawn
  <2>2. ASSUME NEW u \in accounts, PostFolders(r, u)
        PROVE  \E new \in Handler :
                 /\ running' = running \cup {new} /\ new.id = r /\ HandlerOK(new)
                 /\ new.op \in {"import", "post_folder"} /\ new.pc = "folders"
                 /\ new.cipher = None
    <3>1. PICK op \in {"import", "post_folder"} :
            Spawn([Start(r, op, "folders") EXCEPT !.user = u])
      BY <2>2 DEF PostFolders
    <3>. DEFINE new == [Start(r, op, "folders") EXCEPT !.user = u]
    <3>2. new \in Handler /\ HandlerOK(new)
      BY <1>1
    <3>. QED BY <3>1, <3>2 DEF Spawn
  <2>3. ASSUME NEW u \in accounts, PutCipher(r, u)
        PROVE  \E new \in Handler :
                 /\ running' = running \cup {new} /\ new.id = r /\ HandlerOK(new)
                 /\ new.op = "put" /\ new.pc = "clear"
                 /\ \E row \in ciphers :
                      row.uuid = new.cipher /\ row.home \in {new.user, Org}
    <3>1. PICK row \in ciphers, todo \in Choice :
            /\ row.home \in {u, Org}
            /\ Spawn([Start(r, "put", "clear") EXCEPT
                        !.user = u, !.cipher = row.uuid, !.todo = todo])
      BY <2>3 DEF PutCipher
    <3>. DEFINE new == [Start(r, "put", "clear") EXCEPT
                          !.user = u, !.cipher = row.uuid, !.todo = todo]
    <3>2. u \in User /\ todo \in SUBSET Folder /\ Single(todo)
      BY <1>1, <1>2
    <3>3. new \in Handler /\ HandlerOK(new)
      BY <1>1, <3>2
    <3>. QED BY <3>1, <3>3 DEF Spawn
  <2>4. ASSUME NEW u \in accounts, BulkMove(r, u)
        PROVE  \E new \in Handler :
                 /\ running' = running \cup {new} /\ new.id = r /\ HandlerOK(new)
                 /\ new.op = "move" /\ new.pc = "clear"
    <3>1. PICK row \in ciphers, todo \in Choice :
            Spawn([Start(r, "move", "clear") EXCEPT
                     !.user = u, !.cipher = row.uuid, !.todo = todo])
      BY <2>4 DEF BulkMove
    <3>. DEFINE new == [Start(r, "move", "clear") EXCEPT
                          !.user = u, !.cipher = row.uuid, !.todo = todo]
    <3>2. u \in User /\ todo \in SUBSET Folder /\ Single(todo)
      BY <1>1, <1>2
    <3>3. new \in Handler /\ HandlerOK(new)
      BY <1>1, <3>2
    <3>. QED BY <3>1, <3>3 DEF Spawn
  <2>5. ASSUME NEW u \in accounts, DeleteFolder(r, u)
        PROVE  \E new \in Handler :
                 /\ running' = running \cup {new} /\ new.id = r /\ HandlerOK(new)
                 /\ new.op = "delete_folder" /\ new.pc = "unfile"
    <3>1. PICK f \in OwnFolders(u) :
            Spawn([Start(r, "delete_folder", "unfile") EXCEPT !.folder = f])
      BY <2>5 DEF DeleteFolder
    <3>. DEFINE new == [Start(r, "delete_folder", "unfile") EXCEPT !.folder = f]
    <3>2. u \in User /\ f \in Folder
      BY <1>1, <1>2
    <3>3. new \in Handler /\ HandlerOK(new)
      BY <3>2
    <3>. QED BY <3>1, <3>3 DEF Spawn
  <2>6. ASSUME NEW u \in accounts, PurgeCiphers(r, u) \/ DeleteAccount(r, u)
        PROVE  \E new \in Handler :
                 /\ running' = running \cup {new} /\ new.id = r /\ HandlerOK(new)
                 /\ \/ new.op = "purge_user" /\ new.pc = "unfile"
                    \/ new.op = "delete_account" /\ new.pc = "unstar"
    <3>. DEFINE purge == [Start(r, "purge_user", "unfile") EXCEPT !.user = u]
                delete == [Start(r, "delete_account", "unstar") EXCEPT !.user = u]
    <3>1. purge \in Handler /\ HandlerOK(purge)
      BY <1>1
    <3>2. delete \in Handler /\ HandlerOK(delete)
      BY <1>1
    <3>. QED BY <2>6, <3>1, <3>2 DEF PurgeCiphers, DeleteAccount, Spawn
  <2>7. ASSUME DeleteCipher(r) \/ PostAttachment(r)
        PROVE  \E new \in Handler :
                 /\ running' = running \cup {new} /\ new.id = r /\ HandlerOK(new)
                 /\ \/ new.op = "delete" /\ new.pc = "unfile"
                    \/ new.op = "attach" /\ new.pc = "insert"
    <3>1. PICK c \in Uuids :
            \/ Spawn([Start(r, "delete", "unfile") EXCEPT !.cipher = c])
            \/ Spawn([Start(r, "attach", "insert") EXCEPT !.cipher = c])
      BY <2>7 DEF DeleteCipher, PostAttachment
    <3>2. c \in Cipher \cap given
      BY <1>1 DEF Uuids
    <3>. DEFINE delete == [Start(r, "delete", "unfile") EXCEPT !.cipher = c]
                attach == [Start(r, "attach", "insert") EXCEPT !.cipher = c]
    <3>3. delete \in Handler /\ HandlerOK(delete)
      BY <3>2
    <3>4. attach \in Handler /\ HandlerOK(attach)
      BY <3>2
    <3>. QED BY <3>1, <3>3, <3>4 DEF Spawn
  <2>8. ASSUME PurgeTrashed(r)
        PROVE  \E new \in Handler :
                 /\ running' = running \cup {new} /\ new.id = r /\ HandlerOK(new)
                 /\ new.op = "purge_trash" /\ new.pc = "unfile"
    <3>. DEFINE new == Start(r, "purge_trash", "unfile")
    <3>1. new \in Handler /\ HandlerOK(new)
      OBVIOUS
    <3>. QED BY <2>8, <3>1 DEF PurgeTrashed, Spawn
  <2>9. ASSUME UploadAttachment(r) \/ DetachAttachment(r)
        PROVE  \E new \in Handler :
                 /\ running' = running \cup {new} /\ new.id = r /\ HandlerOK(new)
                 /\ \/ new.op = "upload" /\ new.pc = "put" /\ new.att \in Ids
                    \/ new.op = "detach" /\ new.pc = "erase"
    <3>1. PICK a \in attached :
            \/ Spawn([Start(r, "upload", "put") EXCEPT !.att = a.id])
            \/ Spawn([Start(r, "detach", "erase") EXCEPT !.att = a.id])
      BY <2>9 DEF UploadAttachment, DetachAttachment
    <3>. DEFINE upload == [Start(r, "upload", "put") EXCEPT !.att = a.id]
                detach == [Start(r, "detach", "erase") EXCEPT !.att = a.id]
    <3>2. upload \in Handler /\ HandlerOK(upload)
      BY <1>1
    <3>3. detach \in Handler /\ HandlerOK(detach)
      BY <1>1
    <3>. QED BY <3>1, <3>2, <3>3 DEF Spawn, Ids
  <2>. HIDE DEF Start, Handler, HandlerOK
  <2>. QED BY <2>1, <2>2, <2>3, <2>4, <2>5, <2>6, <2>7, <2>8, <2>9 DEF Begin
<1>. QED BY <1>3, <1>4

\* A handler that goes on.
LEMMA GotoOK ==
  ASSUME TypeInv, NEW h \in running,
         NEW pc \in {"insert", "clear", "file", "star", "unfile", "unstar",
                     "detach", "rows", "folders", "drop", "put", "erase"},
         Goto(h, pc)
  PROVE  \E new \in Handler :
           /\ running' = (running \ {h}) \cup {new}
           /\ new.pc = pc /\ new.id = h.id /\ new.op = h.op /\ new.user = h.user
           /\ new.cipher = h.cipher /\ new.folder = h.folder /\ new.att = h.att
           /\ new.todo = h.todo
<1>1. h \in Handler
  BY DEF TypeInv, TypeOK
<1>2. [h EXCEPT !.pc = pc] \in Handler
  BY <1>1 DEF Handler
<1>. QED BY <1>1, <1>2 DEF Goto, Become, Handler

LEMMA GoFileOK ==
  ASSUME TypeInv, NEW h \in running, NEW c \in Cipher \cup {None},
         NEW todo \in SUBSET Folder, GoFile(h, c, todo)
  PROVE  \/ running' = running \ {h}
         \/ \E new \in Handler :
              /\ running' = (running \ {h}) \cup {new}
              /\ new.id = h.id /\ new.op = h.op /\ new.user = h.user
              /\ new.cipher = c /\ new.folder = h.folder /\ new.todo = todo
              /\ new.att = h.att
              /\ \/ new.pc = "file" /\ todo # {}
                 \/ new.pc = "star" /\ h.op \in {"create", "put"}
<1>. DEFINE pc == FileNext(h, todo)
            new == [h EXCEPT !.pc = pc, !.cipher = c, !.todo = todo]
<1>1. h \in Handler
  BY DEF TypeInv, TypeOK
<1>2. CASE pc = "end"
  BY <1>2 DEF GoFile, End
<1>3. CASE pc # "end"
  <2>1. running' = (running \ {h}) \cup {new}
    BY <1>3 DEF GoFile, Become
  <2>2. \/ pc = "file" /\ todo # {}
        \/ pc = "star" /\ h.op \in {"create", "put"}
    BY <1>3 DEF FileNext
  <2>3. /\ new \in Handler /\ new.pc = pc
        /\ new.id = h.id /\ new.op = h.op /\ new.user = h.user
        /\ new.cipher = c /\ new.folder = h.folder /\ new.todo = todo
        /\ new.att = h.att
    <3>. HIDE DEF pc
    <3>1. pc \in {"file", "star"}
      BY <2>2
    <3>. QED BY <1>1, <3>1 DEF Handler
  <2>. HIDE DEF new, pc
  <2>. QED BY <2>1, <2>2, <2>3
<1>. QED BY <1>2, <1>3

\* What becomes of the handler that takes a step.
PastLinks(h) == /\ h.op \in Purges /\ h.pc # "unfile"
                /\ h.op = "delete_account" => h.pc # "unstar"
Successor(h, new) ==
  /\ new \in Handler /\ running' = (running \ {h}) \cup {new}
  /\ new.id = h.id /\ new.op = h.op /\ new.user = h.user /\ new.att = h.att
  /\ new.cipher = h.cipher \/ h.pc = "insert"
  /\ h.pc = "insert" => /\ h.op \in {"create", "import"} /\ InsertCipher(h)
                        /\ new.cipher \in Cipher \ given
                        /\ new.cipher \in given'
                        /\ new.cipher \in spread' \/ Single(new.todo)
  /\ new.folder = h.folder
  /\ h.op = "import" \/ new.todo \subseteq h.todo
  /\ new.pc = "file" => /\ \/ h.pc = "insert"
                           \/ h.pc = "clear" /\ ClearFolder(h)
                           \/ h.pc = "file" /\ \E f \in h.todo : new.todo = h.todo \ {f}
                        /\ h.op \in {"create", "import", "put", "move"}
                        /\ new.todo # {}
  /\ new.pc = "star" => /\ h.pc \in {"insert", "file"} \/ (h.pc = "clear" /\ ClearFolder(h))
                        /\ h.op \in {"create", "import", "put"}
  /\ PastLinks(new) => PastLinks(h) \/ Unfile(h)
  /\ new.op = "delete_folder" /\ new.pc = "drop" => Unfile(h)
  /\ new.op \in Purges \ {"delete_account"} /\ new.pc = "rows" => Unstar(h)
  /\ new.op = "delete_account" /\ new.pc # "unstar" => h.pc # "unstar" \/ Unstar(h)
  /\ new.op = "delete_account" /\ new.pc = "folders" => DeleteRows(h)
  /\ new.op = "delete_account" /\ new.pc = "drop" => DropFolders(h)
  /\ new.op = "detach" /\ new.pc = "rows" => DeleteFile(h)

LEMMA StepShape ==
  ASSUME TypeInv, NEW h \in running, Step(h)
  PROVE  running' = running \ {h} \/ \E new \in Handler : Successor(h, new)
<1>0. h \in Handler /\ HandlerOK(h)
  BY DEF TypeInv, TypeOK
<1>. USE DEF Successor, PastLinks, Purges
<1>1. CASE SetFavorite(h) \/ DropFolder(h) \/ DropUser(h) \/ InsertAttachment(h)
           \/ PutFile(h) \/ DeleteAttachment(h) \/ Abandon(h)
  BY <1>1 DEF SetFavorite, DropFolder, DropUser, InsertAttachment, PutFile,
     DeleteAttachment, Abandon, End
<1>2. CASE InsertFolder(h)
  <2>1. CASE h.op = "post_folder"
    BY <1>2, <2>1 DEF InsertFolder, End
  <2>2. CASE h.op = "import"
    <3>1. PICK f \in Folder \ given, pc \in {"folders", "insert"} :
            Become(h, [h EXCEPT !.pc = pc, !.todo = @ \cup {f}])
      BY <1>2, <2>2 DEF InsertFolder
    <3>. DEFINE new == [h EXCEPT !.pc = pc, !.todo = @ \cup {f}]
    <3>2. /\ new \in Handler /\ new.id = h.id /\ new.op = h.op /\ new.user = h.user
          /\ new.att = h.att /\ new.cipher = h.cipher /\ new.folder = h.folder
          /\ new.pc \in {"folders", "insert"}
      BY <1>0 DEF Handler
    <3>3. h.pc = "folders"
      BY <1>2 DEF InsertFolder
    <3>4. running' = (running \ {h}) \cup {new}
      BY <3>1 DEF Become
    <3>. HIDE DEF new
    <3>. QED BY <2>2, <3>2, <3>3, <3>4
  <2>. QED BY <1>2, <2>1, <2>2 DEF InsertFolder
<1>3. CASE InsertCipher(h)
  <2>1. PICK c \in Cipher \ given, todo \in SUBSET h.todo :
          /\ given' = given \cup {c}
          /\ spread' = IF \E f, g \in todo : f # g THEN spread \cup {c} ELSE spread
          /\ GoFile(h, c, todo)
    BY <1>3 DEF InsertCipher
  <2>2. h.op \in {"create", "import"} /\ h.pc = "insert" /\ c \in given'
    BY <1>3, <2>1 DEF InsertCipher
  <2>3. c \in spread' \/ Single(todo)
    BY <2>1 DEF Single
  <2>4. h.todo \in SUBSET Folder
    BY <1>0 DEF Handler
  <2>5. CASE running' = running \ {h}
    BY <2>5
  <2>6. ASSUME NEW new \in Handler,
               running' = (running \ {h}) \cup {new},
               new.id = h.id, new.op = h.op, new.user = h.user,
               new.cipher = c, new.folder = h.folder, new.todo = todo, new.att = h.att,
               \/ new.pc = "file" /\ todo # {}
               \/ new.pc = "star" /\ h.op \in {"create", "put"}
        PROVE  Successor(h, new)
    BY <1>3, <2>2, <2>3, <2>6
  <2>. QED BY <2>1, <2>4, <2>5, <2>6, GoFileOK
<1>4. CASE ClearFolder(h)
  <2>1. h.op \in {"put", "move"} /\ h.pc = "clear" /\ GoFile(h, h.cipher, h.todo)
    BY <1>4 DEF ClearFolder
  <2>2. h.todo \in SUBSET Folder /\ h.cipher \in Cipher \cup {None}
    BY <1>0 DEF Handler
  <2>. QED BY <1>4, <2>1, <2>2, GoFileOK
<1>5. CASE SetFolder(h)
  <2>1. PICK f \in h.todo : h.pc = "file" /\ GoFile(h, h.cipher, h.todo \ {f})
    BY <1>5 DEF SetFolder
  <2>2. h.todo \ {f} \in SUBSET Folder /\ h.cipher \in Cipher \cup {None}
    BY <1>0 DEF Handler
  <2>3. h.op \in {"create", "import", "put", "move"}
    BY <1>0, <2>1 DEF HandlerOK
  <2>. QED BY <1>5, <2>1, <2>2, <2>3, GoFileOK
<1>6. CASE Unfile(h)
  <2>1. PICK pc \in {"drop", "detach", "unstar"} :
          /\ Goto(h, pc)
          /\ pc = "drop" => h.op = "delete_folder"
          /\ pc = "unstar" => h.op # "delete_account"
    BY <1>6 DEF Unfile
  <2>2. h.op \in Purges \cup {"delete_folder"} /\ h.pc = "unfile"
    BY <1>6 DEF Unfile
  <2>. QED BY <1>6, <2>1, <2>2, GotoOK
<1>7. CASE Unstar(h)
  <2>1. Goto(h, IF h.op = "delete_account" THEN "unfile" ELSE "rows")
        /\ h.op \in Purges /\ h.pc = "unstar"
    BY <1>7 DEF Unstar
  <2>. QED BY <1>7, <2>1, GotoOK
<1>8. CASE DetachAll(h)
  <2>1. Goto(h, "rows") /\ h.op = "delete_account" /\ h.pc = "detach"
    BY <1>8 DEF DetachAll
  <2>. QED BY <2>1, GotoOK
<1>9. CASE DeleteRows(h)
  <2>1. CASE h.op = "delete_account"
    <3>1. Goto(h, "folders") /\ h.pc = "rows"
      BY <1>9, <2>1 DEF DeleteRows
    <3>. QED BY <1>9, <2>1, <3>1, GotoOK
  <2>2. CASE h.op # "delete_account"
    BY <1>9, <2>2 DEF DeleteRows, End
  <2>. QED BY <2>1, <2>2
<1>10. CASE DropFolders(h)
  <2>1. Goto(h, "drop") /\ h.op = "delete_account" /\ h.pc = "folders"
    BY <1>10 DEF DropFolders
  <2>. QED BY <1>10, <2>1, GotoOK
<1>11. CASE DeleteFile(h)
  <2>1. Goto(h, "rows") /\ h.op = "detach" /\ h.pc = "erase"
    BY <1>11 DEF DeleteFile
  <2>. QED BY <1>11, <2>1, GotoOK
<1>. QED BY <1>1, <1>2, <1>3, <1>4, <1>5, <1>6, <1>7, <1>8, <1>9, <1>10, <1>11 DEF Step

LEMMA StepHandlers ==
  ASSUME TypeInv, NEW h \in running, Step(h), given \subseteq given'
  PROVE  running' \subseteq Handler /\ \A g \in running' : HandlerOK(g)'
<1>0. running \subseteq Handler /\ \A g \in running : HandlerOK(g)
  BY DEF TypeInv, TypeOK
<1>1. \A g \in running : HandlerOK(g)'
  BY <1>0 DEF HandlerOK
<1>2. ASSUME NEW new \in Handler, Successor(h, new) PROVE HandlerOK(new)'
  <2>0. ClearFolder(h) => h.op \in {"put", "move"}
    BY DEF ClearFolder
  <2>1. /\ new.op = h.op /\ new.user = h.user /\ new.att = h.att
        /\ new.cipher = h.cipher \/ new.cipher \in Cipher \cap given'
        /\ h.pc = "insert" => new.cipher \in Cipher \cap given'
        /\ new.folder = h.folder
        /\ h.op = "import" \/ new.todo \subseteq h.todo
        /\ new.pc = "file" => /\ h.pc \in {"insert", "file"} \/ h.op \in {"put", "move"}
                              /\ h.op \in {"create", "import", "put", "move"}
                              /\ new.todo # {}
        /\ new.pc = "star" => /\ h.pc \in {"insert", "file"} \/ h.op \in {"put", "move"}
                              /\ h.op \in {"create", "import", "put"}
    BY <1>2, <2>0 DEF Successor
  <2>2. HandlerOK(h)
    BY <1>0
  <2>3. new.op \in {"put", "move", "delete", "attach"} \/ new.pc \in {"file", "star"}
          => new.cipher \in Cipher \cap given'
    BY <2>1, <2>2 DEF HandlerOK
  <2>4. /\ new.op = "delete_folder" => new.folder \in Folder
        /\ new.op \in {"create", "put", "move"} => Single(new.todo)
    BY <2>1, <2>2 DEF HandlerOK, Single
  <2>. QED BY <2>1, <2>2, <2>3, <2>4 DEF HandlerOK
<1>3. CASE running' = running \ {h}
  BY <1>0, <1>1, <1>3
<1>4. ASSUME NEW new \in Handler, Successor(h, new)
      PROVE  running' \subseteq Handler /\ \A g \in running' : HandlerOK(g)'
  <2>1. running' = (running \ {h}) \cup {new} /\ HandlerOK(new)'
    BY <1>2, <1>4 DEF Successor
  <2>. QED BY <1>0, <1>1, <2>1
<1>. QED BY <1>3, <1>4, StepShape

LEMMA GivenGrows == ASSUME TypeInv, [Next]_vars PROVE given \subseteq given'
<1>1. ASSUME NEW r \in Request \ Busy, Begin(r) PROVE given \subseteq given'
  BY <1>1, BeginShape
<1>2. ASSUME NEW h \in running, Step(h) PROVE given \subseteq given'
  BY <1>2 DEF Step, InsertFolder, InsertCipher, ClearFolder, SetFolder, SetFavorite,
     Unfile, Unstar, DetachAll, DeleteRows, DropFolders, DropFolder, DropUser,
     InsertAttachment, PutFile, DeleteFile, DeleteAttachment, Abandon
<1>. QED BY <1>1, <1>2 DEF Next, vars, Share, Age, Save, Dissolve

\* TypeInv without its handlers.
RowsOK ==
  /\ ciphers \subseteq Row /\ folders \subseteq FolderRow
  /\ \A c, d \in ciphers : c.uuid = d.uuid => c = d
  /\ \A f, g \in folders : f.uuid = g.uuid => f = g
  /\ filed \subseteq Filing /\ stars \subseteq Star
  /\ attached \subseteq AttachmentRow
  /\ accounts \subseteq User
  /\ given \subseteq Cipher \cup Folder \cup Attachment
  /\ left \subseteq Cipher \cup Folder \cup Filing \cup Star
  /\ overlapped \subseteq Cipher /\ spread \subseteq Cipher
  /\ files \subseteq Attachment /\ stored \subseteq Attachment /\ raced \subseteq Attachment
  /\ missed \subseteq Attachment /\ cut \subseteq Attachment
  /\ Known

LEMMA RowsOfType == TypeInv <=> /\ RowsOK /\ running \subseteq Handler
                                /\ \A h \in running : HandlerOK(h)
BY DEF TypeInv, TypeOK, RowsOK

LEMMA RowsStep == ASSUME TypeInv, NEW h \in running, Step(h) PROVE RowsOK'
<1>0. RowsOK /\ h \in Handler /\ HandlerOK(h)
  BY RowsOfType
<1>. USE DEF RowsOK, Known, Ids, tables, uploads, crowded, Note
<1>1. CASE InsertFolder(h)
  <2>1. h.user \in User
    BY <1>0, <1>1 DEF InsertFolder, HandlerOK
  <2>2. PICK f \in Folder \ given :
          /\ folders' = folders \cup {[uuid |-> f, user |-> h.user]}
          /\ given' = given \cup {f}
          /\ left' = left \cup {f} \/ left' = left \ {f}
    BY <1>1 DEF InsertFolder
  <2>3. [uuid |-> f, user |-> h.user] \in FolderRow
    BY <2>1 DEF FolderRow
  <2>. QED BY <1>0, <1>1, <2>2, <2>3 DEF InsertFolder
<1>2. CASE InsertCipher(h)
  <2>1. h.user \in User
    BY <1>0, <1>2 DEF InsertCipher, HandlerOK
  <2>2. PICK c \in Cipher \ given :
          /\ ciphers' = ciphers \cup {[uuid |-> c, home |-> h.user, old |-> FALSE]}
          /\ given' = given \cup {c}
          /\ left' = left \cup {c} \/ left' = left \ {c}
          /\ spread' \subseteq spread \cup {c}
    BY <1>2 DEF InsertCipher
  <2>. DEFINE row == [uuid |-> c, home |-> h.user, old |-> FALSE]
  <2>3. row \in Row /\ row.uuid = c
    BY <2>1 DEF Row, Homes
  <2>4. ciphers' = ciphers \cup {row}
    BY <2>2
  <2>5. /\ given' = given \cup {c}
        /\ left' = left \cup {c} \/ left' = left \ {c}
        /\ spread' \subseteq spread \cup {c}
    BY <2>2
  <2>6. UNCHANGED <<folders, filed, stars, uploads, accounts, overlapped>>
    BY <1>2 DEF InsertCipher
  <2>. HIDE DEF row
  <2>. QED BY <1>0, <2>3, <2>4, <2>5, <2>6
<1>3. CASE ClearFolder(h)
  <2>1. h.cipher \in Cipher
    BY <1>0, <1>3 DEF ClearFolder, HandlerOK
  <2>. QED BY <1>0, <1>3, <2>1 DEF ClearFolder
<1>4. CASE SetFolder(h)
  <2>0. PICK f \in h.todo :
          LET x == [cipher |-> h.cipher, folder |-> f] IN
          filed' = filed \cup {x} /\ (left' = left \cup {x} \/ left' = left \ {x})
    BY <1>4 DEF SetFolder
  <2>. DEFINE l == [cipher |-> h.cipher, folder |-> f]
  <2>1. l \in Filing /\ l.cipher \in given
    <3>1. h.cipher \in Cipher \cap given /\ f \in Folder
      BY <1>0, <1>4 DEF SetFolder, HandlerOK, Handler
    <3>. QED BY <3>1 DEF Filing
  <2>2. filed' = filed \cup {l} /\ (left' = left \cup {l} \/ left' = left \ {l})
    BY <2>0
  <2>. HIDE DEF l
  <2>. QED BY <1>0, <1>4, <2>1, <2>2 DEF SetFolder
<1>5. CASE SetFavorite(h)
  <2>. DEFINE s == [user |-> h.user, cipher |-> h.cipher]
  <2>1. s \in Star /\ s.cipher \in given
    BY <1>0, <1>5 DEF SetFavorite, HandlerOK, Star
  <2>2. \/ stars' = stars \cup {s} /\ (left' = left \cup {s} \/ left' = left \ {s})
        \/ stars' = stars \ {s} /\ UNCHANGED left
    BY <1>5 DEF SetFavorite
  <2>. HIDE DEF s
  <2>. QED BY <1>0, <1>5, <2>1, <2>2 DEF SetFavorite
<1>6. CASE Unfile(h)
  BY <1>0, <1>6 DEF Unfile
<1>7. CASE Unstar(h)
  BY <1>0, <1>7 DEF Unstar
<1>8. CASE DetachAll(h)
  BY <1>0, <1>8 DEF DetachAll, AttachmentRow
<1>9. CASE DeleteRows(h)
  BY <1>0, <1>9 DEF DeleteRows
<1>10. CASE DropFolders(h)
  BY <1>0, <1>10 DEF DropFolders
<1>11. CASE DropFolder(h)
  BY <1>0, <1>11 DEF DropFolder
<1>12. CASE DropUser(h)
  BY <1>0, <1>12 DEF DropUser
<1>13. CASE InsertAttachment(h)
  <2>1. h.cipher \in Cipher
    BY <1>0, <1>13 DEF InsertAttachment, HandlerOK
  <2>2. PICK a \in Attachment \ given :
          /\ attached' = attached \cup {[id |-> a, cipher |-> h.cipher]}
          /\ given' = given \cup {a}
    BY <1>13 DEF InsertAttachment
  <2>3. [id |-> a, cipher |-> h.cipher] \in AttachmentRow
    BY <2>1 DEF AttachmentRow
  <2>. QED BY <1>0, <1>13, <2>2, <2>3 DEF InsertAttachment
<1>14. CASE PutFile(h) \/ DeleteFile(h) \/ DeleteAttachment(h) \/ Abandon(h)
  <2>1. h.op \in {"upload", "detach"} => h.att \in Attachment \cap given
    BY <1>0 DEF HandlerOK
  <2>. QED BY <1>0, <1>14, <2>1 DEF PutFile, DeleteFile, DeleteAttachment, Abandon
<1>. QED BY <1>1, <1>2, <1>3, <1>4, <1>5, <1>6, <1>7, <1>8, <1>9, <1>10, <1>11, <1>12,
            <1>13, <1>14 DEF Step

\* The statements of other components.
LEMMA OthersType ==
  ASSUME TypeInv, Share \/ Age \/ Save \/ Dissolve
  PROVE  TypeInv'
<1>1. RowsOK'
  <2>1. ASSUME NEW row \in ciphers PROVE [row EXCEPT !.home = Org] \in Row
    BY DEF TypeInv, TypeOK, Row, Homes
  <2>2. ASSUME NEW row \in ciphers, NEW b \in BOOLEAN PROVE [row EXCEPT !.old = b] \in Row
    BY DEF TypeInv, TypeOK, Row
  <2>3. ASSUME NEW row \in ciphers, NEW new \in Row, new.uuid = row.uuid,
               ciphers' = (ciphers \ {row}) \cup {new}, left' \subseteq left,
               UNCHANGED <<folders, filed, stars, uploads, accounts, given, crowded>>
        PROVE  RowsOK'
    BY <2>3, RowsOfType DEF RowsOK, Known, Ids, uploads, crowded
  <2>4. CASE Share
    BY <2>1, <2>3, <2>4 DEF Share, TypeInv, TypeOK, Row
  <2>5. CASE Age \/ Save
    BY <2>2, <2>3, <2>5 DEF Age, Save, TypeInv, TypeOK, Row
  <2>6. CASE Dissolve
    BY <2>6, RowsOfType DEF Dissolve, RowsOK, Known, Ids, uploads, crowded
  <2>. QED BY <2>4, <2>5, <2>6
<1>2. UNCHANGED <<running, given>>
  BY DEF Share, Age, Save, Dissolve
<1>. QED BY <1>1, <1>2, RowsOfType DEF TypeInv, TypeOK, RowsOK, HandlerOK

LEMMA TypeStep == ASSUME TypeInv, [Next]_vars PROVE TypeInv'
<1>1. CASE UNCHANGED vars
  BY <1>1 DEF vars, tables, uploads, crowded, TypeInv, TypeOK, Known, Ids, HandlerOK
<1>2. ASSUME NEW r \in Request \ Busy, Begin(r) PROVE TypeInv'
  <2>1. PICK new \in Handler : running' = running \cup {new} /\ HandlerOK(new)
    BY <1>2, BeginShape
  <2>2. UNCHANGED <<tables, uploads, accounts, given, left, crowded>>
    BY <1>2, BeginShape
  <2>3. \A h \in running' : HandlerOK(h)'
    BY <2>1, <2>2 DEF TypeInv, HandlerOK
  <2>. QED BY <2>1, <2>2, <2>3 DEF tables, uploads, crowded, TypeInv, TypeOK, Known, Ids
<1>3. ASSUME NEW h \in running, Step(h) PROVE TypeInv'
  <2>1. RowsOK'
    BY <1>3, RowsStep
  <2>2. given \subseteq given'
    BY <1>3, GivenGrows DEF Next
  <2>3. running' \subseteq Handler /\ \A g \in running' : HandlerOK(g)'
    BY <1>3, <2>2, StepHandlers
  <2>. QED BY <2>1, <2>3 DEF TypeInv, TypeOK, RowsOK
<1>. QED BY <1>1, <1>2, <1>3, OthersType DEF Next

LEMMA TypeInvariant == Spec => []TypeInv
BY TypeInit, TypeStep, PTL DEF Spec

\* Rows and handlers are well formed, and the primary keys are unique, for any
\* number of ciphers, users and concurrent handlers.
THEOREM TypeCorrect == Spec => []TypeOK
<1>1. TypeInv => TypeOK
  BY DEF TypeInv
<1>. QED BY <1>1, TypeInvariant, PTL

-----------------------------------------------------------------------------
(* Files and their rows. *)

Deleting(a) == \E g \in running : g.op = "detach" /\ g.pc = "rows" /\ g.att = a

\* The file of a row that is about to be deleted is gone, unless it was not
\* deleted or was stored again.
FilesInv ==
  /\ FilesExplained
  /\ \A a \in files \ (raced \cup missed) : ~Deleting(a)

LEMMA FilesInit == Init => FilesInv
BY DEF Init, FilesInv, FilesExplained

LEMMA FilesStep == ASSUME TypeInv, FilesInv, [Next]_vars PROVE FilesInv'
<1>0. /\ files \subseteq Ids \cup raced \cup missed
      /\ \A a \in (Ids \cap stored) \ (files \cup cut) : Deleting(a)
      /\ \A a \in files \ (raced \cup missed) : ~Deleting(a)
      /\ stored \subseteq given
  BY DEF FilesInv, FilesExplained, Deleting, TypeInv, Known
<1>1. SUFFICES /\ files' \subseteq Ids' \cup raced' \cup missed'
               /\ \A a \in (Ids' \cap stored') \ (files' \cup cut') : Deleting(a)'
               /\ \A a \in files' \ (raced' \cup missed') : ~Deleting(a)'
  BY DEF FilesInv, FilesExplained, Deleting
<1>2. CASE UNCHANGED <<uploads, running>>
  BY <1>0, <1>2 DEF uploads, Ids, Deleting
<1>3. ASSUME NEW r \in Request \ Busy, Begin(r)
      PROVE  UNCHANGED uploads /\ \A a : Deleting(a)' <=> Deleting(a)
  BY <1>3, BeginShape DEF Deleting
<1>4. ASSUME NEW h \in running, Step(h), ~DeleteFile(h)
      PROVE  \A a : Deleting(a)' <=> \E g \in running \ {h} :
                                       g.op = "detach" /\ g.pc = "rows" /\ g.att = a
  <2>1. CASE running' = running \ {h}
    BY <2>1 DEF Deleting
  <2>2. ASSUME NEW new \in Handler, Successor(h, new)
        PROVE  \A a : Deleting(a)' <=> \E g \in running \ {h} :
                                         g.op = "detach" /\ g.pc = "rows" /\ g.att = a
    <3>1. running' = (running \ {h}) \cup {new} /\ ~(new.op = "detach" /\ new.pc = "rows")
      BY <1>4, <2>2 DEF Successor
    <3>. QED BY <3>1 DEF Deleting
  <2>. QED BY <1>4, <2>1, <2>2, StepShape
<1>5. ASSUME NEW h \in running, Step(h), ~(h.op = "detach" /\ h.pc = "rows"),
             ~DeleteFile(h)
      PROVE  \A a : Deleting(a)' <=> Deleting(a)
  BY <1>4, <1>5 DEF Deleting
<1>6. CASE \E h \in running : InsertFolder(h) \/ InsertCipher(h) \/ ClearFolder(h)
             \/ SetFolder(h) \/ SetFavorite(h) \/ Unfile(h) \/ Unstar(h)
             \/ DeleteRows(h) \/ DropFolders(h) \/ DropFolder(h) \/ DropUser(h)
  <2>1. PICK h \in running : InsertFolder(h) \/ InsertCipher(h) \/ ClearFolder(h)
             \/ SetFolder(h) \/ SetFavorite(h) \/ Unfile(h) \/ Unstar(h)
             \/ DeleteRows(h) \/ DropFolders(h) \/ DropFolder(h) \/ DropUser(h)
    BY <1>6
  <2>2. /\ UNCHANGED uploads
        /\ h.op # "detach"
    <3>1. HandlerOK(h)
      BY DEF TypeInv
    <3>. QED BY <2>1, <3>1 DEF InsertFolder, InsertCipher, ClearFolder, SetFolder, SetFavorite,
       Unfile, Unstar, DeleteRows, DropFolders, DropFolder, DropUser, Purges, HandlerOK
  <2>3. Step(h) /\ ~DeleteFile(h)
    BY <2>1, <2>2 DEF Step, DeleteFile
  <2>4. \A a : Deleting(a)' <=> Deleting(a)
    BY <1>5, <2>2, <2>3
  <2>. QED BY <1>0, <2>2, <2>4 DEF uploads, Ids
<1>7. ASSUME NEW h \in running, InsertAttachment(h)
      PROVE  /\ files' \subseteq Ids' \cup raced' \cup missed'
             /\ \A a \in (Ids' \cap stored') \ (files' \cup cut') : Deleting(a)'
             /\ \A a \in files' \ (raced' \cup missed') : ~Deleting(a)'
  <2>1. h.op = "attach" /\ Step(h) /\ ~DeleteFile(h)
    BY <1>7 DEF InsertAttachment, Step, DeleteFile
  <2>2. \A a : Deleting(a)' <=> Deleting(a)
    BY <1>5, <2>1
  <2>3. PICK new \in Attachment \ given : Ids' = Ids \cup {new}
    <3>1. PICK a \in Attachment \ given :
            attached' = attached \cup {[id |-> a, cipher |-> h.cipher]}
      BY <1>7 DEF InsertAttachment
    <3>2. Ids' = {x.id : x \in attached'}
      BY DEF Ids
    <3>. DEFINE row == [id |-> a, cipher |-> h.cipher]
    <3>3. row.id = a /\ attached' = attached \cup {row}
      BY <3>1
    <3>. HIDE DEF row
    <3>. QED BY <3>2, <3>3 DEF Ids
  <2>4. UNCHANGED <<files, stored, raced, missed, cut>>
    BY <1>7 DEF InsertAttachment
  <2>. QED BY <1>0, <2>2, <2>3, <2>4
<1>8. ASSUME NEW h \in running, DetachAll(h)
      PROVE  /\ files' \subseteq Ids' \cup raced' \cup missed'
             /\ \A a \in (Ids' \cap stored') \ (files' \cup cut') : Deleting(a)'
             /\ \A a \in files' \ (raced' \cup missed') : ~Deleting(a)'
  <2>1. h.op = "delete_account" /\ Step(h) /\ ~DeleteFile(h)
    BY <1>8 DEF DetachAll, Step, DeleteFile
  <2>2. \A a : Deleting(a)' <=> Deleting(a)
    BY <1>5, <2>1
  <2>3. Ids' \subseteq Ids /\ Ids \subseteq Ids' \cup missed' /\ missed \subseteq missed'
    BY <1>8 DEF DetachAll, Ids
  <2>4. UNCHANGED <<files, stored, raced, cut>>
    BY <1>8 DEF DetachAll
  <2>. QED BY <1>0, <2>2, <2>3, <2>4
<1>9. ASSUME NEW h \in running, PutFile(h)
      PROVE  /\ files' \subseteq Ids' \cup raced' \cup missed'
             /\ \A a \in (Ids' \cap stored') \ (files' \cup cut') : Deleting(a)'
             /\ \A a \in files' \ (raced' \cup missed') : ~Deleting(a)'
  <2>1. h.op = "upload" /\ Step(h) /\ ~DeleteFile(h)
    BY <1>9 DEF PutFile, Step, DeleteFile
  <2>2. \A a : Deleting(a)' <=> Deleting(a)
    BY <1>5, <2>1
  <2>3. /\ files' = files \cup {h.att} /\ stored' = stored \cup {h.att}
        /\ raced' = IF h.att \notin Ids \/ Deleting(h.att) THEN raced \cup {h.att} ELSE raced
        /\ UNCHANGED <<attached, missed, cut>>
    BY <1>9 DEF PutFile, Deleting
  <2>. QED BY <1>0, <2>2, <2>3 DEF Ids
<1>10. ASSUME NEW h \in running, DeleteFile(h)
       PROVE  /\ files' \subseteq Ids' \cup raced' \cup missed'
              /\ \A a \in (Ids' \cap stored') \ (files' \cup cut') : Deleting(a)'
              /\ \A a \in files' \ (raced' \cup missed') : ~Deleting(a)'
  <2>1. Goto(h, "rows") /\ h.op = "detach" /\ h.pc = "erase"
    BY <1>10 DEF DeleteFile
  <2>2. \A a : Deleting(a)' <=> Deleting(a) \/ a = h.att
    <3>1. PICK new \in Handler :
            /\ running' = (running \ {h}) \cup {new}
            /\ new.pc = "rows" /\ new.op = h.op /\ new.att = h.att
      BY <2>1, GotoOK
    <3>. QED BY <2>1, <3>1 DEF Deleting
  <2>3. /\ \/ files' = files \ {h.att} /\ UNCHANGED missed
           \/ missed' = missed \cup {h.att} /\ UNCHANGED files
        /\ UNCHANGED <<attached, stored, raced, cut>>
    BY <1>10 DEF DeleteFile
  <2>. QED BY <1>0, <2>2, <2>3 DEF Ids
<1>11. ASSUME NEW h \in running, DeleteAttachment(h) \/ Abandon(h)
       PROVE  /\ files' \subseteq Ids' \cup raced' \cup missed'
              /\ \A a \in (Ids' \cap stored') \ (files' \cup cut') : Deleting(a)'
              /\ \A a \in files' \ (raced' \cup missed') : ~Deleting(a)'
  <2>1. running' = running \ {h} /\ UNCHANGED <<files, stored, raced, missed>>
    BY <1>11 DEF DeleteAttachment, Abandon, End
  <2>0. ~(h.op = "detach" /\ h.pc = "rows") => \A a : Deleting(a)' <=> Deleting(a)
    BY <2>1 DEF Deleting
  <2>2. \A a : Deleting(a)' => Deleting(a)
    BY <2>1 DEF Deleting
  <2>3. \A a : Deleting(a) => Deleting(a)' \/ (a = h.att /\ h.op = "detach" /\ h.pc = "rows")
    BY <2>1 DEF Deleting
  <2>4. CASE DeleteAttachment(h)
    <3>1. Ids' = Ids \ {h.att} /\ UNCHANGED cut
      BY <2>4 DEF DeleteAttachment, Ids
    <3>2. Deleting(h.att)
      BY <2>4 DEF DeleteAttachment, Deleting
    <3>. QED BY <1>0, <2>1, <2>2, <2>3, <3>1, <3>2
  <2>5. CASE Abandon(h)
    <3>1. /\ UNCHANGED attached
          /\ cut' = IF h.op = "detach" /\ h.pc = "rows" THEN cut \cup {h.att} ELSE cut
      BY <2>5 DEF Abandon
    <3>. QED BY <1>0, <2>0, <2>1, <2>2, <2>3, <3>1 DEF Ids
  <2>. QED BY <1>11, <2>4, <2>5
<1>12. ASSUME NEW r \in Request \ Busy, Begin(r)
       PROVE  /\ files' \subseteq Ids' \cup raced' \cup missed'
              /\ \A a \in (Ids' \cap stored') \ (files' \cup cut') : Deleting(a)'
              /\ \A a \in files' \ (raced' \cup missed') : ~Deleting(a)'
  BY <1>0, <1>3, <1>12 DEF uploads, Ids
<1>13. UNCHANGED vars \/ Share \/ Age \/ Save \/ Dissolve => UNCHANGED <<uploads, running>>
  BY DEF vars, Share, Age, Save, Dissolve, uploads
<1>. QED BY <1>2, <1>6, <1>7, <1>8, <1>9, <1>10, <1>11, <1>12, <1>13 DEF Next, Step

\* A file without a row was stored during or after the deletion of its row, or
\* missed by it, and a row lost its file only to a deletion under way or cut
\* short, for any number of attachments and requests.
THEOREM Files == Spec => []FilesExplained
<1>1. Spec => []FilesInv
  BY FilesInit, FilesStep, TypeInvariant, PTL DEF Spec
<1>2. FilesInv => FilesExplained
  BY DEF FilesInv
<1>. QED BY <1>1, <1>2, PTL

-----------------------------------------------------------------------------
(* The folder of a cipher. *)

\* What a cipher is in, and is about to be put in.
OneOf(c) ==
  /\ \A l, k \in filed : l.cipher = c /\ k.cipher = c => l = k
  /\ \A g, h \in FilingNow(c) : g = h
  /\ \A l \in filed : l.cipher = c => FilingNow(c) = {}
  /\ \A g \in FilingNow(c) : Single(g.todo)

OneInv == \A c \in Cipher \ (overlapped \cup spread) : OneOf(c)

LEMMA OneInit == Init => OneInv
BY DEF Init, OneInv, OneOf, FilingNow

\* Who is about to file a cipher after a step.
LEMMA FilingAfter ==
  ASSUME TypeInv, NEW h \in running, Step(h), NEW c
  PROVE  \/ FilingNow(c)' \subseteq FilingNow(c) \ {h}
         \/ \E new : /\ FilingNow(c)' \subseteq (FilingNow(c) \ {h}) \cup {new}
                     /\ \/ /\ h.pc = "insert" /\ c \in Cipher \ given
                           /\ c \in spread' \/ Single(new.todo)
                        \/ ClearFolder(h) /\ c = h.cipher /\ Single(new.todo)
                        \/ /\ h.pc = "file" /\ c = h.cipher
                           /\ \E f \in h.todo : \E g \in h.todo \ {f} : TRUE
<1>1. CASE running' = running \ {h}
  BY <1>1 DEF FilingNow
<1>2. ASSUME NEW new \in Handler, Successor(h, new), new.pc # "file" \/ new.cipher # c
      PROVE  FilingNow(c)' \subseteq FilingNow(c) \ {h}
  <2>1. running' = (running \ {h}) \cup {new}
    BY <1>2 DEF Successor
  <2>. QED BY <1>2, <2>1 DEF FilingNow
<1>3. ASSUME NEW new \in Handler, Successor(h, new), new.pc = "file" /\ new.cipher = c
      PROVE  /\ FilingNow(c)' \subseteq (FilingNow(c) \ {h}) \cup {new}
             /\ \/ /\ h.pc = "insert" /\ c \in Cipher \ given
                   /\ c \in spread' \/ Single(new.todo)
                \/ ClearFolder(h) /\ c = h.cipher /\ Single(new.todo)
                \/ /\ h.pc = "file" /\ c = h.cipher
                   /\ \E f \in h.todo : \E g \in h.todo \ {f} : TRUE
  <2>1. /\ running' = (running \ {h}) \cup {new}
        /\ \/ h.pc = "insert"
           \/ h.pc = "clear" /\ ClearFolder(h)
           \/ h.pc = "file" /\ \E f \in h.todo : new.todo = h.todo \ {f}
        /\ h.pc = "insert" => c \in Cipher \ given /\ (c \in spread' \/ Single(new.todo))
        /\ new.cipher = h.cipher \/ h.pc = "insert"
        /\ h.op = "import" \/ new.todo \subseteq h.todo
        /\ new.todo # {}
    BY <1>3 DEF Successor
  <2>2. FilingNow(c)' \subseteq (FilingNow(c) \ {h}) \cup {new}
    BY <2>1 DEF FilingNow
  <2>3. ClearFolder(h) => Single(new.todo)
    BY <2>1 DEF ClearFolder, Single, TypeInv, HandlerOK
  <2>. QED BY <1>3, <2>1, <2>2, <2>3
<1>. QED BY <1>1, <1>2, <1>3, StepShape

LEMMA OneStep == ASSUME TypeInv, OneInv, [Next]_vars PROVE OneInv'
<1>1. ASSUME UNCHANGED <<filed, crowded>>, \A c : FilingNow(c)' \subseteq FilingNow(c)
      PROVE  OneInv'
  BY <1>1 DEF OneInv, OneOf, crowded
<1>2. CASE UNCHANGED vars \/ Share \/ Age \/ Save \/ Dissolve
  <2>1. UNCHANGED <<filed, crowded, running>>
    BY <1>2 DEF vars, tables, Share, Age, Save, Dissolve
  <2>. QED BY <1>1, <2>1 DEF FilingNow
<1>3. ASSUME NEW r \in Request \ Busy, Begin(r) PROVE OneInv'
  <2>1. PICK new \in Handler : running' = running \cup {new} /\ new.pc # "file"
    BY <1>3, BeginShape
  <2>2. UNCHANGED <<filed, crowded>>
    BY <1>3, BeginShape DEF tables
  <2>. QED BY <1>1, <2>1, <2>2 DEF FilingNow
<1>4. ASSUME NEW h \in running, Step(h) PROVE OneInv'
  <2>0. /\ \A l \in filed : l.cipher \in given
        /\ \A c : \A g \in FilingNow(c) : c \in given
    BY DEF TypeInv, Known, HandlerOK, FilingNow
  <2>1. SUFFICES ASSUME NEW c \in Cipher \ (overlapped' \cup spread') PROVE OneOf(c)'
    BY DEF OneInv
  <2>2. CASE ClearFolder(h)
    <3>1. /\ filed' = {l \in filed : l.cipher # h.cipher}
          /\ h.pc = "clear"
          /\ IF FilingNow(h.cipher) = {}
             THEN overlapped' = overlapped \ {h.cipher} /\ spread' = spread \ {h.cipher}
             ELSE overlapped' = overlapped \cup {h.cipher} /\ UNCHANGED spread
      BY <2>2 DEF ClearFolder
    <3>2. CASE c # h.cipher
      <4>1. OneOf(c)
        BY <2>1, <3>1, <3>2 DEF OneInv
      <4>2. FilingNow(c)' \subseteq FilingNow(c)
        BY <1>4, <3>1, <3>2, FilingAfter
      <4>. QED BY <3>1, <4>1, <4>2 DEF OneOf
    <3>3. CASE c = h.cipher
      <4>1. FilingNow(c) = {} /\ \A l \in filed' : l.cipher # c
        BY <2>1, <3>1, <3>3
      <4>2. CASE FilingNow(c)' = {}
        BY <4>1, <4>2 DEF OneOf
      <4>3. ASSUME NEW new, FilingNow(c)' \subseteq {new}, Single(new.todo)
            PROVE  OneOf(c)'
        BY <4>1, <4>3 DEF OneOf
      <4>. QED BY <1>4, <3>1, <4>1, <4>2, <4>3, FilingAfter
    <3>. QED BY <3>2, <3>3
  <2>3. CASE SetFolder(h)
    <3>1. PICK f \in h.todo :
            /\ LET l == [cipher |-> h.cipher, folder |-> f] IN filed' = filed \cup {l}
            /\ h.pc = "file" /\ UNCHANGED <<overlapped, spread>>
      BY <2>3 DEF SetFolder, crowded
    <3>. DEFINE l == [cipher |-> h.cipher, folder |-> f]
    <3>2. OneOf(c)
      BY <2>1, <3>1 DEF OneInv
    <3>3. h \in FilingNow(h.cipher) /\ l.cipher = h.cipher /\ filed' = filed \cup {l}
      BY <3>1 DEF FilingNow
    <3>. HIDE DEF l
    <3>4. FilingNow(c)' \subseteq FilingNow(c) \ {h}
      <4>1. c = h.cipher => Single(h.todo)
        BY <3>2, <3>3 DEF OneOf
      <4>2. ~ClearFolder(h)
        BY <3>1 DEF ClearFolder
      <4>. QED BY <1>4, <3>1, <4>1, <4>2, FilingAfter DEF Single
    <3>5. CASE c = h.cipher
      <4>1. FilingNow(c)' = {} /\ \A k \in filed : k.cipher # c
        BY <3>2, <3>3, <3>4, <3>5 DEF OneOf
      <4>. QED BY <4>1, <3>3, <3>5 DEF OneOf
    <3>6. CASE c # h.cipher
      BY <3>2, <3>3, <3>4, <3>6 DEF OneOf
    <3>. QED BY <3>5, <3>6
  <2>4. CASE ~ClearFolder(h) /\ ~SetFolder(h)
    <3>1. /\ filed' \subseteq filed /\ overlapped' = overlapped
          /\ spread \subseteq spread'
      BY <1>4, <2>4 DEF Step, tables, crowded, InsertFolder, InsertCipher, SetFavorite,
         Unfile, Unstar, DetachAll, DeleteRows, DropFolders, DropFolder, DropUser,
         InsertAttachment, PutFile, DeleteFile, DeleteAttachment, Abandon
    <3>2. OneOf(c)
      BY <2>1, <3>1 DEF OneInv
    <3>3. CASE FilingNow(c)' \subseteq FilingNow(c)
      BY <3>1, <3>2, <3>3 DEF OneOf
    <3>4. ASSUME NEW new, FilingNow(c)' \subseteq (FilingNow(c) \ {h}) \cup {new},
                 c \in Cipher \ given, Single(new.todo)
          PROVE  OneOf(c)'
      BY <2>0, <3>1, <3>4 DEF OneOf
    <3>5. ASSUME h.pc = "file", c = h.cipher, NEW f \in h.todo, NEW g \in h.todo \ {f}
          PROVE  FALSE
      BY <3>2, <3>5 DEF OneOf, FilingNow, Single
    <3>. QED BY <1>4, <2>1, <2>4, <3>3, <3>4, <3>5, FilingAfter
  <2>. QED BY <2>2, <2>3, <2>4
<1>. QED BY <1>2, <1>3, <1>4 DEF Next

LEMMA AtMostOne ==
  ASSUME NEW S, \A x, y \in S : x = y
  PROVE  Cardinality(S) \in {0, 1} /\ (S = {} => Cardinality(S) = 0)
<1>1. CASE S = {}
  BY <1>1, FS_EmptySet
<1>2. ASSUME NEW x \in S PROVE Cardinality(S) = 1
  <2>1. S = {x}
    OBVIOUS
  <2>. QED BY <2>1, FS_Singleton
<1>. QED BY <1>1, <1>2

\* A cipher is in one folder at most, unless two handlers filed it at the same
\* time or one import named several folders for it, and then until it is moved
\* with nobody else at it, for any number of folders and requests.
THEOREM Foldered == Spec => []OneFolder
<1>1. Spec => []OneInv
  BY OneInit, OneStep, TypeInvariant, PTL DEF Spec
<1>2. ASSUME OneInv PROVE OneFolder
  <2>1. SUFFICES ASSUME NEW c \in Cipher \ (overlapped \cup spread)
                 PROVE  Cardinality({l \in filed : l.cipher = c})
                          + Cardinality(FilingNow(c)) <= 1
    BY DEF OneFolder
  <2>. DEFINE L == {l \in filed : l.cipher = c}
              F == FilingNow(c)
  <2>2. /\ \A l, k \in L : l = k
        /\ \A g, h \in F : g = h
        /\ L = {} \/ F = {}
    BY <1>2, <2>1 DEF OneInv, OneOf
  <2>3. Cardinality(L) \in {0, 1} /\ (L = {} => Cardinality(L) = 0)
    <3>. HIDE DEF L
    <3>. QED BY <2>2, AtMostOne
  <2>4. Cardinality(F) \in {0, 1} /\ (F = {} => Cardinality(F) = 0)
    <3>. HIDE DEF F
    <3>. QED BY <2>2, AtMostOne
  <2>. HIDE DEF L, F
  <2>5. Cardinality(L) + Cardinality(F) <= 1
    BY <2>2, <2>3, <2>4
  <2>. QED BY <2>5 DEF L, F
<1>. QED BY <1>1, <1>2, PTL

-----------------------------------------------------------------------------
(* What is being deleted, before and after a step. *)

GoingMeans ==
  /\ \A c : c \in Unfiled <=> \E g \in running : PastLinks(g) /\ c \in Subject(g)
  /\ \A c : c \in Unstarred <=> \E g \in running :
               g.op \in Purges \ {"delete_account"} /\ g.pc = "rows" /\ c \in Subject(g)
  /\ \A f : f \in Emptied <=> \E g \in running :
               g.op = "delete_folder" /\ g.pc = "drop" /\ f = g.folder
  /\ \A u : u \in Leaving <=> \E g \in running :
               g.op = "delete_account" /\ g.pc # "unstar" /\ u = g.user

LEMMA Going == GoingMeans /\ GoingMeans'
BY DEF GoingMeans, Unfiled, Unstarred, Emptied, Leaving, PastLinks

\* A row after a step was inserted, or is one from before, shared or not.
LEMMA RowsFrom ==
  ASSUME TypeInv, [Next]_vars, NEW new \in ciphers'
  PROVE  \/ new.uuid \notin given /\ \E h \in running : InsertCipher(h)
         \/ \E row \in ciphers : /\ row.uuid = new.uuid /\ new.home \in {row.home, Org}
                                 /\ new.old => row.old \/ running = {}
<1>0. \A row \in ciphers : row \in Row /\ row.uuid \in given
  BY DEF TypeInv, TypeOK, Known
<1>1. CASE ciphers' \subseteq ciphers
  BY <1>1
<1>2. ASSUME NEW h \in running, InsertCipher(h)
      PROVE  new.uuid \notin given \/ new \in ciphers
  <2>1. PICK c \in Cipher \ given :
          ciphers' = ciphers \cup {[uuid |-> c, home |-> h.user, old |-> FALSE]}
    BY <1>2 DEF InsertCipher
  <2>. QED BY <2>1
<1>3. ASSUME NEW row \in ciphers, NEW b \in {TRUE, FALSE},
             ciphers' = (ciphers \ {row}) \cup {[row EXCEPT !.old = b]},
             b => running = {}
      PROVE  \E r \in ciphers : /\ r.uuid = new.uuid /\ new.home \in {r.home, Org}
                                /\ new.old => r.old \/ running = {}
  <2>1. /\ [row EXCEPT !.old = b].uuid = row.uuid /\ [row EXCEPT !.old = b].home = row.home
        /\ [row EXCEPT !.old = b].old = b
    BY <1>0 DEF Row
  <2>. QED BY <1>3, <2>1
<1>4. CASE Share
  <2>1. PICK row \in ciphers : ciphers' = (ciphers \ {row}) \cup {[row EXCEPT !.home = Org]}
    BY <1>4 DEF Share
  <2>2. /\ [row EXCEPT !.home = Org].uuid = row.uuid /\ [row EXCEPT !.home = Org].home = Org
        /\ [row EXCEPT !.home = Org].old = row.old
    BY <1>0 DEF Row
  <2>. QED BY <2>1, <2>2
<1>5. CASE Age
  <2>1. running = {} /\ \E row \in ciphers :
          ciphers' = (ciphers \ {row}) \cup {[row EXCEPT !.old = TRUE]}
    BY <1>5 DEF Age
  <2>. QED BY <1>3, <2>1
<1>6. CASE Save
  <2>1. \E row \in ciphers :
          ciphers' = (ciphers \ {row}) \cup {[row EXCEPT !.old = FALSE]}
    BY <1>6 DEF Save
  <2>. QED BY <1>3, <2>1
<1>7. CASE Dissolve \/ UNCHANGED vars
  <2>1. ciphers' \subseteq ciphers
    BY <1>7 DEF Dissolve, vars, tables
  <2>. QED BY <1>1, <2>1
<1>8. ASSUME NEW r \in Request \ Busy, Begin(r) PROVE ciphers' \subseteq ciphers
  BY <1>8, BeginShape DEF tables
<1>9. ASSUME NEW h \in running, Step(h), ~InsertCipher(h) PROVE ciphers' \subseteq ciphers
  BY <1>9 DEF Step, tables, InsertFolder, ClearFolder, SetFolder, SetFavorite, Unfile, Unstar,
     DetachAll, DeleteRows, DropFolders, DropFolder, DropUser, InsertAttachment,
     PutFile, DeleteFile, DeleteAttachment, Abandon
<1>10. ASSUME NEW row \in ciphers, new = row
       PROVE  \E r \in ciphers : /\ r.uuid = new.uuid /\ new.home \in {r.home, Org}
                                 /\ new.old => r.old \/ running = {}
  BY <1>10
<1>. QED BY <1>1, <1>2, <1>4, <1>5, <1>6, <1>7, <1>8, <1>9, <1>10 DEF Next

\* A deletion comes to work on no cipher that it did not work on before, but for
\* those inserted meanwhile.
LEMMA SubjectAfter ==
  ASSUME TypeInv, [Next]_vars, NEW g \in running, g.op \in Purges,
         NEW c \in given, c \in Subject(g)'
  PROVE  c \in Subject(g)
<1>1. CASE g.op = "delete"
  BY <1>1 DEF Subject
<1>2. CASE g.op = "purge_trash"
  <2>1. PICK new \in ciphers' : new.old /\ new.uuid = c
    BY <1>2 DEF Subject
  <2>2. PICK row \in ciphers : row.uuid = c /\ row.old
    BY <2>1, RowsFrom
  <2>. QED BY <1>2, <2>2 DEF Subject
<1>3. CASE g.op \in {"purge_user", "delete_account"}
  <2>1. PICK new \in ciphers' : new.home = g.user /\ new.uuid = c
    BY <1>3 DEF Subject
  <2>2. g.user # Org
    BY <1>3, OrgAssumption DEF TypeInv, HandlerOK
  <2>3. PICK row \in ciphers : row.uuid = c /\ row.home = g.user
    BY <2>1, <2>2, RowsFrom
  <2>. QED BY <1>3, <2>3 DEF Subject
<1>. QED BY <1>1, <1>2, <1>3 DEF Purges

\* Whose ciphers, and whose folders, an account's deletion has deleted.
RowsGone(u) == \/ u \notin accounts
               \/ \E g \in running : /\ g.op = "delete_account" /\ g.user = u
                                     /\ g.pc \in {"folders", "drop"}
FoldersGone(u) == \/ u \notin accounts
                  \/ \E g \in running : /\ g.op = "delete_account" /\ g.user = u
                                        /\ g.pc = "drop"

\* A step deletes what is being deleted after it and was not before.
LEMMA GoingAfter ==
  ASSUME TypeInv, NEW h \in running, Step(h)
  PROVE  /\ \A c \in given : c \in Unfiled' =>
              c \in Unfiled \/ (Unfile(h) /\ h.op \in Purges /\ c \in Subject(h))
         /\ \A c \in given : c \in Unstarred' =>
              \/ c \in Unstarred
              \/ Unstar(h) /\ h.op \in Purges \ {"delete_account"} /\ c \in Subject(h)
         /\ \A f \in Emptied' :
              f \in Emptied \/ (Unfile(h) /\ h.op = "delete_folder" /\ f = h.folder)
         /\ \A u \in Leaving' :
              u \in Leaving \/ (Unstar(h) /\ h.op = "delete_account" /\ u = h.user)
         /\ \A u : RowsGone(u)' =>
              RowsGone(u) \/ (DeleteRows(h) /\ h.op = "delete_account" /\ u = h.user)
         /\ \A u : FoldersGone(u)' =>
              FoldersGone(u) \/ (DropFolders(h) /\ h.op = "delete_account" /\ u = h.user)
<1>1. \A g \in running : g.op \in Purges => \A c \in given : c \in Subject(g)' => c \in Subject(g)
  BY SubjectAfter DEF Next
<1>2. ASSUME NEW new \in Handler, Successor(h, new), h.op \in Purges
      PROVE  Subject(new)' = Subject(h)'
  BY <1>2 DEF Successor, Subject, Purges
<1>3. \A u : u \notin accounts' =>
        u \notin accounts \/ (DropUser(h) /\ u = h.user)
  BY DEF Step, InsertFolder, InsertCipher, ClearFolder, SetFolder, SetFavorite,
     Unfile, Unstar, DetachAll, DeleteRows, DropFolders, DropFolder, DropUser,
     InsertAttachment, PutFile, DeleteFile, DeleteAttachment, Abandon
<1>4. DropUser(h) => /\ RowsGone(h.user) /\ FoldersGone(h.user)
  BY DEF DropUser, RowsGone, FoldersGone
<1>5. CASE running' = running \ {h}
  <2>1. /\ \A c \in given : c \in Unfiled' => c \in Unfiled
        /\ \A c \in given : c \in Unstarred' => c \in Unstarred
        /\ Emptied' \subseteq Emptied /\ Leaving' \subseteq Leaving
    BY <1>1, <1>5, Going DEF GoingMeans, PastLinks
  <2>. QED BY <1>3, <1>4, <1>5, <2>1 DEF RowsGone, FoldersGone
<1>6. ASSUME NEW new \in Handler, Successor(h, new)
      PROVE  /\ \A c \in given : c \in Unfiled' =>
                  c \in Unfiled \/ (Unfile(h) /\ h.op \in Purges /\ c \in Subject(h))
             /\ \A c \in given : c \in Unstarred' =>
                  \/ c \in Unstarred
                  \/ Unstar(h) /\ h.op \in Purges \ {"delete_account"} /\ c \in Subject(h)
             /\ \A f \in Emptied' :
                  f \in Emptied \/ (Unfile(h) /\ h.op = "delete_folder" /\ f = h.folder)
             /\ \A u \in Leaving' :
                  u \in Leaving \/ (Unstar(h) /\ h.op = "delete_account" /\ u = h.user)
             /\ \A u : RowsGone(u)' =>
                  RowsGone(u) \/ (DeleteRows(h) /\ h.op = "delete_account" /\ u = h.user)
             /\ \A u : FoldersGone(u)' =>
                  FoldersGone(u) \/ (DropFolders(h) /\ h.op = "delete_account" /\ u = h.user)
  <2>1. /\ running' = (running \ {h}) \cup {new}
        /\ new.op = h.op /\ new.user = h.user
        /\ PastLinks(new) => PastLinks(h) \/ Unfile(h)
        /\ new.op = "delete_folder" /\ new.pc = "drop" => Unfile(h)
        /\ new.op \in Purges \ {"delete_account"} /\ new.pc = "rows" => Unstar(h)
        /\ new.op = "delete_account" /\ new.pc # "unstar" => h.pc # "unstar" \/ Unstar(h)
        /\ new.op = "delete_account" /\ new.pc = "folders" => DeleteRows(h)
        /\ new.op = "delete_account" /\ new.pc = "drop" => DropFolders(h)
        /\ new.op = "delete_folder" => new.folder = h.folder
    BY <1>6 DEF Successor
  <2>2. \A c \in given : c \in Unfiled' =>
          c \in Unfiled \/ (Unfile(h) /\ h.op \in Purges /\ c \in Subject(h))
    <3>1. SUFFICES ASSUME NEW c \in given, NEW g \in running', PastLinks(g)', c \in Subject(g)'
                   PROVE  c \in Unfiled \/ (Unfile(h) /\ h.op \in Purges /\ c \in Subject(h))
      BY Going DEF GoingMeans, PastLinks
    <3>2. CASE g \in running
      BY <1>1, <3>1, <3>2, Going DEF GoingMeans, PastLinks
    <3>3. CASE g = new
      <4>1. h.op \in Purges /\ c \in Subject(h)
        BY <1>1, <1>2, <1>6, <2>1, <3>1, <3>3 DEF PastLinks
      <4>. QED BY <2>1, <3>1, <3>3, <4>1, Going DEF GoingMeans, PastLinks
    <3>. QED BY <2>1, <3>2, <3>3
  <2>3. \A c \in given : c \in Unstarred' =>
          \/ c \in Unstarred
          \/ Unstar(h) /\ h.op \in Purges \ {"delete_account"} /\ c \in Subject(h)
    <3>1. SUFFICES ASSUME NEW c \in given, NEW g \in running',
                          g.op \in Purges \ {"delete_account"}, g.pc = "rows", c \in Subject(g)'
                   PROVE  \/ c \in Unstarred
                          \/ /\ Unstar(h) /\ h.op \in Purges \ {"delete_account"}
                             /\ c \in Subject(h)
      BY Going DEF GoingMeans, PastLinks
    <3>2. CASE g \in running
      BY <1>1, <3>1, <3>2, Going DEF GoingMeans
    <3>3. CASE g = new
      BY <1>1, <1>2, <1>6, <2>1, <3>1, <3>3
    <3>. QED BY <2>1, <3>2, <3>3
  <2>4. \A f \in Emptied' :
          f \in Emptied \/ (Unfile(h) /\ h.op = "delete_folder" /\ f = h.folder)
    BY <2>1, Going DEF GoingMeans
  <2>5. \A u \in Leaving' :
          u \in Leaving \/ (Unstar(h) /\ h.op = "delete_account" /\ u = h.user)
    BY <2>1, Going DEF GoingMeans
  <2>6. \A u : RowsGone(u)' =>
          RowsGone(u) \/ (DeleteRows(h) /\ h.op = "delete_account" /\ u = h.user)
    <3>1. DropFolders(h) => h.pc = "folders"
      BY DEF DropFolders
    <3>. QED BY <1>3, <1>4, <2>1, <3>1 DEF RowsGone
  <2>7. \A u : FoldersGone(u)' =>
          FoldersGone(u) \/ (DropFolders(h) /\ h.op = "delete_account" /\ u = h.user)
    BY <1>3, <1>4, <2>1 DEF FoldersGone
  <2>. QED BY <2>2, <2>3, <2>4, <2>5, <2>6, <2>7
<1>. QED BY <1>5, <1>6, StepShape

-----------------------------------------------------------------------------
(* Folder links, favorite marks and what is left of accounts. *)

Link(h, f) == [cipher |-> h.cipher, folder |-> f]
Mark(h) == [user |-> h.user, cipher |-> h.cipher]

\* A user's cipher is marked by that user only, or about to be.
OwnMarks ==
  \A row \in ciphers :
    row.home # Org =>
      /\ \A s \in stars : s.cipher = row.uuid => s.user = row.home
      /\ \A h \in running : h.op \in {"create", "import", "put"} /\ h.cipher = row.uuid
           => h.user = row.home

LEMMA OwnMarksStep == ASSUME TypeInv, OwnMarks, [Next]_vars PROVE OwnMarks'
<1>0. /\ \A row \in ciphers : row.uuid \in given /\ row.uuid # None
      /\ \A c, d \in ciphers : c.uuid = d.uuid => c = d
      /\ \A s \in stars : s.cipher \in given
      /\ \A h \in running : h.cipher \in given \cup {None}
  BY NoneAssumption DEF TypeInv, TypeOK, Known, HandlerOK, Row
<1>1. SUFFICES ASSUME NEW new \in ciphers', new.home # Org
               PROVE  /\ \A s \in stars' : s.cipher = new.uuid => s.user = new.home
                      /\ \A h \in running' :
                           h.op \in {"create", "import", "put"} /\ h.cipher = new.uuid
                             => h.user = new.home
  BY DEF OwnMarks
<1>2. ASSUME NEW h \in running, InsertCipher(h), new.uuid \notin given
      PROVE  new.home = h.user /\ new.uuid # None
  <2>1. PICK c \in Cipher \ given :
          ciphers' = ciphers \cup {[uuid |-> c, home |-> h.user, old |-> FALSE]}
    BY <1>2 DEF InsertCipher
  <2>. QED BY <1>0, <1>2, <2>1, NoneAssumption
<1>3. CASE new.uuid \notin given
  <2>1. PICK h \in running : InsertCipher(h)
    BY <1>0, <1>3, RowsFrom
  <2>2. stars' = stars
    BY <2>1 DEF InsertCipher
  <2>3. Step(h) /\ h.pc = "insert"
    BY <2>1 DEF Step, InsertCipher
  <2>4. running' = running \ {h} \/ \E k \in Handler : Successor(h, k)
    BY <2>3, StepShape
  <2>5. \A k \in running' : k \in running \/ k.user = h.user
    BY <2>4 DEF Successor
  <2>6. new.home = h.user /\ new.uuid # None
    BY <1>2, <1>3, <2>1
  <2>. QED BY <1>0, <1>3, <2>2, <2>5, <2>6
<1>4. ASSUME NEW row \in ciphers, row.uuid = new.uuid, new.home \in {row.home, Org}
      PROVE  /\ \A s \in stars' : s.cipher = new.uuid => s.user = new.home
             /\ \A h \in running' :
                  h.op \in {"create", "import", "put"} /\ h.cipher = new.uuid
                    => h.user = new.home
  <2>0. /\ new.home = row.home
        /\ \A s \in stars : s.cipher = new.uuid => s.user = new.home
        /\ \A h \in running : h.op \in {"create", "import", "put"} /\ h.cipher = new.uuid
             => h.user = new.home
    BY <1>1, <1>4 DEF OwnMarks
  <2>1. CASE UNCHANGED <<stars, running>>
    BY <2>0, <2>1
  <2>2. ASSUME NEW r \in Request \ Busy, Begin(r)
        PROVE  /\ \A s \in stars' : s.cipher = new.uuid => s.user = new.home
               /\ \A h \in running' :
                    h.op \in {"create", "import", "put"} /\ h.cipher = new.uuid
                      => h.user = new.home
    <3>1. PICK k \in Handler :
            /\ running' = running \cup {k}
            /\ k.op \in {"create", "import"} => k.cipher = None
            /\ k.op = "put" => \E x \in ciphers : x.uuid = k.cipher /\ x.home \in {k.user, Org}
      BY <2>2, BeginShape
    <3>2. stars' = stars
      BY <2>2, BeginShape DEF tables
    <3>3. k.op \in {"create", "import", "put"} /\ k.cipher = new.uuid => k.user = new.home
      BY <1>0, <1>1, <1>4, <2>0, <3>1
    <3>. QED BY <2>0, <3>1, <3>2, <3>3
  <2>3. ASSUME NEW h \in running, Step(h)
        PROVE  /\ \A s \in stars' : s.cipher = new.uuid => s.user = new.home
               /\ \A g \in running' :
                    g.op \in {"create", "import", "put"} /\ g.cipher = new.uuid
                      => g.user = new.home
    <3>1. stars' \subseteq stars \/ (SetFavorite(h) /\ stars' \subseteq stars \cup {Mark(h)})
      BY <2>3 DEF Step, tables, InsertFolder, InsertCipher, ClearFolder, SetFolder, SetFavorite,
         Unfile, Unstar, DetachAll, DeleteRows, DropFolders, DropFolder, DropUser,
         InsertAttachment, PutFile, DeleteFile, DeleteAttachment, Abandon, Mark
    <3>2. SetFavorite(h) => h.op \in {"create", "import", "put"}
      BY DEF SetFavorite, TypeInv, HandlerOK
    <3>3. Mark(h).user = h.user /\ Mark(h).cipher = h.cipher
      BY DEF Mark
    <3>4. \A s \in stars' : s.cipher = new.uuid => s.user = new.home
      BY <2>0, <3>1, <3>2, <3>3
    <3>5. running' = running \ {h} \/ \E k \in Handler : Successor(h, k)
      BY <2>3, StepShape
    <3>6. ASSUME NEW k \in Handler, Successor(h, k), k.cipher = new.uuid,
                 k.op \in {"create", "import", "put"}
          PROVE  k.user = new.home
      <4>1. h.op = k.op /\ h.user = k.user /\ (k.cipher = h.cipher \/ k.cipher \notin given)
        BY <3>6 DEF Successor
      <4>. QED BY <1>0, <1>4, <2>0, <3>6, <4>1
    <3>7. \A k \in Handler : Successor(h, k) => running' = (running \ {h}) \cup {k}
      BY DEF Successor
    <3>. QED BY <2>0, <3>4, <3>5, <3>6, <3>7
  <2>4. UNCHANGED vars \/ Share \/ Age \/ Save \/ Dissolve => UNCHANGED <<stars, running>>
    BY DEF vars, tables, Share, Age, Save, Dissolve
  <2>. QED BY <2>1, <2>2, <2>3, <2>4 DEF Next
<1>. QED BY <1>0, <1>3, <1>4, RowsFrom

\* The handler files its cipher in f.
PutsIn(h, f) ==
  /\ SetFolder(h) /\ f \in h.todo
  /\ filed' = filed \cup {Link(h, f)}
  /\ Note(Link(h, f), \/ h.cipher \notin Uuids \/ h.cipher \in Unfiled
                      \/ f \in Emptied \/ ~\E g \in folders : g.uuid = f)

LEMMA SetFolderFiles ==
  ASSUME NEW h \in running, SetFolder(h) PROVE \E f : PutsIn(h, f)
BY DEF SetFolder, PutsIn, Link

\* What leaves the history is gone, or is inserted anew.
LEMMA LeftAfter ==
  ASSUME TypeInv, [Next]_vars, NEW x \in left \ left'
  PROVE  /\ x \in filed' => \E h \in running : \E f : PutsIn(h, f) /\ x = Link(h, f)
         /\ x \in stars' => \E h \in running : SetFavorite(h) /\ x = Mark(h)
         /\ x \in given => /\ \A row \in ciphers' : row.uuid = x => row.home = Org
                           /\ \A f \in folders' : f.uuid # x
<1>0. /\ ciphers \subseteq Row /\ folders \subseteq FolderRow
      /\ \A c, d \in ciphers : c.uuid = d.uuid => c = d
      /\ \A f \in folders : f.uuid \in Folder
      /\ \A row \in ciphers : row.uuid \in Cipher
      /\ Cipher \cap Folder = {}
      /\ \A l \in Filing : l \notin Star /\ l \notin Cipher /\ l \notin Folder
      /\ \A s \in Star : s \notin Filing /\ s \notin Cipher /\ s \notin Folder
  BY FilingNoStar, LeftAssumption DEF TypeInv, TypeOK, Row, FolderRow
<1>1. /\ filed \subseteq Filing /\ stars \subseteq Star
      /\ \A h \in running : HandlerOK(h)
  BY DEF TypeInv, TypeOK
<1>2. ASSUME NEW r \in Request \ Busy, Begin(r) PROVE FALSE
  BY <1>2, BeginShape
<1>3. CASE Age \/ Save \/ UNCHANGED vars
  BY <1>3 DEF Age, Save, vars
<1>4. CASE Dissolve
  <2>1. PICK row \in ciphers : row.uuid = x /\ row.home = Org
    BY <1>4 DEF Dissolve
  <2>2. /\ ciphers' = {c \in ciphers : c.home # Org}
        /\ UNCHANGED <<filed, stars, folders>>
    BY <1>4 DEF Dissolve
  <2>. QED BY <1>0, <1>1, <2>1, <2>2
<1>5. CASE Share
  <2>1. PICK row \in ciphers : /\ ciphers' = (ciphers \ {row}) \cup {[row EXCEPT !.home = Org]}
                               /\ row.uuid = x
    BY <1>5 DEF Share
  <2>2. [row EXCEPT !.home = Org].home = Org
    BY <1>0 DEF Row
  <2>3. UNCHANGED <<filed, stars, folders>>
    BY <1>5 DEF Share
  <2>. QED BY <1>0, <1>1, <2>1, <2>2, <2>3
<1>6. ASSUME NEW h \in running, Step(h)
      PROVE  /\ x \in filed' => \E f : PutsIn(h, f) /\ x = Link(h, f)
             /\ x \in stars' => SetFavorite(h) /\ x = Mark(h)
             /\ x \in given => /\ \A row \in ciphers' : row.uuid = x => row.home = Org
                               /\ \A f \in folders' : f.uuid # x
  <2>1. CASE InsertFolder(h)
    <3>1. x \in Folder \ given /\ UNCHANGED <<filed, stars>>
      BY <2>1 DEF InsertFolder, Note
    <3>. QED BY <1>0, <1>1, <3>1
  <2>2. CASE InsertCipher(h)
    <3>1. x \in Cipher \ given /\ UNCHANGED <<filed, stars>>
      BY <2>2 DEF InsertCipher, Note
    <3>. QED BY <1>0, <1>1, <3>1
  <2>3. CASE SetFolder(h)
    <3>1. PICK f : PutsIn(h, f)
      BY <2>3, SetFolderFiles
    <3>2. x = Link(h, f) /\ UNCHANGED <<stars, ciphers, folders>>
      BY <3>1 DEF SetFolder, Note, PutsIn
    <3>3. Link(h, f) \in Filing
      <4>1. f \in Folder /\ h.cipher \in Cipher
        BY <1>1, <2>3, <3>1 DEF SetFolder, HandlerOK, PutsIn, TypeInv, TypeOK, Handler
      <4>. QED BY <4>1 DEF Link, Filing
    <3>. QED BY <1>0, <1>1, <3>1, <3>2, <3>3
  <2>4. CASE SetFavorite(h)
    <3>1. x = Mark(h) /\ UNCHANGED <<filed, ciphers, folders>>
      BY <2>4 DEF SetFavorite, Note, Mark
    <3>2. Mark(h) \in Star
      BY <1>1, <2>4 DEF SetFavorite, HandlerOK, Mark, Star
    <3>. QED BY <1>0, <1>1, <2>4, <3>1, <3>2
  <2>5. CASE Unfile(h)
    <3>1. x \in filed \ filed' /\ UNCHANGED <<stars, ciphers, folders>>
      BY <2>5 DEF Unfile
    <3>. QED BY <1>0, <1>1, <3>1
  <2>6. CASE Unstar(h)
    <3>1. x \in stars \ stars' /\ UNCHANGED <<filed, ciphers, folders>>
      BY <2>6 DEF Unstar
    <3>. QED BY <1>0, <1>1, <3>1
  <2>7. CASE DeleteRows(h)
    <3>1. /\ x \in Subject(h) /\ ciphers' = {row \in ciphers : row.uuid \notin Subject(h)}
          /\ UNCHANGED <<filed, stars, folders>>
      BY <2>7 DEF DeleteRows
    <3>2. Subject(h) \subseteq Cipher
      BY <1>0, <1>1, <2>7 DEF DeleteRows, Subject, HandlerOK, Purges
    <3>. QED BY <1>0, <1>1, <3>1, <3>2
  <2>8. CASE DropFolders(h)
    <3>1. PICK f \in folders : f.user = h.user /\ x = f.uuid
      BY <2>8 DEF DropFolders
    <3>2. /\ folders' = folders \ {g \in folders : g.user = h.user}
          /\ UNCHANGED <<filed, stars, ciphers>>
      BY <2>8 DEF DropFolders
    <3>3. \A g \in folders : g.uuid = x => g = f
      BY <3>1 DEF TypeInv, TypeOK
    <3>. QED BY <1>0, <1>1, <3>1, <3>2, <3>3
  <2>9. CASE DropFolder(h)
    <3>1. /\ x = h.folder /\ folders' = {f \in folders : f.uuid # h.folder}
          /\ UNCHANGED <<filed, stars, ciphers>>
      BY <2>9 DEF DropFolder
    <3>2. h.folder \in Folder
      BY <1>1, <2>9 DEF DropFolder, HandlerOK
    <3>. QED BY <1>0, <1>1, <3>1, <3>2
  <2>10. CASE ClearFolder(h) \/ DetachAll(h) \/ DropUser(h) \/ InsertAttachment(h)
              \/ PutFile(h) \/ DeleteFile(h) \/ DeleteAttachment(h) \/ Abandon(h)
    BY <2>10 DEF ClearFolder, DetachAll, DropUser, InsertAttachment, PutFile, DeleteFile,
       DeleteAttachment, Abandon
  <2>. QED BY <1>6, <2>1, <2>2, <2>3, <2>4, <2>5, <2>6, <2>7, <2>8, <2>9, <2>10 DEF Step
<1>. QED BY <1>2, <1>3, <1>4, <1>5, <1>6 DEF Next

\* Nothing is being deleted anew by what is not a handler's step.
LEMMA GoingElse ==
  ASSUME TypeInv, [Next]_vars,
         \/ UNCHANGED vars \/ Share \/ Age \/ Save \/ Dissolve
         \/ \E r \in Request \ Busy : Begin(r)
  PROVE  /\ \A c \in given : c \in Unfiled' => c \in Unfiled
         /\ \A c \in given : c \in Unstarred' => c \in Unstarred
         /\ Emptied' \subseteq Emptied /\ Leaving' \subseteq Leaving
         /\ \A u : RowsGone(u)' => RowsGone(u)
         /\ \A u : FoldersGone(u)' => FoldersGone(u)
<1>1. \A g \in running : g.op \in Purges => \A c \in given : c \in Subject(g)' => c \in Subject(g)
  BY SubjectAfter
<1>2. /\ accounts' = accounts
      /\ \A g \in running' : \/ g \in running
                             \/ /\ g.op \in Purges => g.pc = IF g.op = "delete_account"
                                                             THEN "unstar" ELSE "unfile"
                                /\ g.pc # "drop"
  <2>1. CASE UNCHANGED vars \/ Share \/ Age \/ Save \/ Dissolve
    BY <2>1 DEF vars, Share, Age, Save, Dissolve
  <2>2. CASE \E r \in Request \ Busy : Begin(r)
    BY <2>2, BeginShape
  <2>. QED BY <2>1, <2>2
<1>3. \A c \in given : c \in Unfiled' => c \in Unfiled
  BY <1>1, <1>2, Going DEF GoingMeans, PastLinks
<1>4. \A c \in given : c \in Unstarred' => c \in Unstarred
  BY <1>1, <1>2, Going DEF GoingMeans
<1>5. Emptied' \subseteq Emptied /\ Leaving' \subseteq Leaving
  BY <1>2, Going DEF GoingMeans, Purges
<1>6. /\ \A u : RowsGone(u)' => RowsGone(u)
      /\ \A u : FoldersGone(u)' => FoldersGone(u)
  BY <1>2 DEF RowsGone, FoldersGone, Purges
<1>. QED BY <1>3, <1>4, <1>5, <1>6

LEMMA UuidsStay == ASSUME TypeInv, Share \/ Age \/ Save PROVE Uuids' = Uuids
<1>1. \A row \in ciphers : [row EXCEPT !.home = Org].uuid = row.uuid
  BY DEF TypeInv, TypeOK, Row
<1>2. \A row \in ciphers, b \in BOOLEAN : [row EXCEPT !.old = b].uuid = row.uuid
  BY DEF TypeInv, TypeOK, Row
<1>3. PICK row \in ciphers :
        \E new : new.uuid = row.uuid /\ ciphers' = (ciphers \ {row}) \cup {new}
  BY <1>1, <1>2 DEF Share, Age, Save
<1>4. Uuids' = {x.uuid : x \in ciphers'}
  BY DEF Uuids
<1>. QED BY <1>3, <1>4 DEF Uuids

\* A link that was inserted in time hangs on what nobody is deleting.
LinksFine ==
  \A l \in filed \ left :
    /\ l.cipher \in Uuids /\ l.cipher \notin Unfiled
    /\ \E f \in folders : f.uuid = l.folder
    /\ l.folder \notin Emptied

LEMMA LinksStep == ASSUME TypeInv, LinksFine, [Next]_vars PROVE LinksFine'
<1>1. SUFFICES ASSUME NEW l \in filed', l \notin left'
               PROVE  /\ l.cipher \in Uuids' /\ l.cipher \notin Unfiled'
                      /\ \E f \in folders' : f.uuid = l.folder
                      /\ l.folder \notin Emptied'
  BY DEF LinksFine
<1>2. ASSUME NEW h \in running, NEW f, PutsIn(h, f), l = Link(h, f)
      PROVE  /\ l.cipher \in Uuids' /\ l.cipher \notin Unfiled'
             /\ \E g \in folders' : g.uuid = l.folder
             /\ l.folder \notin Emptied'
  <2>1. l.cipher = h.cipher /\ l.folder = f
    BY <1>2 DEF Link
  <2>2. /\ h.cipher \in Uuids /\ h.cipher \notin Unfiled
        /\ f \notin Emptied /\ \E g \in folders : g.uuid = f
    BY <1>1, <1>2 DEF PutsIn, Note
  <2>3. UNCHANGED <<ciphers, folders>> /\ h.pc = "file" /\ Step(h)
    BY <1>2 DEF PutsIn, SetFolder, Step
  <2>4. h.cipher \in given /\ ~Unfile(h)
    BY <2>3 DEF Unfile, TypeInv, HandlerOK
  <2>5. h.cipher \notin Unfiled' /\ f \notin Emptied'
    BY <2>2, <2>3, <2>4, GoingAfter
  <2>. QED BY <2>1, <2>2, <2>3, <2>5 DEF Uuids
<1>3. CASE ~\E h \in running : \E f : PutsIn(h, f) /\ l = Link(h, f)
  <2>1. l \in filed
    <3>1. ASSUME NEW h \in running, SetFolder(h)
          PROVE  \E f : PutsIn(h, f) /\ filed' = filed \cup {Link(h, f)}
      BY <3>1, SetFolderFiles DEF PutsIn
    <3>2. ASSUME NEW h \in running, Step(h), ~SetFolder(h) PROVE filed' \subseteq filed
      BY <3>2 DEF Step, tables, InsertFolder, InsertCipher, ClearFolder, SetFavorite, Unfile,
         Unstar, DetachAll, DeleteRows, DropFolders, DropFolder, DropUser,
         InsertAttachment, PutFile, DeleteFile, DeleteAttachment, Abandon
    <3>3. ASSUME NEW r \in Request \ Busy, Begin(r) PROVE filed' = filed
      BY <3>3, BeginShape DEF tables
    <3>. QED BY <1>1, <1>3, <3>1, <3>2, <3>3 DEF Next, vars, tables, Share, Age, Save, Dissolve
  <2>2. l \notin left
    BY <1>1, <1>3, LeftAfter
  <2>3. /\ l.cipher \in Uuids /\ l.cipher \notin Unfiled
        /\ \E f \in folders : f.uuid = l.folder
        /\ l.folder \notin Emptied /\ l.cipher \in given
    BY <2>1, <2>2 DEF LinksFine, TypeInv, Known
  <2>4. l.cipher \in Uuids'
    <3>1. ASSUME NEW h \in running, DeleteRows(h) PROVE l.cipher \in Uuids'
      <4>1. /\ h.op \in Purges /\ h.pc = "rows"
            /\ ciphers' = {row \in ciphers : row.uuid \notin Subject(h)}
        BY <3>1 DEF DeleteRows
      <4>2. Subject(h) \subseteq Unfiled
        BY <4>1, Going DEF GoingMeans, PastLinks
      <4>. QED BY <2>3, <4>1, <4>2 DEF Uuids
    <3>2. ASSUME NEW h \in running, Step(h), ~DeleteRows(h) PROVE ciphers \subseteq ciphers'
      BY <3>2 DEF Step, tables, InsertFolder, InsertCipher, ClearFolder, SetFolder,
         SetFavorite, Unfile, Unstar, DetachAll, DropFolders, DropFolder, DropUser,
         InsertAttachment, PutFile, DeleteFile, DeleteAttachment, Abandon
    <3>3. ASSUME NEW r \in Request \ Busy, Begin(r) PROVE ciphers' = ciphers
      BY <3>3, BeginShape DEF tables
    <3>4. CASE Dissolve
      <4>1. l.cipher \notin {row.uuid : row \in {x \in ciphers : x.home = Org}}
        BY <1>1, <2>1, <3>4 DEF Dissolve
      <4>2. ciphers' = {row \in ciphers : row.home # Org}
        BY <3>4 DEF Dissolve
      <4>. QED BY <2>3, <4>1, <4>2 DEF Uuids
    <3>5. CASE Share \/ Age \/ Save
      BY <2>3, <3>5, UuidsStay
    <3>. QED BY <2>3, <3>1, <3>2, <3>3, <3>4, <3>5 DEF Next, Uuids, vars, tables
  <2>5. \E f \in folders' : f.uuid = l.folder
    <3>1. PICK f \in folders : f.uuid = l.folder
      BY <2>3
    <3>2. ASSUME NEW h \in running, DropFolder(h) PROVE f \in folders'
      <4>1. h.folder \in Emptied
        BY <3>2, Going DEF GoingMeans, DropFolder
      <4>. QED BY <2>3, <3>1, <3>2, <4>1 DEF DropFolder
    <3>3. ASSUME NEW h \in running, DropFolders(h) PROVE f \in folders'
      BY <1>1, <2>1, <3>1, <3>3 DEF DropFolders
    <3>4. ASSUME NEW h \in running, Step(h), ~DropFolder(h), ~DropFolders(h)
          PROVE  folders \subseteq folders'
      BY <3>4 DEF Step, tables, InsertFolder, InsertCipher, ClearFolder, SetFolder,
         SetFavorite, Unfile, Unstar, DetachAll, DeleteRows, DropUser,
         InsertAttachment, PutFile, DeleteFile, DeleteAttachment, Abandon
    <3>5. ASSUME NEW r \in Request \ Busy, Begin(r) PROVE folders' = folders
      BY <3>5, BeginShape DEF tables
    <3>. QED BY <3>1, <3>2, <3>3, <3>4, <3>5 DEF Next, vars, tables, Share, Age, Save, Dissolve
  <2>6. l.cipher \notin Unfiled' /\ l.folder \notin Emptied'
    <3>1. ASSUME NEW h \in running, Step(h)
          PROVE  l.cipher \notin Unfiled' /\ l.folder \notin Emptied'
      <4>1. ASSUME Unfile(h)
            PROVE  /\ ~(h.op \in Purges /\ l.cipher \in Subject(h))
                   /\ ~(h.op = "delete_folder" /\ l.folder = h.folder)
        BY <1>1, <2>1, <4>1 DEF Unfile, Purges
      <4>. QED BY <2>3, <3>1, <4>1, GoingAfter
    <3>. QED BY <2>3, <3>1, GoingElse DEF Next
  <2>. QED BY <2>4, <2>5, <2>6
<1>. QED BY <1>2, <1>3

\* A mark that was inserted in time hangs on what nobody is deleting.
MarksFine ==
  \A s \in stars \ left :
    /\ s.cipher \in Uuids /\ s.cipher \notin Unstarred
    /\ s.user \in accounts /\ s.user \notin Leaving

LEMMA MarksStep == ASSUME TypeInv, OwnMarks, MarksFine, [Next]_vars PROVE MarksFine'
<1>1. SUFFICES ASSUME NEW s \in stars', s \notin left'
               PROVE  /\ s.cipher \in Uuids' /\ s.cipher \notin Unstarred'
                      /\ s.user \in accounts' /\ s.user \notin Leaving'
  BY DEF MarksFine
<1>2. ASSUME NEW h \in running, SetFavorite(h), s = Mark(h)
      PROVE  /\ s.cipher \in Uuids' /\ s.cipher \notin Unstarred'
             /\ s.user \in accounts' /\ s.user \notin Leaving'
  <2>1. s.cipher = h.cipher /\ s.user = h.user
    BY <1>2 DEF Mark
  <2>2. /\ h.cipher \in Uuids /\ h.cipher \notin Unstarred
        /\ h.user \in accounts /\ h.user \notin Leaving
    BY <1>1, <1>2 DEF SetFavorite, Note, Mark, Late
  <2>3. UNCHANGED <<ciphers, accounts>> /\ h.pc = "star" /\ Step(h)
    BY <1>2 DEF SetFavorite, Step
  <2>4. h.cipher \in given /\ h.op \notin Purges
    BY <2>3 DEF TypeInv, HandlerOK, Purges
  <2>5. h.cipher \notin Unstarred' /\ h.user \notin Leaving'
    BY <2>2, <2>3, <2>4, GoingAfter DEF Purges
  <2>. QED BY <2>1, <2>2, <2>3, <2>5 DEF Uuids
<1>3. CASE ~\E h \in running : SetFavorite(h) /\ s = Mark(h)
  <2>1. s \in stars
    <3>1. ASSUME NEW h \in running, SetFavorite(h) PROVE stars' \subseteq stars \cup {Mark(h)}
      BY <3>1 DEF SetFavorite, Mark
    <3>2. ASSUME NEW h \in running, Step(h), ~SetFavorite(h) PROVE stars' \subseteq stars
      BY <3>2 DEF Step, tables, InsertFolder, InsertCipher, ClearFolder, SetFolder, Unfile,
         Unstar, DetachAll, DeleteRows, DropFolders, DropFolder, DropUser,
         InsertAttachment, PutFile, DeleteFile, DeleteAttachment, Abandon
    <3>3. ASSUME NEW r \in Request \ Busy, Begin(r) PROVE stars' = stars
      BY <3>3, BeginShape DEF tables
    <3>. QED BY <1>1, <1>3, <3>1, <3>2, <3>3 DEF Next, vars, tables, Share, Age, Save, Dissolve
  <2>2. s \notin left
    BY <1>1, <1>3, LeftAfter
  <2>3. /\ s.cipher \in Uuids /\ s.cipher \notin Unstarred
        /\ s.user \in accounts /\ s.user \notin Leaving /\ s.cipher \in given
    BY <2>1, <2>2 DEF MarksFine, TypeInv, Known
  <2>4. s.cipher \in Uuids'
    <3>1. ASSUME NEW h \in running, DeleteRows(h) PROVE s.cipher \in Uuids'
      <4>1. /\ h.op \in Purges /\ h.pc = "rows"
            /\ ciphers' = {row \in ciphers : row.uuid \notin Subject(h)}
        BY <3>1 DEF DeleteRows
      <4>2. CASE h.op # "delete_account"
        <5>1. Subject(h) \subseteq Unstarred
          BY <4>1, <4>2, Going DEF GoingMeans
        <5>. QED BY <2>3, <4>1, <5>1 DEF Uuids
      <4>3. CASE h.op = "delete_account"
        <5>1. h.user \in Leaving /\ h.user # Org
          BY <4>1, <4>3, Going, OrgAssumption DEF GoingMeans, TypeInv, HandlerOK
        <5>2. s.cipher \notin Subject(h)
          BY <2>1, <2>3, <4>3, <5>1 DEF Subject, OwnMarks
        <5>. QED BY <2>3, <4>1, <5>2 DEF Uuids
      <4>. QED BY <4>2, <4>3
    <3>2. ASSUME NEW h \in running, Step(h), ~DeleteRows(h) PROVE ciphers \subseteq ciphers'
      BY <3>2 DEF Step, tables, InsertFolder, InsertCipher, ClearFolder, SetFolder,
         SetFavorite, Unfile, Unstar, DetachAll, DropFolders, DropFolder, DropUser,
         InsertAttachment, PutFile, DeleteFile, DeleteAttachment, Abandon
    <3>3. ASSUME NEW r \in Request \ Busy, Begin(r) PROVE ciphers' = ciphers
      BY <3>3, BeginShape DEF tables
    <3>4. CASE Dissolve
      <4>1. s.cipher \notin {row.uuid : row \in {x \in ciphers : x.home = Org}}
        BY <1>1, <2>1, <3>4 DEF Dissolve
      <4>2. ciphers' = {row \in ciphers : row.home # Org}
        BY <3>4 DEF Dissolve
      <4>. QED BY <2>3, <4>1, <4>2 DEF Uuids
    <3>5. CASE Share \/ Age \/ Save
      BY <2>3, <3>5, UuidsStay
    <3>. QED BY <2>3, <3>1, <3>2, <3>3, <3>4, <3>5 DEF Next, Uuids, vars, tables
  <2>5. s.user \in accounts'
    <3>1. ASSUME NEW h \in running, DropUser(h) PROVE s.user \in accounts'
      <4>1. h.user \in Leaving
        BY <3>1, Going DEF GoingMeans, DropUser
      <4>. QED BY <2>3, <3>1, <4>1 DEF DropUser
    <3>2. ASSUME NEW h \in running, Step(h), ~DropUser(h) PROVE accounts' = accounts
      BY <3>2 DEF Step, InsertFolder, InsertCipher, ClearFolder, SetFolder,
         SetFavorite, Unfile, Unstar, DetachAll, DeleteRows, DropFolders, DropFolder,
         InsertAttachment, PutFile, DeleteFile, DeleteAttachment, Abandon
    <3>3. ASSUME NEW r \in Request \ Busy, Begin(r) PROVE accounts' = accounts
      BY <3>3, BeginShape
    <3>. QED BY <2>3, <3>1, <3>2, <3>3 DEF Next, vars, Share, Age, Save, Dissolve
  <2>6. s.cipher \notin Unstarred' /\ s.user \notin Leaving'
    <3>1. ASSUME NEW h \in running, Step(h)
          PROVE  s.cipher \notin Unstarred' /\ s.user \notin Leaving'
      <4>1. ASSUME Unstar(h)
            PROVE  /\ ~(h.op \in Purges \ {"delete_account"} /\ s.cipher \in Subject(h))
                   /\ ~(h.op = "delete_account" /\ s.user = h.user)
        BY <1>1, <2>1, <4>1 DEF Unstar
      <4>. QED BY <2>3, <3>1, <4>1, GoingAfter
    <3>. QED BY <2>3, <3>1, GoingElse DEF Next
  <2>. QED BY <2>4, <2>5, <2>6
<1>. QED BY <1>2, <1>3

\* An account's deletion leaves no cipher and no folder that was inserted in time.
AccountsFine ==
  \A u \in User :
    /\ RowsGone(u) => \A row \in ciphers : row.home = u => row.uuid \in left
    /\ FoldersGone(u) => \A f \in folders : f.user = u => f.uuid \in left

LEMMA GoneIsLate == \A u : RowsGone(u) \/ FoldersGone(u) => Late(u)
BY Going DEF GoingMeans, RowsGone, FoldersGone, Late

LEMMA AccountsStep == ASSUME TypeInv, AccountsFine, [Next]_vars PROVE AccountsFine'
<1>1. SUFFICES ASSUME NEW u \in User
               PROVE  /\ RowsGone(u)' =>
                           \A new \in ciphers' : new.home = u => new.uuid \in left'
                      /\ FoldersGone(u)' =>
                           \A new \in folders' : new.user = u => new.uuid \in left'
  BY DEF AccountsFine
<1>2. u # Org
  BY OrgAssumption
<1>3. ASSUME RowsGone(u)', NEW new \in ciphers', new.home = u PROVE new.uuid \in left'
  <2>1. ASSUME NEW h \in running, InsertCipher(h), new.uuid \notin given
        PROVE  new.uuid \in left'
    <3>1. PICK c \in Cipher \ given :
            /\ ciphers' = ciphers \cup {[uuid |-> c, home |-> h.user, old |-> FALSE]}
            /\ Note(c, Late(h.user))
      BY <2>1 DEF InsertCipher
    <3>2. new.uuid = c /\ new.home = h.user
      BY <2>1, <3>1 DEF TypeInv, Known
    <3>3. Step(h) /\ ~DeleteRows(h)
      BY <2>1 DEF Step, InsertCipher, DeleteRows
    <3>4. Late(u)
      BY <1>3, <3>3, GoingAfter, GoneIsLate
    <3>. QED BY <1>3, <3>1, <3>2, <3>4 DEF Note
  <2>2. ASSUME NEW row \in ciphers, row.uuid = new.uuid, new.home \in {row.home, Org}
        PROVE  new.uuid \in left'
    <3>1. row.home = u /\ row.uuid \in given
      BY <1>2, <1>3, <2>2 DEF TypeInv, Known
    <3>2. RowsGone(u)
      <4>1. ASSUME NEW h \in running, DeleteRows(h), h.op = "delete_account", u = h.user
            PROVE  FALSE
        <5>1. row.uuid \in Subject(h)
          BY <3>1, <4>1 DEF Subject
        <5>. QED BY <2>2, <4>1, <5>1, <1>3 DEF DeleteRows
      <4>2. ASSUME NEW h \in running, Step(h) PROVE RowsGone(u)
        BY <1>3, <4>1, <4>2, GoingAfter
      <4>. QED BY <1>3, <4>2, GoingElse DEF Next
    <3>3. row.uuid \in left
      BY <3>1, <3>2 DEF AccountsFine
    <3>. QED BY <1>2, <1>3, <2>2, <3>1, <3>3, LeftAfter
  <2>. QED BY <2>1, <2>2, RowsFrom
<1>4. ASSUME FoldersGone(u)', NEW new \in folders', new.user = u PROVE new.uuid \in left'
  <2>1. ASSUME NEW h \in running, InsertFolder(h), new \notin folders
        PROVE  new.uuid \in left'
    <3>1. PICK f \in Folder \ given :
            /\ folders' = folders \cup {[uuid |-> f, user |-> h.user]}
            /\ Note(f, Late(h.user))
      BY <2>1 DEF InsertFolder
    <3>2. new.uuid = f /\ new.user = h.user
      BY <1>4, <2>1, <3>1
    <3>3. Step(h) /\ h.op # "delete_account"
      BY <2>1 DEF Step, InsertFolder
    <3>4. Late(u)
      BY <1>4, <3>3, GoingAfter, GoneIsLate
    <3>. QED BY <1>4, <3>1, <3>2, <3>4 DEF Note
  <2>2. CASE new \in folders
    <3>1. new.uuid \in given
      BY <2>2 DEF TypeInv, Known
    <3>2. FoldersGone(u)
      <4>1. ASSUME NEW h \in running, DropFolders(h), u = h.user PROVE FALSE
        BY <1>4, <4>1 DEF DropFolders
      <4>2. ASSUME NEW h \in running, Step(h) PROVE FoldersGone(u)
        BY <1>4, <4>1, <4>2, GoingAfter
      <4>. QED BY <1>4, <4>2, GoingElse DEF Next
    <3>3. new.uuid \in left
      BY <1>4, <2>2, <3>2 DEF AccountsFine
    <3>. QED BY <1>4, <3>1, <3>3, LeftAfter
  <2>3. folders' \subseteq folders \/ \E h \in running : InsertFolder(h)
    <3>1. ASSUME NEW h \in running, Step(h), ~InsertFolder(h) PROVE folders' \subseteq folders
      BY <3>1 DEF Step, tables, InsertCipher, ClearFolder, SetFolder,
         SetFavorite, Unfile, Unstar, DetachAll, DeleteRows, DropFolders, DropFolder, DropUser,
         InsertAttachment, PutFile, DeleteFile, DeleteAttachment, Abandon
    <3>2. ASSUME NEW r \in Request \ Busy, Begin(r) PROVE folders' = folders
      BY <3>2, BeginShape DEF tables
    <3>. QED BY <3>1, <3>2 DEF Next, vars, tables, Share, Age, Save, Dissolve
  <2>. QED BY <1>4, <2>1, <2>2, <2>3
<1>. QED BY <1>1, <1>3, <1>4

LinksInv == OwnMarks /\ LinksFine /\ MarksFine /\ AccountsFine

\* Links and marks hang on what exists and a deleted account leaves nothing,
\* but for what was inserted meanwhile, for any number of users and requests.
THEOREM LinksHangTogether == Spec => []LinksHang
<1>1. Init => LinksInv
  BY DEF Init, LinksInv, OwnMarks, LinksFine, MarksFine, AccountsFine
<1>2. TypeInv /\ LinksInv /\ [Next]_vars => LinksInv'
  BY OwnMarksStep, LinksStep, MarksStep, AccountsStep DEF LinksInv
<1>3. Spec => []LinksInv
  BY <1>1, <1>2, TypeInvariant, PTL DEF Spec
<1>4. ASSUME LinksInv PROVE LinksHang
  <2>1. \A u \in User \ accounts : RowsGone(u) /\ FoldersGone(u)
    BY DEF RowsGone, FoldersGone
  <2>2. ASSUME NEW u \in User \ accounts
        PROVE  /\ {row.uuid : row \in {x \in ciphers : x.home = u}} \subseteq left
               /\ OwnFolders(u) \subseteq left
    BY <1>4, <2>1, <2>2 DEF LinksInv, AccountsFine, OwnFolders
  <2>. QED BY <1>4, <2>2 DEF LinksHang, LinksInv, LinksFine, MarksFine
<1>. QED BY <1>3, <1>4, PTL
-----------------------------------------------------------------------------
(* Requests one at a time: nothing files a cipher between a handler's two     *)
(* statements.                                                                *)

OneAtATime == \A r, s \in Request : r = s

Solo == \A g, h \in running : g = h

LEMMA SoloStep ==
  ASSUME OneAtATime, TypeInv, Solo, [Next]_vars PROVE Solo'
<1>1. ASSUME NEW r \in Request \ Busy, Begin(r) PROVE Solo'
  <2>1. running = {}
    <3>1. \A h \in running : h.id \in Request /\ h.id \in Busy
      BY DEF TypeInv, TypeOK, Handler, Busy
    <3>. QED BY <1>1, <3>1 DEF OneAtATime
  <2>2. \E new : running' = running \cup {new}
    BY <1>1, BeginShape
  <2>. QED BY <2>1, <2>2 DEF Solo
<1>2. ASSUME NEW h \in running, Step(h) PROVE Solo'
  <2>1. running' = running \ {h} \/ \E new : running' = (running \ {h}) \cup {new}
    BY <1>2, StepShape DEF Successor
  <2>. QED BY <2>1 DEF Solo
<1>3. CASE Share \/ Age \/ Save \/ Dissolve \/ UNCHANGED vars
  BY <1>3 DEF Solo, Share, Age, Save, Dissolve, vars
<1>. QED BY <1>1, <1>2, <1>3 DEF Next

NoneOverlapped == overlapped = {}

LEMMA NothingOverlaps ==
  ASSUME Solo, NoneOverlapped, [Next]_vars PROVE NoneOverlapped'
<1>. USE DEF NoneOverlapped
<1>1. ASSUME NEW h \in running, ClearFolder(h) PROVE overlapped' = {}
  <2>1. FilingNow(h.cipher) = {}
    BY <1>1 DEF Solo, ClearFolder, FilingNow
  <2>. QED BY <1>1, <2>1 DEF ClearFolder
<1>2. CASE ~ \E h \in running : ClearFolder(h)
  <2>. USE DEF crowded
  <2>1. ASSUME NEW r, Begin(r) PROVE UNCHANGED overlapped
    BY <2>1 DEF Begin, PostCipher, PostFolders, PutCipher, BulkMove, DeleteFolder,
       PurgeCiphers, DeleteAccount, DeleteCipher, PurgeTrashed, PostAttachment,
       UploadAttachment, DetachAttachment, Spawn
  <2>2. ASSUME NEW h \in running, Step(h) PROVE UNCHANGED overlapped
    BY <1>2, <2>2 DEF Step, InsertFolder, InsertCipher, SetFolder, SetFavorite, Unfile,
       Unstar, DetachAll, DeleteRows, DropFolders, DropFolder, DropUser,
       InsertAttachment, PutFile, DeleteFile, DeleteAttachment, Abandon
  <2>3. CASE Share \/ Age \/ Save \/ Dissolve \/ UNCHANGED vars
    BY <2>3 DEF Share, Age, Save, Dissolve, vars
  <2>. QED BY <2>1, <2>2, <2>3 DEF Next
<1>. QED BY <1>1, <1>2

\* Without overlapping requests clear_folder_for_cipher and set_folder_cipher,
\* two statements, keep a cipher in one folder at most, whoever else's folders
\* it was in before, but for a cipher that one import files in several.
THEOREM OneFolderAlone ==
  OneAtATime =>
    (Spec => [](\A c \in Cipher \ spread :
                  Cardinality({l \in filed : l.cipher = c}) <= 1))
<1>. SUFFICES ASSUME OneAtATime
              PROVE  Spec => [](\A c \in Cipher \ spread :
                                  Cardinality({l \in filed : l.cipher = c}) <= 1)
  OBVIOUS
<1>1. Init => Solo /\ NoneOverlapped
  BY DEF Init, Solo, NoneOverlapped
<1>2. TypeInv /\ Solo /\ NoneOverlapped /\ [Next]_vars => Solo' /\ NoneOverlapped'
  BY SoloStep, NothingOverlaps
<1>3. Spec => [](OneInv /\ NoneOverlapped)
  BY <1>1, <1>2, OneInit, OneStep, TypeInvariant, PTL DEF Spec
<1>4. ASSUME OneInv, NoneOverlapped, NEW c \in Cipher \ spread
      PROVE  Cardinality({l \in filed : l.cipher = c}) <= 1
  <2>1. \A k, l \in {x \in filed : x.cipher = c} : k = l
    BY <1>4 DEF OneInv, OneOf, NoneOverlapped
  <2>. QED BY <2>1, AtMostOne
<1>5. OneInv /\ NoneOverlapped =>
        \A c \in Cipher \ spread : Cardinality({l \in filed : l.cipher = c}) <= 1
  BY <1>4
<1>. QED BY <1>3, <1>5, PTL
\* An upload stores the file of an attachment that is there.
NoneRaced ==
  /\ raced = {}
  /\ \A h \in running : h.op = "upload" => h.pc = "put" /\ h.att \in Ids

LEMMA NothingRaces ==
  ASSUME OneAtATime, TypeInv, Solo, NoneRaced, [Next]_vars PROVE NoneRaced'
<1>1. ASSUME NEW r \in Request \ Busy, Begin(r) PROVE NoneRaced'
  <2>1. PICK new : /\ UNCHANGED <<tables, uploads>>
                   /\ running' = running \cup {new}
                   /\ new.op = "upload" => new.pc = "put" /\ new.att \in Ids
    BY <1>1, BeginShape
  <2>. QED BY <2>1 DEF NoneRaced, Ids, tables, uploads
<1>2. ASSUME NEW h \in running, Step(h) PROVE NoneRaced'
  <2>1. running = {h}
    BY DEF Solo
  <2>2. CASE h.op = "upload"
    <3>1. h.pc = "put" /\ h.att \in Ids
      BY <2>2 DEF NoneRaced
    <3>2. PutFile(h) \/ Abandon(h)
      BY <1>2, <2>2, <3>1 DEF Step, InsertFolder, InsertCipher, ClearFolder, SetFolder,
         SetFavorite, Unfile, Unstar, DetachAll, DeleteRows, DropFolders, DropFolder,
         DropUser, InsertAttachment, DeleteFile, DeleteAttachment, Purges
    <3>3. ~ \E g \in running : g.op = "detach" /\ g.pc = "rows" /\ g.att = h.att
      BY <2>1, <2>2
    <3>4. running' = {} /\ raced' = raced
      BY <2>1, <3>1, <3>2, <3>3 DEF PutFile, Abandon, End
    <3>. QED BY <3>4 DEF NoneRaced
  <2>3. CASE h.op # "upload"
    <3>1. UNCHANGED raced
      BY <1>2, <2>3 DEF Step, InsertFolder, InsertCipher, ClearFolder, SetFolder,
         SetFavorite, Unfile, Unstar, DetachAll, DeleteRows, DropFolders, DropFolder,
         DropUser, InsertAttachment, PutFile, DeleteFile, DeleteAttachment, Abandon,
         uploads
    <3>2. \A g \in running' : g.op # "upload"
      BY <1>2, <2>1, <2>3, StepShape DEF Successor
    <3>. QED BY <3>1, <3>2 DEF NoneRaced
  <2>. QED BY <2>2, <2>3
<1>3. CASE Share \/ Age \/ Save \/ Dissolve \/ UNCHANGED vars
  BY <1>3 DEF NoneRaced, Share, Age, Save, Dissolve, vars, uploads, Ids
<1>. QED BY <1>1, <1>2, <1>3 DEF Next

\* Without overlapping requests a file in R2 has its row, unless R2 failed to
\* delete it or the row went with an account.
THEOREM FilesAlone == OneAtATime => (Spec => [](files \subseteq Ids \cup missed))
<1>. SUFFICES ASSUME OneAtATime PROVE Spec => [](files \subseteq Ids \cup missed)
  OBVIOUS
<1>1. Init => Solo /\ NoneRaced
  BY DEF Init, Solo, NoneRaced
<1>2. TypeInv /\ Solo /\ NoneRaced /\ [Next]_vars => Solo' /\ NoneRaced'
  BY SoloStep, NothingRaces
<1>3. FilesExplained /\ NoneRaced => files \subseteq Ids \cup missed
  BY DEF FilesExplained, NoneRaced
<1>. QED BY <1>1, <1>2, <1>3, TypeInvariant, Files, PTL DEF Spec
=============================================================================
