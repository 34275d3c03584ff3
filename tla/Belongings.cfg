\* One user with one cipher, two folders and an attachment; two handlers at a
\* time.
CONSTANTS
  Cipher = {c1}
  Folder = {f1, f2}
  Attachment = {a1}
  User = {u1}
  Org = org
  None = none
  Request = {r1, r2}
SPECIFICATION Spec
SYMMETRY Symmetry
CONSTRAINT FoldersOrFiles
INVARIANTS
  TypeOK
  OneFolder
  LinksHang
  FilesExplained
