---------------------------- MODULE MCBelongings ----------------------------
(***************************************************************************)
(* Instance of Belongings for TLC.                                          *)
(***************************************************************************)
EXTENDS Belongings, TLC

\* Bound: a history has folders or attachments in it.  No statement reads one
\* table to write the other.
FoldersOrFiles == given \cap Folder = {} \/ given \cap Attachment = {}

Symmetry == Permutations(Folder) \cup Permutations(Request)
=============================================================================
