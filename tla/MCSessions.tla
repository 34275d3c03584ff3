----------------------------- MODULE MCSessions -----------------------------
(***************************************************************************)
(* Instance of Sessions for TLC.                                            *)
(***************************************************************************)
EXTENDS Sessions, TLC

Symmetry == Permutations(Request) \cup Permutations(User)
              \cup Permutations(Password) \cup Permutations(UserKey)
=============================================================================
