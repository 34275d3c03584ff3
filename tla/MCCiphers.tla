----------------------------- MODULE MCCiphers -----------------------------
(***************************************************************************)
(* Instance of Ciphers for TLC.                                             *)
(***************************************************************************)
EXTENDS Ciphers, TLC

Symmetry == Permutations(User) \cup Permutations(Request)

\* Bound: one user at a time has anything to do with the organization.
OneMember ==
  Cardinality({u \in User : role[u] # "none"} \cup {g.user : g \in grants}) <= 1
=============================================================================
