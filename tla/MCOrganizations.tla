-------------------------- MODULE MCOrganizations --------------------------
(***************************************************************************)
(* Instance of Organizations for TLC.                                       *)
(***************************************************************************)
EXTENDS Organizations, TLC

\* Bound: a history has a third membership or a collection in it.  Racing
\* invitations need the former, and nothing in the code links it to the latter.
RolesOrAccess ==
  \/ Cardinality(given \cap Member) <= 2
  \/ given \cap Collection = {} /\ grants = {} /\ \A h \in running : h.todo = {}

Symmetry == Permutations(User) \cup Permutations(Member)
              \cup Permutations(Request)
=============================================================================
