------------------------------- MODULE Vault -------------------------------
(***************************************************************************)
(* What the cipher handlers promise, whatever interleaves with them: a      *)
(* cipher has one home, a user or the organization; it moves at most once,  *)
(* from a user to the organization; and once gone it never comes back.      *)
(* Ciphers refines this specification.                                      *)
(***************************************************************************)
CONSTANTS
  Cipher,   \* values generate_uuid yields for ciphers.uuid
  User,     \* users, the homes of personal ciphers
  Org,      \* the organization, the home of shared ciphers
  None,     \* the home of a cipher not created yet
  Gone      \* the home of a deleted cipher

VARIABLES
  home,     \* where each cipher is
  trash     \* the ciphers in the trash

vars == <<home, trash>>

Homes == User \cup {Org}

\* The ciphers at home in x.
At(x) == {c \in Cipher : home[c] = x}

Init == /\ home = [c \in Cipher |-> None]
        /\ trash = {}

Create(c, x) == /\ home[c] = None
                /\ home' = [home EXCEPT ![c] = x]
                /\ UNCHANGED trash

Share(c) == /\ home[c] \in User
            /\ home' = [home EXCEPT ![c] = Org]
            /\ UNCHANGED trash

MoveToTrash(c) == /\ home[c] \in Homes
                  /\ trash' = trash \cup {c}
                  /\ UNCHANGED home

Restore(c) == /\ trash' = trash \ {c}
              /\ UNCHANGED home

\* Ciphers are deleted one by one, with all others of their home, or out of
\* the trash.
Delete(gone) == /\ \/ \E c \in Cipher : gone = {c} /\ home[c] \in Homes
                   \/ \E x \in Homes : gone = At(x)
                   \/ gone \subseteq trash
                /\ home' = [c \in Cipher |-> IF c \in gone THEN Gone ELSE home[c]]
                /\ trash' = trash \ gone

Next == \/ \E c \in Cipher : \/ \E x \in Homes : Create(c, x)
                             \/ Share(c) \/ MoveToTrash(c) \/ Restore(c)
        \/ \E gone \in SUBSET Cipher : Delete(gone)

Spec == Init /\ [][Next]_vars
=============================================================================
