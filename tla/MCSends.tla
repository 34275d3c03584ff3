------------------------------ MODULE MCSends ------------------------------
(***************************************************************************)
(* Instance of Sends for TLC, with the dates it takes for numbers.           *)
(***************************************************************************)
EXTENDS SendDates, TLC

Symmetry == Permutations(Request) \cup Permutations(Send)

\* A limited send about to be deleted, an expiring one, and a disabled one.
Choices == {[max |-> 1, disabled |-> FALSE, expires |-> None, deletes |-> 1],
            [max |-> None, disabled |-> FALSE, expires |-> 1, deletes |-> 2],
            [max |-> 1, disabled |-> TRUE, expires |-> None, deletes |-> 2]}
=============================================================================
