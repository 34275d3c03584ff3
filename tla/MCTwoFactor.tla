---------------------------- MODULE MCTwoFactor ----------------------------
(***************************************************************************)
(* Instance of TwoFactor for TLC.                                            *)
(***************************************************************************)
EXTENDS TwoFactor, TLC

Symmetry == Permutations(Request) \cup Permutations(Secret)
=============================================================================
