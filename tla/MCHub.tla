------------------------------- MODULE MCHub -------------------------------
(***************************************************************************)
(* Instance of Hub for TLC: the constants are all in Hub.cfg.                *)
(***************************************************************************)
EXTENDS Hub
=============================================================================
