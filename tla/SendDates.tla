----------------------------- MODULE SendDates -----------------------------
(***************************************************************************)
(* Sends beside the texts of its dates: a reading n of its clock stands for   *)
(* the n-th hour of Dates.                                                   *)
(***************************************************************************)
EXTENDS Sends, Dates

OnTime == [n \in 0 .. MaxTime |-> OnTimeIn(n + 1)]

\* Whatever the clock reads, the texts of check_send_available and of the purge
\* are compared as the instants they spell would be, up to their last decimal and
\* their zone.  This is what lets Sends take numbers for dates.
PassesOnTime == OnTime[now]
=============================================================================
