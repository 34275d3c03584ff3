----------------------------- MODULE TwoFactor -----------------------------
(***************************************************************************)
(* The second factor of one account: its rows of `two_factor` (all of them  *)
(* authenticators, type 0), users.totp_recover, and the handlers that read  *)
(* or write them: enrolment, disabling, a new recovery code, and the        *)
(* two-factor part of the password grant.  As in Sessions, one action is    *)
(* one D1 statement with the code up to the next, and a handler may stop    *)
(* after any statement.                                                     *)
(*                                                                         *)
(* A TOTP code is the pair of the secret and the 30-second step it was      *)
(* made for; a code that matches another step by chance is left out.        *)
(***************************************************************************)
EXTENDS Naturals

CONSTANTS
  Secret,       \* authenticator secrets
  NoSecret,     \* the secret of a handler that has none yet
  Request,      \* handler instances that may run at the same time
  MaxStep,      \* bound: the clock, in 30-second steps
  MaxRow,       \* bound: two_factor rows ever inserted
  MaxCode       \* bound: recovery codes generated

ASSUME SecretAssumption == NoSecret \notin Secret
ASSUME BoundAssumption == MaxStep \in Nat /\ MaxRow \in Nat /\ MaxCode \in Nat

VARIABLES
  factors,      \* rows of `two_factor`
  recover,      \* users.totp_recover, or NoCode
  running,      \* handlers in flight
  now,          \* the current step, counted from some moment
  nextRow,      \* next value generate_uuid yields for two_factor.uuid
  nextCode,     \* next value generate_recovery_code yields
  accepted,     \* history: TOTP codes accepted, with the row they were checked by
  replayed,     \* history: secrets of codes that a login accepted again
  raced,        \* history: rows not as their writer had read them
  spent,        \* history: recovery codes a login accepted
  uncleared     \* history: recovery codes whose login stopped before clearing them

vars == <<factors, recover, running, now, nextRow, nextCode,
          accepted, replayed, raced, spent, uncleared>>

NoCode == 0
RowId == Nat
FactorRow == [uuid: RowId, enabled: BOOLEAN, data: Secret, last_used: Nat]

\* A handler remembers what it read: whether the user had a recovery code
\* (`code`), the factor it works on, and that factor's last_used (`seen`).
Handler == [id: Request, op: {"enrol", "login", "disable"},
            pc: {"find", "upsert", "store_code", "use", "delete", "disable",
                 "remaining", "clear"},
            code: Nat, row: RowId, data: Secret \cup {NoSecret}, step: Nat,
            seen: Nat]

Accepted == [uuid: RowId, data: Secret, step: Nat]

-----------------------------------------------------------------------------
Busy == {h.id : h \in running}

Become(h, new) == (running \ {h}) \cup {new}
Goto(h, pc) == Become(h, [h EXCEPT !.pc = pc])

Enabled == {f \in factors : f.enabled}

\* validate_totp accepts the current step and one on either side.
Window == {s \in 0 .. now + 1 : now <= s + 1}

\* Mutant: the last code is not counted as used.
UnusedOffByOne(f, s) == s >= f.last_used

\* The code of step s is refused when last_used has reached s.
Unused(f, s) == s > f.last_used

\* A login's code, accepted through h's row; enrolment accepts one as well.
Accept(h) == accepted' = accepted \cup
                           {[uuid |-> h.row, data |-> h.data, step |-> h.step]}

\* The row is no longer as h read it: another last_used, or deleted.
Changed(h) == \/ \E f \in factors : f.uuid = h.row /\ f.last_used # h.seen
              \/ /\ \E a \in accepted : a.uuid = h.row
                 /\ \A f \in factors : f.uuid # h.row

Race(h) == raced' = IF Changed(h) THEN raced \cup {h.row} ELSE raced

-----------------------------------------------------------------------------
Init == /\ factors = {} /\ recover = NoCode /\ running = {}
        /\ now = 0 /\ nextRow = 1 /\ nextCode = 1
        /\ accepted = {} /\ replayed = {} /\ raced = {}
        /\ spent = {} /\ uncleared = {}

Tick == /\ now < MaxStep
        /\ now' = now + 1
        /\ UNCHANGED <<factors, recover, running, nextRow, nextCode,
                       accepted, replayed, raced, spent, uncleared>>

\* The users row is read: by verify_password_and_get_user in post_authenticator
\* and disable_two_factor, by find_user_by_email in handle_password_grant.
Begin(r, op) ==
  /\ r \notin Busy
  /\ running' = running \cup
       {[id |-> r, op |-> op, pc |-> "find", row |-> 0, data |-> NoSecret,
         step |-> 0, seen |-> 0,
         code |-> IF op = "disable" THEN NoCode ELSE recover]}
  /\ UNCHANGED <<factors, recover, now, nextRow, nextCode,
                 accepted, replayed, raced, spent, uncleared>>

-----------------------------------------------------------------------------
\* post_authenticator: the code matches the posted key, and is later than the
\* last_used of the row found, enabled or not.  Without a row, a new uuid.
EnrolAgain(h) ==
  /\ h.op = "enrol" /\ h.pc = "find"
  /\ \E k \in Secret, s \in Window, f \in factors :
       /\ Unused(f, s)
       /\ running' = Become(h, [h EXCEPT !.pc = "upsert", !.row = f.uuid,
                            !.data = k, !.step = s, !.seen = f.last_used])
  /\ UNCHANGED <<factors, recover, now, nextRow, nextCode,
                 accepted, replayed, raced, spent, uncleared>>

EnrolFirst(h) ==
  /\ h.op = "enrol" /\ h.pc = "find"
  /\ factors = {} /\ nextRow <= MaxRow
  /\ \E k \in Secret, s \in Window :
       running' = Become(h, [h EXCEPT !.pc = "upsert", !.row = nextRow,
                            !.data = k, !.step = s])
  /\ nextRow' = nextRow + 1
  /\ UNCHANGED <<factors, recover, now, nextCode,
                 accepted, replayed, raced, spent, uncleared>>

\* Mutant: an INSERT without ON CONFLICT, into a table with no primary key.
EnrolInsert(h) ==
  /\ h.op = "enrol" /\ h.pc = "upsert"
  /\ factors' = factors \cup {[uuid |-> h.row, enabled |-> TRUE,
                              data |-> h.data, last_used |-> h.step]}
  /\ Accept(h) /\ Race(h)
  /\ running' = IF h.code = NoCode THEN Goto(h, "store_code")
                ELSE running \ {h}
  /\ UNCHANGED <<recover, now, nextRow, nextCode, replayed, spent, uncleared>>

EnrolUpsert(h) ==
  /\ h.op = "enrol" /\ h.pc = "upsert"
  /\ factors' = {f \in factors : f.uuid # h.row} \cup
                  {[uuid |-> h.row, enabled |-> TRUE, data |-> h.data,
                    last_used |-> h.step]}
  /\ Accept(h) /\ Race(h)
  /\ running' = IF h.code = NoCode THEN Goto(h, "store_code")
                ELSE running \ {h}
  /\ UNCHANGED <<recover, now, nextRow, nextCode, replayed, spent, uncleared>>

\* update_user_totp_recover with a fresh code, at the end of an enrolment.
EnrolStoreCode(h) ==
  /\ h.op = "enrol" /\ h.pc = "store_code"
  /\ nextCode <= MaxCode
  /\ recover' = nextCode /\ nextCode' = nextCode + 1
  /\ running' = running \ {h}
  /\ UNCHANGED <<factors, now, nextRow, accepted, replayed, raced, spent,
                 uncleared>>

\* post_recover: a fresh code, whatever is enrolled.
PostRecover ==
  /\ nextCode <= MaxCode
  /\ recover' = nextCode /\ nextCode' = nextCode + 1
  /\ UNCHANGED <<factors, running, now, nextRow, accepted, replayed, raced,
                 spent, uncleared>>

-----------------------------------------------------------------------------
\* handle_password_grant: without enabled factors the password is enough.
LoginWithoutFactor(h) ==
  /\ h.op = "login" /\ h.pc = "find"
  /\ Enabled = {}
  /\ running' = running \ {h}
  /\ UNCHANGED <<factors, recover, now, nextRow, nextCode,
                 accepted, replayed, raced, spent, uncleared>>

\* Provider 0: a code for the row's secret, later than the row's last_used.
LoginCheckCode(h) ==
  /\ h.op = "login" /\ h.pc = "find"
  /\ \E f \in Enabled, s \in Window :
       /\ Unused(f, s)
       /\ running' = Become(h, [h EXCEPT !.pc = "use", !.row = f.uuid,
                            !.data = f.data, !.step = s, !.seen = f.last_used,
                            !.code = NoCode])
  /\ UNCHANGED <<factors, recover, now, nextRow, nextCode,
                 accepted, replayed, raced, spent, uncleared>>

\* update_two_factor_last_used sets last_used whatever it is by now.
LoginUseCode(h) ==
  /\ h.op = "login" /\ h.pc = "use"
  /\ factors' = {IF f.uuid = h.row THEN [f EXCEPT !.last_used = h.step] ELSE f :
                   f \in factors}
  /\ Accept(h) /\ Race(h)
  /\ replayed' = IF \E a \in accepted : a.data = h.data /\ a.step = h.step
                 THEN replayed \cup {h.data} ELSE replayed
  /\ running' = running \ {h}
  /\ UNCHANGED <<recover, now, nextRow, nextCode, spent, uncleared>>

\* Provider 8: the recovery code of the users row read at the start.
LoginCheckRecovery(h) ==
  /\ h.op = "login" /\ h.pc = "find"
  /\ Enabled # {} /\ h.code # NoCode
  /\ running' = Goto(h, "delete")
  /\ UNCHANGED <<factors, recover, now, nextRow, nextCode,
                 accepted, replayed, raced, spent, uncleared>>

\* Mutant: the login forgets to clear the recovery code it accepted.
LoginDeleteOnly(h) ==
  /\ h.op = "login" /\ h.pc = "delete"
  /\ factors' = {}
  /\ spent' = spent \cup {h.code}
  /\ running' = running \ {h}
  /\ UNCHANGED <<recover, now, nextRow, nextCode, accepted, replayed, raced,
                 uncleared>>

LoginDeleteFactors(h) ==
  /\ h.op = "login" /\ h.pc = "delete"
  /\ factors' = {}
  /\ spent' = spent \cup {h.code}
  /\ running' = Goto(h, "clear")
  /\ UNCHANGED <<recover, now, nextRow, nextCode, accepted, replayed, raced,
                 uncleared>>

-----------------------------------------------------------------------------
\* disable_two_factor, on a row of any state.
DisableFind(h) ==
  /\ h.op = "disable" /\ h.pc = "find"
  /\ \E f \in factors :
       running' = Become(h, [h EXCEPT !.pc = "disable", !.row = f.uuid])
  /\ UNCHANGED <<factors, recover, now, nextRow, nextCode,
                 accepted, replayed, raced, spent, uncleared>>

Disable(h) ==
  /\ h.op = "disable" /\ h.pc = "disable"
  /\ factors' = {IF f.uuid = h.row THEN [f EXCEPT !.enabled = FALSE] ELSE f :
                   f \in factors}
  /\ running' = Goto(h, "remaining")
  /\ UNCHANGED <<recover, now, nextRow, nextCode, accepted, replayed, raced,
                 spent, uncleared>>

\* The recovery code goes with the last enabled factor.
DisableRemaining(h) ==
  /\ h.op = "disable" /\ h.pc = "remaining"
  /\ running' = IF \E f \in Enabled : f.uuid # h.row THEN running \ {h}
                ELSE Goto(h, "clear")
  /\ UNCHANGED <<factors, recover, now, nextRow, nextCode,
                 accepted, replayed, raced, spent, uncleared>>

\* update_user_totp_recover(None), the last statement of both paths.
ClearCode(h) ==
  /\ h.pc = "clear"
  /\ recover' = NoCode
  /\ running' = running \ {h}
  /\ UNCHANGED <<factors, now, nextRow, nextCode, accepted, replayed, raced,
                 spent, uncleared>>

\* A refused check, a failed statement or an evicted isolate.
Abandon(h) ==
  /\ running' = running \ {h}
  /\ uncleared' = IF h.op = "login" /\ h.pc = "clear"
                  THEN uncleared \cup {h.code} ELSE uncleared
  /\ UNCHANGED <<factors, recover, now, nextRow, nextCode,
                 accepted, replayed, raced, spent>>

Step(h) == \/ EnrolAgain(h) \/ EnrolFirst(h)
           \/ EnrolUpsert(h) \/ EnrolStoreCode(h)
           \/ LoginWithoutFactor(h) \/ LoginCheckCode(h) \/ LoginUseCode(h)
           \/ LoginCheckRecovery(h) \/ LoginDeleteFactors(h)
           \/ DisableFind(h) \/ Disable(h) \/ DisableRemaining(h)
           \/ ClearCode(h) \/ Abandon(h)

Next == \/ Tick \/ PostRecover
        \/ \E r \in Request, op \in {"enrol", "login", "disable"} : Begin(r, op)
        \/ \E h \in running : Step(h)

Spec == Init /\ [][Next]_vars

-----------------------------------------------------------------------------
\* Rows, handlers and histories are well formed; two_factor.uuid is unique.
TypeOK ==
  /\ factors \subseteq FactorRow
  /\ \A f, g \in factors : f.uuid = g.uuid => f = g
  /\ recover \in Nat
  /\ running \subseteq Handler
  /\ now \in Nat /\ nextRow \in Nat /\ nextCode \in Nat
  /\ accepted \subseteq Accepted
  /\ replayed \subseteq Secret /\ raced \subseteq Nat
  /\ spent \subseteq Nat /\ uncleared \subseteq Nat

\* Codes and handlers come from what was generated: recovery codes from
\* generate_recovery_code, and a handler's step from a check against `seen`.
CodesGenerated ==
  /\ 1 <= nextCode /\ recover < nextCode
  /\ \A c \in spent : 1 <= c /\ c < nextCode
  /\ \A h \in running :
       /\ h.code < nextCode
       /\ h.op = "login" /\ h.pc = "delete" => h.code # NoCode
       /\ h.op = "enrol" => h.pc # "clear"

StepsChecked ==
  \A h \in running : /\ h.pc = "upsert" => h.step >= h.seen
                     /\ h.pc = "use" => h.step > h.seen
                     /\ h.pc = "find" => h.seen = 0

\* last_used has reached every code accepted through its row, unless the row
\* changed under a handler.
LastUsedIsFloor ==
  \A f \in factors : f.uuid \notin raced =>
    \A a \in accepted : a.uuid = f.uuid => a.step <= f.last_used

\* A login accepts no code a second time, unless two handlers wrote one row's
\* last_used at the same time, or the code's secret was enrolled in two rows
\* (a recovery login deletes last_used with the row).  Disabling, enrolling
\* again, and stopping after any statement never revive a code.
ReplayExplained ==
  \A k \in replayed :
    \/ \E a \in accepted : a.data = k /\ a.uuid \in raced
    \/ \E a, b \in accepted : a.data = k /\ b.data = k /\ a.uuid # b.uuid

\* A recovery code a login has accepted is still stored only while that login
\* has not cleared it, or because it never did.
SpentRecoveryExplained ==
  recover \in spent =>
    \/ recover \in uncleared
    \/ \E h \in running : h.op = "login" /\ h.pc = "clear" /\ h.code = recover

\* The comment in post_authenticator and the one on validate_totp: a code that
\* was accepted is not accepted again by a login.
CodeNotReplayed == replayed = {}
=============================================================================
