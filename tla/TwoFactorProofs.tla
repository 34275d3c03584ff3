-------------------------- MODULE TwoFactorProofs --------------------------
(***************************************************************************)
(* Proofs about TwoFactor, for any secrets, number of concurrent requests   *)
(* and bounds.                                                              *)
(***************************************************************************)
EXTENDS TwoFactor, TLAPS

\* A handler that holds a code holds the secret it was made from.
DataKnown == \A h \in running : h.pc \in {"upsert", "use"} => h.data \in Secret

TypeInv == TypeOK /\ DataKnown

-----------------------------------------------------------------------------
(* What a step makes of a handler. *)

LEMMA WindowInNat == ASSUME TypeOK PROVE Window \subseteq Nat
BY DEF Window, TypeOK

LEMMA GotoType ==
  ASSUME TypeInv, NEW h \in running,
         NEW pc \in {"store_code", "delete", "remaining", "clear"}
  PROVE  /\ Goto(h, pc) \subseteq Handler
         /\ \A g \in Goto(h, pc) : g.pc \in {"upsert", "use"} => g.data \in Secret
BY DEF Goto, Become, TypeInv, TypeOK, DataKnown, Handler

LEMMA BecomeType ==
  ASSUME TypeInv, NEW h \in running, NEW new \in Handler,
         new.pc \in {"upsert", "use"} => new.data \in Secret
  PROVE  /\ Become(h, new) \subseteq Handler
         /\ \A g \in Become(h, new) :
              g.pc \in {"upsert", "use"} => g.data \in Secret
BY DEF Become, TypeInv, TypeOK, DataKnown

LEMMA AcceptType ==
  ASSUME TypeInv, NEW h \in running, h.data \in Secret, Accept(h), Race(h)
  PROVE  accepted' \subseteq Accepted /\ raced' \subseteq Nat
<1>1. h.row \in Nat /\ h.step \in Nat
  BY DEF TypeInv, TypeOK, Handler, RowId
<1>2. [uuid |-> h.row, data |-> h.data, step |-> h.step] \in Accepted
  BY <1>1 DEF Accepted, RowId
<1>3. accepted' \subseteq Accepted
  BY <1>2 DEF Accept, TypeInv, TypeOK
<1>4. raced' \subseteq Nat
  BY <1>1 DEF Race, TypeInv, TypeOK
<1>. QED BY <1>3, <1>4

\* A step that changes nothing but the handlers.
LEMMA OnlyRunning ==
  ASSUME TypeInv, running' \subseteq Handler,
         \A g \in running' : g.pc \in {"upsert", "use"} => g.data \in Secret,
         UNCHANGED <<factors, recover, now, nextCode, accepted, replayed,
                     raced, spent, uncleared>>,
         nextRow' \in Nat
  PROVE  TypeInv'
BY DEF TypeInv, TypeOK, DataKnown

-----------------------------------------------------------------------------
(* Type correctness. *)

LEMMA TypeInit == Init => TypeInv
BY DEF Init, TypeInv, TypeOK, DataKnown, NoCode

LEMMA BeginType ==
  ASSUME TypeInv, NEW r \in Request, NEW op \in {"enrol", "login", "disable"},
         Begin(r, op)
  PROVE  TypeInv'
<1>. DEFINE new == [id |-> r, op |-> op, pc |-> "find", row |-> 0,
                    data |-> NoSecret, step |-> 0, seen |-> 0,
                    code |-> IF op = "disable" THEN NoCode ELSE recover]
<1>1. new \in Handler /\ new.pc = "find"
  BY DEF Handler, RowId, NoCode, TypeInv, TypeOK
<1>2. running' = running \cup {new}
  BY DEF Begin
<1>. HIDE DEF new
<1>3. /\ running' \subseteq Handler
      /\ \A g \in running' : g.pc \in {"upsert", "use"} => g.data \in Secret
  BY <1>1, <1>2 DEF TypeInv, TypeOK, DataKnown
<1>4. nextRow' \in Nat
  BY DEF Begin, TypeInv, TypeOK
<1>. QED BY <1>3, <1>4, OnlyRunning DEF Begin

LEMMA EnrolAgainType ==
  ASSUME TypeInv, NEW h \in running, EnrolAgain(h) PROVE TypeInv'
<1>1. PICK k \in Secret, s \in Window, f \in factors :
        running' = Become(h, [h EXCEPT !.pc = "upsert", !.row = f.uuid,
                            !.data = k, !.step = s, !.seen = f.last_used])
  BY DEF EnrolAgain
<1>. DEFINE new == [h EXCEPT !.pc = "upsert", !.row = f.uuid,
                            !.data = k, !.step = s, !.seen = f.last_used]
<1>2. h \in Handler /\ s \in Nat /\ f.uuid \in Nat /\ f.last_used \in Nat
  BY WindowInNat DEF TypeInv, TypeOK, FactorRow, RowId
<1>3. new \in Handler /\ new.data \in Secret
  BY <1>2 DEF Handler, RowId
<1>4. /\ running' \subseteq Handler
      /\ \A g \in running' : g.pc \in {"upsert", "use"} => g.data \in Secret
  BY <1>1, <1>3, BecomeType
<1>5. nextRow' \in Nat
  BY DEF EnrolAgain, TypeInv, TypeOK
<1>. QED BY <1>4, <1>5, OnlyRunning DEF EnrolAgain

LEMMA EnrolFirstType ==
  ASSUME TypeInv, NEW h \in running, EnrolFirst(h) PROVE TypeInv'
<1>1. PICK k \in Secret, s \in Window :
        running' = Become(h, [h EXCEPT !.pc = "upsert", !.row = nextRow,
                            !.data = k, !.step = s])
  BY DEF EnrolFirst
<1>. DEFINE new == [h EXCEPT !.pc = "upsert", !.row = nextRow,
                            !.data = k, !.step = s]
<1>2. h \in Handler /\ s \in Nat /\ nextRow \in Nat
  BY WindowInNat DEF TypeInv, TypeOK
<1>3. new \in Handler /\ new.data \in Secret
  BY <1>2 DEF Handler, RowId
<1>4. /\ running' \subseteq Handler
      /\ \A g \in running' : g.pc \in {"upsert", "use"} => g.data \in Secret
  BY <1>1, <1>3, BecomeType
<1>5. nextRow' \in Nat
  BY <1>2 DEF EnrolFirst
<1>. QED BY <1>4, <1>5, OnlyRunning DEF EnrolFirst

LEMMA EnrolUpsertType ==
  ASSUME TypeInv, NEW h \in running, EnrolUpsert(h) PROVE TypeInv'
<1>1. h.data \in Secret /\ h.row \in Nat /\ h.step \in Nat
  BY DEF EnrolUpsert, TypeInv, TypeOK, DataKnown, Handler, RowId
<1>2. accepted' \subseteq Accepted /\ raced' \subseteq Nat
  BY <1>1, AcceptType DEF EnrolUpsert
<1>. DEFINE row == [uuid |-> h.row, enabled |-> TRUE, data |-> h.data,
                    last_used |-> h.step]
<1>3. row \in FactorRow /\ row.uuid = h.row
  BY <1>1 DEF FactorRow, RowId
<1>4. factors' = {f \in factors : f.uuid # h.row} \cup {row}
  BY DEF EnrolUpsert
<1>. HIDE DEF row
<1>5. /\ factors' \subseteq FactorRow
      /\ \A f, g \in factors' : f.uuid = g.uuid => f = g
  BY <1>3, <1>4 DEF TypeInv, TypeOK
<1>6. /\ running' \subseteq Handler
      /\ \A g \in running' : g.pc \in {"upsert", "use"} => g.data \in Secret
  BY GotoType DEF EnrolUpsert, TypeInv, TypeOK, DataKnown
<1>7. UNCHANGED <<recover, now, nextRow, nextCode, replayed, spent, uncleared>>
  BY DEF EnrolUpsert
<1>. QED BY <1>2, <1>5, <1>6, <1>7 DEF TypeInv, TypeOK, DataKnown

LEMMA LoginCheckCodeType ==
  ASSUME TypeInv, NEW h \in running, LoginCheckCode(h) PROVE TypeInv'
<1>1. PICK f \in factors, s \in Window :
        running' = Become(h, [h EXCEPT !.pc = "use", !.row = f.uuid,
                            !.data = f.data, !.step = s, !.seen = f.last_used,
                            !.code = NoCode])
  BY DEF LoginCheckCode, Enabled
<1>. DEFINE new == [h EXCEPT !.pc = "use", !.row = f.uuid,
                            !.data = f.data, !.step = s, !.seen = f.last_used,
                            !.code = NoCode]
<1>2. /\ h \in Handler /\ s \in Nat
      /\ f.uuid \in Nat /\ f.last_used \in Nat /\ f.data \in Secret
  BY WindowInNat DEF TypeInv, TypeOK, FactorRow, RowId
<1>3. new \in Handler /\ new.data \in Secret
  BY <1>2 DEF Handler, RowId, NoCode
<1>4. /\ running' \subseteq Handler
      /\ \A g \in running' : g.pc \in {"upsert", "use"} => g.data \in Secret
  BY <1>1, <1>3, BecomeType
<1>5. nextRow' \in Nat
  BY DEF LoginCheckCode, TypeInv, TypeOK
<1>. QED BY <1>4, <1>5, OnlyRunning DEF LoginCheckCode

LEMMA LoginUseCodeType ==
  ASSUME TypeInv, NEW h \in running, LoginUseCode(h) PROVE TypeInv'
<1>1. h.data \in Secret /\ h.step \in Nat
  BY DEF LoginUseCode, TypeInv, TypeOK, DataKnown, Handler
<1>2. accepted' \subseteq Accepted /\ raced' \subseteq Nat
  BY <1>1, AcceptType DEF LoginUseCode
<1>3. /\ factors' \subseteq FactorRow
      /\ \A f, g \in factors' : f.uuid = g.uuid => f = g
  BY <1>1 DEF LoginUseCode, TypeInv, TypeOK, FactorRow
<1>4. replayed' \subseteq Secret /\ running' \subseteq running
  BY <1>1 DEF LoginUseCode, TypeInv, TypeOK
<1>5. UNCHANGED <<recover, now, nextRow, nextCode, spent, uncleared>>
  BY DEF LoginUseCode
<1>. QED BY <1>2, <1>3, <1>4, <1>5 DEF TypeInv, TypeOK, DataKnown

LEMMA LoginDeleteFactorsType ==
  ASSUME TypeInv, NEW h \in running, LoginDeleteFactors(h) PROVE TypeInv'
<1>1. /\ running' \subseteq Handler
      /\ \A g \in running' : g.pc \in {"upsert", "use"} => g.data \in Secret
  BY GotoType DEF LoginDeleteFactors
<1>2. factors' = {} /\ spent' \subseteq Nat
  BY DEF LoginDeleteFactors, TypeInv, TypeOK, Handler
<1>3. UNCHANGED <<recover, now, nextRow, nextCode, accepted, replayed, raced,
                  uncleared>>
  BY DEF LoginDeleteFactors
<1>. QED BY <1>1, <1>2, <1>3 DEF TypeInv, TypeOK, DataKnown

LEMMA DisableType ==
  ASSUME TypeInv, NEW h \in running, Disable(h) PROVE TypeInv'
<1>1. /\ running' \subseteq Handler
      /\ \A g \in running' : g.pc \in {"upsert", "use"} => g.data \in Secret
  BY GotoType DEF Disable
<1>2. /\ factors' \subseteq FactorRow
      /\ \A f, g \in factors' : f.uuid = g.uuid => f = g
  <2>1. \A f \in FactorRow : /\ [f EXCEPT !.enabled = FALSE] \in FactorRow
                             /\ [f EXCEPT !.enabled = FALSE].uuid = f.uuid
    BY DEF FactorRow
  <2>. DEFINE off(g) == IF g.uuid = h.row THEN [g EXCEPT !.enabled = FALSE]
                        ELSE g
  <2>2. \A g \in factors : off(g) \in FactorRow /\ off(g).uuid = g.uuid
    BY <2>1 DEF TypeInv, TypeOK
  <2>3. factors' = {off(g) : g \in factors}
    BY DEF Disable
  <2>. HIDE DEF off
  <2>. QED BY <2>2, <2>3 DEF TypeInv, TypeOK
<1>3. UNCHANGED <<recover, now, nextRow, nextCode, accepted, replayed, raced,
                  spent, uncleared>>
  BY DEF Disable
<1>. QED BY <1>1, <1>2, <1>3 DEF TypeInv, TypeOK, DataKnown

\* The steps that only move a handler on, or end it.
LEMMA MoveType ==
  ASSUME TypeInv, NEW h \in running,
         \/ LoginWithoutFactor(h) \/ LoginCheckRecovery(h)
         \/ DisableFind(h) \/ DisableRemaining(h)
  PROVE  TypeInv'
<1>1. ASSUME LoginWithoutFactor(h) \/ LoginCheckRecovery(h) \/ DisableRemaining(h)
      PROVE  /\ running' \subseteq Handler
             /\ \A g \in running' : g.pc \in {"upsert", "use"} => g.data \in Secret
  BY <1>1, GotoType DEF LoginWithoutFactor, LoginCheckRecovery,
                        DisableRemaining, TypeInv, TypeOK, DataKnown
<1>2. ASSUME DisableFind(h)
      PROVE  /\ running' \subseteq Handler
             /\ \A g \in running' : g.pc \in {"upsert", "use"} => g.data \in Secret
  <2>1. PICK f \in factors :
          running' = Become(h, [h EXCEPT !.pc = "disable", !.row = f.uuid])
    BY <1>2 DEF DisableFind
  <2>2. [h EXCEPT !.pc = "disable", !.row = f.uuid] \in Handler
        /\ [h EXCEPT !.pc = "disable", !.row = f.uuid].pc = "disable"
    BY DEF TypeInv, TypeOK, Handler, FactorRow
  <2>. QED BY <2>1, <2>2, BecomeType
<1>3. nextRow' \in Nat
  BY DEF LoginWithoutFactor, LoginCheckRecovery, DisableFind, DisableRemaining,
         TypeInv, TypeOK
<1>4. UNCHANGED <<factors, recover, now, nextCode, accepted, replayed,
                  raced, spent, uncleared>>
  BY DEF LoginWithoutFactor, LoginCheckRecovery, DisableFind, DisableRemaining
<1>. QED BY <1>1, <1>2, <1>3, <1>4, OnlyRunning

\* The steps that store or clear the recovery code, and giving up.
LEMMA CodeType ==
  ASSUME TypeInv, NEW h \in running,
         EnrolStoreCode(h) \/ ClearCode(h) \/ Abandon(h)
  PROVE  TypeInv'
<1>1. CASE EnrolStoreCode(h)
  BY <1>1 DEF EnrolStoreCode, TypeInv, TypeOK, DataKnown
<1>2. CASE ClearCode(h)
  BY <1>2 DEF ClearCode, NoCode, TypeInv, TypeOK, DataKnown
<1>3. CASE Abandon(h)
  <2>1. uncleared' \subseteq Nat /\ running' \subseteq running
    BY <1>3 DEF Abandon, TypeInv, TypeOK, Handler
  <2>2. UNCHANGED <<factors, recover, now, nextRow, nextCode,
                    accepted, replayed, raced, spent>>
    BY <1>3 DEF Abandon
  <2>. QED BY <2>1, <2>2 DEF TypeInv, TypeOK, DataKnown
<1>. QED BY <1>1, <1>2, <1>3

LEMMA TypeStep == ASSUME TypeInv, [Next]_vars PROVE TypeInv'
<1>1. CASE Tick
  BY <1>1 DEF Tick, TypeInv, TypeOK, DataKnown
<1>2. CASE PostRecover
  BY <1>2 DEF PostRecover, TypeInv, TypeOK, DataKnown
<1>3. CASE UNCHANGED vars
  BY <1>3 DEF vars, TypeInv, TypeOK, DataKnown
<1>. QED BY <1>1, <1>2, <1>3, BeginType, EnrolAgainType, EnrolFirstType,
            EnrolUpsertType, LoginCheckCodeType, LoginUseCodeType,
            LoginDeleteFactorsType, DisableType, MoveType, CodeType
         DEF Next, Step

\* The rows of two_factor, the recovery code and every handler stay well
\* formed, and two_factor.uuid stays unique, whatever the handlers interleave.
THEOREM TypeCorrect == Spec => []TypeOK
<1>1. TypeInv => TypeOK
  BY DEF TypeInv
<1>. QED BY <1>1, TypeInit, TypeStep, PTL DEF Spec

-----------------------------------------------------------------------------
(* A recovery code that was accepted, and where it can still be found. *)

RecoveryInv == TypeInv /\ CodesGenerated /\ SpentRecoveryExplained

LEMMA RecoveryInit == Init => RecoveryInv
<1>1. Init => CodesGenerated /\ SpentRecoveryExplained
  BY DEF Init, CodesGenerated, SpentRecoveryExplained, NoCode
<1>. QED BY <1>1, TypeInit DEF RecoveryInv

\* The handlers a step leaves or makes hold codes that exist, and a login past
\* the deletion of the factors is still there.
LEMMA CodesStep == ASSUME RecoveryInv, [Next]_vars PROVE CodesGenerated'
<1>. USE DEF RecoveryInv
<1>0. CASE PostRecover
  BY <1>0 DEF PostRecover, CodesGenerated, TypeInv, TypeOK, Handler
<1>1. CASE Tick \/ UNCHANGED vars
  BY <1>1 DEF Tick, vars, CodesGenerated
<1>2. ASSUME NEW r \in Request, NEW op \in {"enrol", "login", "disable"},
             Begin(r, op)
      PROVE  CodesGenerated'
  BY <1>2 DEF Begin, CodesGenerated, NoCode, TypeInv, TypeOK
<1>3. ASSUME NEW h \in running, EnrolAgain(h) PROVE CodesGenerated'
  BY <1>3 DEF EnrolAgain, Become, CodesGenerated, TypeInv, TypeOK, Handler
<1>4. ASSUME NEW h \in running, EnrolFirst(h) PROVE CodesGenerated'
  BY <1>4 DEF EnrolFirst, Become, CodesGenerated, TypeInv, TypeOK, Handler
<1>5. ASSUME NEW h \in running, LoginCheckCode(h) PROVE CodesGenerated'
  <2>1. PICK f \in factors, s \in Window :
          running' = Become(h, [h EXCEPT !.pc = "use", !.row = f.uuid,
                            !.data = f.data, !.step = s, !.seen = f.last_used,
                            !.code = NoCode])
    BY <1>5 DEF LoginCheckCode, Enabled
  <2>. DEFINE new == [h EXCEPT !.pc = "use", !.row = f.uuid,
                            !.data = f.data, !.step = s, !.seen = f.last_used,
                            !.code = NoCode]
  <2>2. new.code = NoCode /\ new.pc = "use"
    BY DEF TypeInv, TypeOK, Handler
  <2>. HIDE DEF new
  <2>3. running' \subseteq running \cup {new}
    BY <2>1 DEF Become, new
  <2>4. UNCHANGED <<recover, nextCode, spent>>
    BY <1>5 DEF LoginCheckCode
  <2>5. NoCode < nextCode
    BY DEF CodesGenerated, NoCode, TypeInv, TypeOK
  <2>. QED BY <2>2, <2>3, <2>4, <2>5 DEF CodesGenerated
<1>6. ASSUME NEW h \in running, DisableFind(h) PROVE CodesGenerated'
  BY <1>6 DEF DisableFind, Become, CodesGenerated, TypeInv, TypeOK, Handler
<1>7. ASSUME NEW h \in running, EnrolUpsert(h) PROVE CodesGenerated'
  BY <1>7 DEF EnrolUpsert, Goto, Become, CodesGenerated, TypeInv, TypeOK,
              Handler
<1>8. ASSUME NEW h \in running, LoginCheckRecovery(h) PROVE CodesGenerated'
  BY <1>8 DEF LoginCheckRecovery, Goto, Become, CodesGenerated, TypeInv,
              TypeOK, Handler
<1>9. ASSUME NEW h \in running, LoginDeleteFactors(h) PROVE CodesGenerated'
  BY <1>9 DEF LoginDeleteFactors, Goto, Become, CodesGenerated, NoCode,
              TypeInv, TypeOK, Handler
<1>10. ASSUME NEW h \in running, Disable(h) \/ DisableRemaining(h)
       PROVE  CodesGenerated'
  BY <1>10 DEF Disable, DisableRemaining, Goto, Become, CodesGenerated,
               TypeInv, TypeOK, Handler
<1>11. ASSUME NEW h \in running, EnrolStoreCode(h) PROVE CodesGenerated'
  BY <1>11 DEF EnrolStoreCode, CodesGenerated, TypeInv, TypeOK, Handler
<1>12. ASSUME NEW h \in running, ClearCode(h) PROVE CodesGenerated'
  BY <1>12 DEF ClearCode, CodesGenerated, NoCode, TypeInv, TypeOK, Handler
<1>13. ASSUME NEW h \in running,
              LoginWithoutFactor(h) \/ LoginUseCode(h) \/ Abandon(h)
       PROVE  CodesGenerated'
  BY <1>13 DEF LoginWithoutFactor, LoginUseCode, Abandon, CodesGenerated
<1>. QED BY <1>0, <1>1, <1>2, <1>3, <1>4, <1>5, <1>6, <1>7, <1>8, <1>9, <1>10,
            <1>11, <1>12, <1>13 DEF Next, Step

\* A step that leaves the code, its histories and the clearing logins alone.
LEMMA RecoveryKept ==
  ASSUME RecoveryInv, UNCHANGED <<recover, spent, uncleared>>,
         \A g \in running : g.pc = "clear" => g \in running'
  PROVE  SpentRecoveryExplained'
BY DEF RecoveryInv, SpentRecoveryExplained

LEMMA SpentStep ==
  ASSUME RecoveryInv, [Next]_vars PROVE SpentRecoveryExplained'
<1>. USE DEF RecoveryInv
<1>1. CASE Tick \/ UNCHANGED vars
  BY <1>1, RecoveryKept DEF Tick, vars
<1>2. CASE PostRecover
  BY <1>2 DEF PostRecover, SpentRecoveryExplained, CodesGenerated, TypeInv,
              TypeOK
<1>3. ASSUME NEW r \in Request, NEW op \in {"enrol", "login", "disable"},
             Begin(r, op)
      PROVE  SpentRecoveryExplained'
  BY <1>3, RecoveryKept DEF Begin
<1>4. ASSUME NEW h \in running,
             \/ EnrolAgain(h) \/ EnrolFirst(h) \/ EnrolUpsert(h)
             \/ LoginWithoutFactor(h) \/ LoginCheckCode(h) \/ LoginUseCode(h)
             \/ LoginCheckRecovery(h)
             \/ DisableFind(h) \/ Disable(h) \/ DisableRemaining(h)
      PROVE  SpentRecoveryExplained'
  <2>1. h.pc # "clear" /\ UNCHANGED <<recover, spent, uncleared>>
    BY <1>4 DEF EnrolAgain, EnrolFirst, EnrolUpsert, LoginWithoutFactor,
                LoginCheckCode, LoginUseCode, LoginCheckRecovery, DisableFind,
                Disable, DisableRemaining
  <2>2. running \ {h} \subseteq running'
    BY <1>4 DEF EnrolAgain, EnrolFirst, EnrolUpsert, LoginWithoutFactor,
                LoginCheckCode, LoginUseCode, LoginCheckRecovery, DisableFind,
                Disable, DisableRemaining, Goto, Become
  <2>. QED BY <2>1, <2>2, RecoveryKept
<1>5. ASSUME NEW h \in running, EnrolStoreCode(h)
      PROVE  SpentRecoveryExplained'
  BY <1>5 DEF EnrolStoreCode, SpentRecoveryExplained, CodesGenerated, TypeInv,
              TypeOK
<1>6. ASSUME NEW h \in running, LoginDeleteFactors(h)
      PROVE  SpentRecoveryExplained'
  <2>. DEFINE new == [h EXCEPT !.pc = "clear"]
  <2>1. new \in running' /\ new.op = "login" /\ new.pc = "clear"
        /\ new.code = h.code
    BY <1>6 DEF LoginDeleteFactors, Goto, Become, TypeInv, TypeOK, Handler
  <2>2. /\ h.pc # "clear" /\ running \ {h} \subseteq running'
        /\ UNCHANGED <<recover, uncleared>> /\ spent' = spent \cup {h.code}
    BY <1>6 DEF LoginDeleteFactors, Goto, Become
  <2>. QED BY <2>1, <2>2 DEF SpentRecoveryExplained
<1>7. ASSUME NEW h \in running, ClearCode(h) PROVE SpentRecoveryExplained'
  BY <1>7 DEF ClearCode, SpentRecoveryExplained, CodesGenerated, NoCode
<1>8. ASSUME NEW h \in running, Abandon(h) PROVE SpentRecoveryExplained'
  BY <1>8 DEF Abandon, SpentRecoveryExplained
<1>. QED BY <1>1, <1>2, <1>3, <1>4, <1>5, <1>6, <1>7, <1>8 DEF Next, Step

LEMMA RecoveryStep == ASSUME RecoveryInv, [Next]_vars PROVE RecoveryInv'
BY TypeStep, CodesStep, SpentStep DEF RecoveryInv

\* A recovery code that let someone in never comes back into users.totp_recover:
\* it is found there only until the login's last statement, or because that
\* statement never ran.
THEOREM SpentRecovery == Spec => []SpentRecoveryExplained
<1>1. RecoveryInv => SpentRecoveryExplained
  BY DEF RecoveryInv
<1>. QED BY <1>1, RecoveryInit, RecoveryStep, PTL DEF Spec

-----------------------------------------------------------------------------
(* A code that was accepted, and why it can be accepted again. *)

ReplayInv == TypeInv /\ StepsChecked /\ LastUsedIsFloor /\ ReplayExplained

LEMMA ReplayInit == Init => ReplayInv
<1>1. Init => StepsChecked /\ LastUsedIsFloor /\ ReplayExplained
  BY DEF Init, StepsChecked, LastUsedIsFloor, ReplayExplained
<1>. QED BY <1>1, TypeInit DEF ReplayInv

LEMMA StepsCheckedStep ==
  ASSUME ReplayInv, [Next]_vars PROVE StepsChecked'
<1>. USE DEF ReplayInv
<1>1. CASE Tick \/ PostRecover \/ UNCHANGED vars
  BY <1>1 DEF Tick, PostRecover, vars, StepsChecked
<1>2. ASSUME NEW r \in Request, NEW op \in {"enrol", "login", "disable"},
             Begin(r, op)
      PROVE  StepsChecked'
  BY <1>2 DEF Begin, StepsChecked
<1>3. ASSUME NEW h \in running, EnrolAgain(h) PROVE StepsChecked'
  <2>1. PICK k \in Secret, s \in Window, f \in factors :
          /\ s > f.last_used
          /\ running' = Become(h, [h EXCEPT !.pc = "upsert", !.row = f.uuid,
                              !.data = k, !.step = s, !.seen = f.last_used])
    BY <1>3 DEF EnrolAgain, Unused
  <2>. DEFINE new == [h EXCEPT !.pc = "upsert", !.row = f.uuid,
                              !.data = k, !.step = s, !.seen = f.last_used]
  <2>2. /\ new.pc = "upsert" /\ new.step = s /\ new.seen = f.last_used
        /\ s \in Nat /\ f.last_used \in Nat
    BY WindowInNat DEF TypeInv, TypeOK, Handler, FactorRow
  <2>. HIDE DEF new
  <2>3. running' \subseteq running \cup {new}
    BY <2>1 DEF Become, new
  <2>. QED BY <2>1, <2>2, <2>3 DEF StepsChecked
<1>4. ASSUME NEW h \in running, EnrolFirst(h) PROVE StepsChecked'
  <2>1. PICK k \in Secret, s \in Window :
          running' = Become(h, [h EXCEPT !.pc = "upsert", !.row = nextRow,
                              !.data = k, !.step = s])
    BY <1>4 DEF EnrolFirst
  <2>. DEFINE new == [h EXCEPT !.pc = "upsert", !.row = nextRow,
                              !.data = k, !.step = s]
  <2>2. new.pc = "upsert" /\ new.step = s /\ new.seen = h.seen /\ s \in Nat
    BY WindowInNat DEF TypeInv, TypeOK, Handler
  <2>3. h.seen = 0
    BY <1>4 DEF EnrolFirst, StepsChecked
  <2>. HIDE DEF new
  <2>4. running' \subseteq running \cup {new}
    BY <2>1 DEF Become, new
  <2>. QED BY <2>2, <2>3, <2>4 DEF StepsChecked
<1>5. ASSUME NEW h \in running, LoginCheckCode(h) PROVE StepsChecked'
  <2>1. PICK f \in factors, s \in Window :
          /\ s > f.last_used
          /\ running' = Become(h, [h EXCEPT !.pc = "use", !.row = f.uuid,
                            !.data = f.data, !.step = s, !.seen = f.last_used,
                            !.code = NoCode])
    BY <1>5 DEF LoginCheckCode, Enabled, Unused
  <2>. DEFINE new == [h EXCEPT !.pc = "use", !.row = f.uuid,
                            !.data = f.data, !.step = s, !.seen = f.last_used,
                            !.code = NoCode]
  <2>2. new.pc = "use" /\ new.step = s /\ new.seen = f.last_used
    BY DEF TypeInv, TypeOK, Handler
  <2>. HIDE DEF new
  <2>3. running' \subseteq running \cup {new}
    BY <2>1 DEF Become, new
  <2>. QED BY <2>1, <2>2, <2>3 DEF StepsChecked
<1>6. ASSUME NEW h \in running, DisableFind(h) PROVE StepsChecked'
  BY <1>6 DEF DisableFind, Become, StepsChecked, TypeInv, TypeOK, Handler
<1>7. ASSUME NEW h \in running,
             \/ EnrolUpsert(h) \/ LoginCheckRecovery(h)
             \/ LoginDeleteFactors(h) \/ Disable(h) \/ DisableRemaining(h)
      PROVE  StepsChecked'
  <2>1. PICK pc \in {"store_code", "delete", "clear", "remaining"} :
          running' \subseteq running \cup {[h EXCEPT !.pc = pc]}
    BY <1>7 DEF EnrolUpsert, LoginCheckRecovery, LoginDeleteFactors, Disable,
                DisableRemaining, Goto, Become
  <2>2. [h EXCEPT !.pc = pc].pc = pc
    BY DEF TypeInv, TypeOK, Handler
  <2>. QED BY <2>1, <2>2 DEF StepsChecked
<1>8. ASSUME NEW h \in running,
             \/ EnrolStoreCode(h) \/ LoginWithoutFactor(h) \/ LoginUseCode(h)
             \/ ClearCode(h) \/ Abandon(h)
      PROVE  StepsChecked'
  BY <1>8 DEF EnrolStoreCode, LoginWithoutFactor, LoginUseCode, ClearCode,
              Abandon, StepsChecked
<1>. QED BY <1>1, <1>2, <1>3, <1>4, <1>5, <1>6, <1>7, <1>8 DEF Next, Step

\* What a handler's last_used check still means when its row did not change.
LEMMA FloorAtWriter ==
  ASSUME ReplayInv, NEW h \in running, ~Changed(h), h.row \notin raced,
         NEW a \in accepted, a.uuid = h.row
  PROVE  a.step <= h.seen
<1>1. PICK f \in factors : f.uuid = h.row /\ f.last_used = h.seen
  BY DEF Changed
<1>. QED BY <1>1 DEF ReplayInv, LastUsedIsFloor

LEMMA FloorStep == ASSUME ReplayInv, [Next]_vars PROVE LastUsedIsFloor'
<1>1. ASSUME UNCHANGED <<factors, accepted, raced>> PROVE LastUsedIsFloor'
  BY <1>1 DEF ReplayInv, LastUsedIsFloor
<1>2. ASSUME NEW h \in running, Accept(h), Race(h), h.step >= h.seen,
             \A f \in factors' : f.uuid = h.row => f.last_used = h.step,
             \A f \in factors' : f.uuid # h.row => f \in factors
      PROVE  LastUsedIsFloor'
  <2>. SUFFICES ASSUME NEW f \in factors', f.uuid \notin raced',
                       NEW a \in accepted', a.uuid = f.uuid
                PROVE  a.step <= f.last_used
    BY DEF LastUsedIsFloor
  <2>0. /\ raced \subseteq raced' /\ h.step \in Nat /\ h.seen \in Nat
        /\ \A b \in accepted : b.step \in Nat
    BY <1>2 DEF Race, ReplayInv, TypeInv, TypeOK, Handler, Accepted
  <2>1. CASE f.uuid # h.row
    BY <1>2, <2>0, <2>1 DEF Accept, ReplayInv, LastUsedIsFloor
  <2>2. CASE f.uuid = h.row /\ a \in accepted
    <3>1. ~Changed(h) /\ h.row \notin raced
      BY <1>2, <2>0, <2>2 DEF Race
    <3>2. a.step <= h.seen
      BY <2>2, <3>1, FloorAtWriter
    <3>. QED BY <1>2, <2>0, <2>2, <3>2
  <2>3. CASE f.uuid = h.row /\ a \notin accepted
    <3>1. a.step = h.step
      BY <1>2, <2>3 DEF Accept
    <3>. QED BY <1>2, <2>0, <2>3, <3>1
  <2>. QED BY <2>1, <2>2, <2>3
<1>3. ASSUME NEW h \in running, EnrolUpsert(h) PROVE LastUsedIsFloor'
  <2>1. h.step >= h.seen
    BY <1>3 DEF EnrolUpsert, ReplayInv, StepsChecked
  <2>2. /\ \A f \in factors' : f.uuid = h.row => f.last_used = h.step
        /\ \A f \in factors' : f.uuid # h.row => f \in factors
    BY <1>3 DEF EnrolUpsert
  <2>. QED BY <1>2, <1>3, <2>1, <2>2 DEF EnrolUpsert
<1>4. ASSUME NEW h \in running, LoginUseCode(h) PROVE LastUsedIsFloor'
  <2>1. h.step >= h.seen
    BY <1>4 DEF LoginUseCode, ReplayInv, StepsChecked, TypeInv, TypeOK, Handler
  <2>2. /\ \A f \in factors' : f.uuid = h.row => f.last_used = h.step
        /\ \A f \in factors' : f.uuid # h.row => f \in factors
    <3>1. \A f \in factors : /\ [f EXCEPT !.last_used = h.step].last_used = h.step
                            /\ [f EXCEPT !.last_used = h.step].uuid = f.uuid
      BY DEF ReplayInv, TypeInv, TypeOK, FactorRow
    <3>. QED BY <1>4, <3>1 DEF LoginUseCode
  <2>. QED BY <1>2, <1>4, <2>1, <2>2 DEF LoginUseCode
<1>5. ASSUME NEW h \in running, LoginDeleteFactors(h) PROVE LastUsedIsFloor'
  BY <1>5 DEF LoginDeleteFactors, LastUsedIsFloor
<1>6. ASSUME NEW h \in running, Disable(h) PROVE LastUsedIsFloor'
  <2>1. \A f \in factors' : \E g \in factors :
          f.uuid = g.uuid /\ f.last_used = g.last_used
    BY <1>6 DEF Disable, ReplayInv, TypeInv, TypeOK, FactorRow
  <2>2. accepted' = accepted /\ raced' = raced
    BY <1>6 DEF Disable
  <2>. QED BY <2>1, <2>2 DEF ReplayInv, LastUsedIsFloor
<1>7. CASE Tick \/ PostRecover \/ UNCHANGED vars
  BY <1>1, <1>7 DEF Tick, PostRecover, vars
<1>8. ASSUME NEW r \in Request, NEW op \in {"enrol", "login", "disable"},
             Begin(r, op)
      PROVE  LastUsedIsFloor'
  BY <1>1, <1>8 DEF Begin
<1>9. ASSUME NEW h \in running,
             \/ EnrolAgain(h) \/ EnrolFirst(h) \/ EnrolStoreCode(h)
             \/ LoginWithoutFactor(h) \/ LoginCheckCode(h)
             \/ LoginCheckRecovery(h) \/ DisableFind(h) \/ DisableRemaining(h)
             \/ ClearCode(h) \/ Abandon(h)
      PROVE  LastUsedIsFloor'
  BY <1>1, <1>9 DEF EnrolAgain, EnrolFirst, EnrolStoreCode, LoginWithoutFactor,
                    LoginCheckCode, LoginCheckRecovery, DisableFind,
                    DisableRemaining, ClearCode, Abandon
<1>. QED BY <1>3, <1>4, <1>5, <1>6, <1>7, <1>8, <1>9 DEF Next, Step

\* The login that accepts a code again finds the earlier acceptance: through
\* another row, or through its own, which then changed under a handler.
LEMMA ReplayStep == ASSUME ReplayInv, [Next]_vars PROVE ReplayExplained'
<1>1. ASSUME replayed' = replayed, accepted \subseteq accepted',
             raced \subseteq raced'
      PROVE  ReplayExplained'
  BY <1>1 DEF ReplayInv, ReplayExplained
<1>2. ASSUME NEW h \in running, LoginUseCode(h) PROVE ReplayExplained'
  <2>0. accepted \subseteq accepted' /\ raced \subseteq raced'
    BY <1>2 DEF LoginUseCode, Accept, Race
  <2>. SUFFICES ASSUME NEW k \in replayed'
                PROVE  \/ \E a \in accepted' : a.data = k /\ a.uuid \in raced'
                       \/ \E a, b \in accepted' :
                            a.data = k /\ b.data = k /\ a.uuid # b.uuid
    BY DEF ReplayExplained
  <2>1. CASE k \in replayed
    BY <2>0, <2>1 DEF ReplayInv, ReplayExplained
  <2>2. CASE k \notin replayed
    <3>1. k = h.data /\ \E a \in accepted : a.data = h.data /\ a.step = h.step
      BY <1>2, <2>2 DEF LoginUseCode
    <3>2. PICK a \in accepted : a.data = h.data /\ a.step = h.step
      BY <3>1
    <3>. DEFINE b == [uuid |-> h.row, data |-> h.data, step |-> h.step]
    <3>3. b \in accepted' /\ b.data = k /\ b.uuid = h.row
      BY <1>2, <3>1 DEF LoginUseCode, Accept
    <3>4. CASE a.uuid # h.row
      BY <2>0, <3>1, <3>2, <3>3, <3>4
    <3>5. CASE a.uuid = h.row
      <4>1. h.step > h.seen /\ h.step \in Nat /\ h.seen \in Nat
        BY <1>2 DEF LoginUseCode, ReplayInv, StepsChecked, TypeInv, TypeOK,
                    Handler
      <4>2. ~Changed(h) => h.row \in raced
        BY <3>2, <3>5, <4>1, FloorAtWriter
      <4>3. h.row \in raced'
        BY <1>2, <4>2 DEF LoginUseCode, Race
      <4>. QED BY <3>3, <4>3
    <3>. QED BY <3>4, <3>5
  <2>. QED BY <2>1, <2>2
<1>3. ASSUME NEW h \in running, EnrolUpsert(h) PROVE ReplayExplained'
  BY <1>1, <1>3 DEF EnrolUpsert, Accept, Race
<1>4. CASE Tick \/ PostRecover \/ UNCHANGED vars
  BY <1>1, <1>4 DEF Tick, PostRecover, vars
<1>5. ASSUME NEW r \in Request, NEW op \in {"enrol", "login", "disable"},
             Begin(r, op)
      PROVE  ReplayExplained'
  BY <1>1, <1>5 DEF Begin
<1>6. ASSUME NEW h \in running,
             \/ EnrolAgain(h) \/ EnrolFirst(h) \/ EnrolStoreCode(h)
             \/ LoginWithoutFactor(h) \/ LoginCheckCode(h)
             \/ LoginCheckRecovery(h) \/ LoginDeleteFactors(h)
             \/ DisableFind(h) \/ Disable(h) \/ DisableRemaining(h)
             \/ ClearCode(h) \/ Abandon(h)
      PROVE  ReplayExplained'
  BY <1>1, <1>6 DEF EnrolAgain, EnrolFirst, EnrolStoreCode, LoginWithoutFactor,
                    LoginCheckCode, LoginCheckRecovery, LoginDeleteFactors,
                    DisableFind, Disable, DisableRemaining, ClearCode, Abandon
<1>. QED BY <1>2, <1>3, <1>4, <1>5, <1>6 DEF Next, Step

LEMMA ReplayInvStep == ASSUME ReplayInv, [Next]_vars PROVE ReplayInv'
BY TypeStep, StepsCheckedStep, FloorStep, ReplayStep DEF ReplayInv

\* No login accepts a TOTP code a second time, unless a row of two_factor
\* changed under a handler that had read it, or the secret was enrolled in two
\* rows: disabling, enrolling again and stopping half-way revive no code.
THEOREM Replay == Spec => []ReplayExplained
<1>1. ReplayInv => ReplayExplained
  BY DEF ReplayInv
<1>. QED BY <1>1, ReplayInit, ReplayInvStep, PTL DEF Spec

-----------------------------------------------------------------------------
(* One handler at a time: nothing changes a row under a handler, so that only *)
(* a secret enrolled in two rows lets a code be replayed.                     *)

OneAtATime == \A r, s \in Request : r = s

Solo == \A h, g \in running : h = g

\* Ids of rows are given out once.
RowsGiven ==
  /\ \A f \in factors : f.uuid < nextRow
  /\ \A a \in accepted : a.uuid < nextRow
  /\ \A h \in running : h.pc \in {"upsert", "use"} => h.row < nextRow

RowsAsRead == \A h \in running : h.pc \in {"upsert", "use"} => ~Changed(h)

AloneInv == Solo /\ RowsGiven /\ RowsAsRead /\ raced = {}

\* A step of the only handler leaves it alone, or nobody.
LEMMA SoloStep ==
  ASSUME OneAtATime, TypeInv, AloneInv, [Next]_vars PROVE Solo'
<1>1. ASSUME NEW r \in Request, NEW op \in {"enrol", "login", "disable"},
             Begin(r, op)
      PROVE  Solo'
  <2>1. \A h \in running : h.id \in Request /\ h.id \in Busy
    BY DEF TypeInv, TypeOK, Handler, Busy
  <2>2. running = {}
    BY <1>1, <2>1 DEF Begin, OneAtATime
  <2>. QED BY <1>1, <2>2 DEF Begin, Solo
<1>2. ASSUME NEW h \in running, Step(h) PROVE Solo'
  <2>1. running = {h}
    BY DEF AloneInv, Solo
  <2>2. \/ running' = running \ {h}
        \/ \E g : running' = Become(h, g)
    BY <1>2 DEF Step, EnrolAgain, EnrolFirst, EnrolUpsert, EnrolStoreCode,
                LoginWithoutFactor, LoginCheckCode, LoginUseCode,
                LoginCheckRecovery, LoginDeleteFactors, DisableFind, Disable,
                DisableRemaining, ClearCode, Abandon, Goto
  <2>. QED BY <2>1, <2>2 DEF Become, Solo
<1>3. CASE Tick \/ PostRecover \/ UNCHANGED vars
  BY <1>3 DEF Tick, PostRecover, vars, AloneInv, Solo
<1>. QED BY <1>1, <1>2, <1>3 DEF Next

\* What the handlers that read a row have in common.
LEMMA AloneRead ==
  ASSUME TypeInv, AloneInv, Solo', NEW h \in running, NEW g \in Handler,
         running' = Become(h, g), UNCHANGED <<factors, accepted, raced>>,
         nextRow' \in Nat, nextRow <= nextRow',
         g.row < nextRow',
         \/ \E f \in factors : f.uuid = g.row /\ f.last_used = g.seen
         \/ g.row = nextRow /\ factors = {}
  PROVE  AloneInv'
<1>0. /\ nextRow \in Nat
      /\ \A f \in factors : f.uuid \in Nat
      /\ \A a \in accepted : a.uuid \in Nat
  BY DEF TypeInv, TypeOK, FactorRow, RowId, Accepted
<1>1. running' = {g}
  BY DEF AloneInv, Solo, Become
<1>2. RowsGiven'
  <2>1. \A f \in factors' : f.uuid < nextRow'
    BY <1>0 DEF AloneInv, RowsGiven
  <2>2. \A a \in accepted' : a.uuid < nextRow'
    BY <1>0 DEF AloneInv, RowsGiven
  <2>. QED BY <1>1, <2>1, <2>2 DEF RowsGiven
<1>3. ~Changed(g)
  <2>1. CASE \E f \in factors : f.uuid = g.row /\ f.last_used = g.seen
    BY <2>1 DEF Changed, TypeInv, TypeOK
  <2>2. CASE g.row = nextRow /\ factors = {}
    BY <1>0, <2>2 DEF Changed, AloneInv, RowsGiven
  <2>. QED BY <2>1, <2>2
<1>4. RowsAsRead'
  BY <1>1, <1>3 DEF RowsAsRead, Changed
<1>. QED BY <1>2, <1>4 DEF AloneInv

LEMMA AloneFind ==
  ASSUME TypeInv, AloneInv, Solo', NEW h \in running,
         EnrolAgain(h) \/ EnrolFirst(h) \/ LoginCheckCode(h)
  PROVE  AloneInv'
<1>0. h \in Handler /\ nextRow \in Nat /\ TypeInv'
  BY EnrolAgainType, EnrolFirstType, LoginCheckCodeType DEF TypeInv, TypeOK
<1>1. PICK g : /\ running' = Become(h, g)
               /\ g.row < nextRow'
               /\ \/ \E f \in factors : f.uuid = g.row /\ f.last_used = g.seen
                  \/ g.row = nextRow /\ factors = {}
  <2>1. CASE EnrolAgain(h)
    <3>1. PICK k \in Secret, s \in Window, f \in factors :
            running' = Become(h, [h EXCEPT !.pc = "upsert", !.row = f.uuid,
                                 !.data = k, !.step = s, !.seen = f.last_used])
      BY <2>1 DEF EnrolAgain
    <3>. DEFINE g == [h EXCEPT !.pc = "upsert", !.row = f.uuid,
                               !.data = k, !.step = s, !.seen = f.last_used]
    <3>2. g.row = f.uuid /\ g.seen = f.last_used
      BY <1>0 DEF Handler
    <3>3. f.uuid < nextRow'
      BY <2>1 DEF EnrolAgain, AloneInv, RowsGiven
    <3>. QED BY <3>1, <3>2, <3>3
  <2>2. CASE EnrolFirst(h)
    <3>1. PICK k \in Secret, s \in Window :
            running' = Become(h, [h EXCEPT !.pc = "upsert", !.row = nextRow,
                                 !.data = k, !.step = s])
      BY <2>2 DEF EnrolFirst
    <3>. DEFINE g == [h EXCEPT !.pc = "upsert", !.row = nextRow,
                               !.data = k, !.step = s]
    <3>2. g.row = nextRow
      BY <1>0 DEF Handler
    <3>3. factors = {} /\ nextRow' = nextRow + 1
      BY <2>2 DEF EnrolFirst
    <3>4. nextRow < nextRow'
      BY <1>0, <3>3
    <3>. QED BY <3>1, <3>2, <3>3, <3>4
  <2>3. CASE LoginCheckCode(h)
    <3>1. PICK f \in Enabled, s \in Window :
            running' = Become(h, [h EXCEPT !.pc = "use", !.row = f.uuid,
                                 !.data = f.data, !.step = s,
                                 !.seen = f.last_used, !.code = NoCode])
      BY <2>3 DEF LoginCheckCode
    <3>. DEFINE g == [h EXCEPT !.pc = "use", !.row = f.uuid,
                               !.data = f.data, !.step = s,
                               !.seen = f.last_used, !.code = NoCode]
    <3>2. g.row = f.uuid /\ g.seen = f.last_used
      BY <1>0 DEF Handler
    <3>3. f \in factors /\ f.uuid < nextRow'
      BY <2>3 DEF LoginCheckCode, Enabled, AloneInv, RowsGiven
    <3>. QED BY <3>1, <3>2, <3>3
  <2>. QED BY <2>1, <2>2, <2>3
<1>2. g \in Handler
  BY <1>0, <1>1 DEF Become, TypeInv, TypeOK
<1>3. /\ UNCHANGED <<factors, accepted, raced>>
      /\ nextRow' = nextRow \/ nextRow' = nextRow + 1
  BY DEF EnrolAgain, EnrolFirst, LoginCheckCode
<1>4. nextRow' \in Nat /\ nextRow <= nextRow'
  BY <1>0, <1>3
<1>. QED BY <1>1, <1>2, <1>3, <1>4, AloneRead

\* A handler that writes a row finds it as it read it, and holds no row after.
LEMMA AloneWrite ==
  ASSUME TypeInv, AloneInv, Solo', NEW h \in running,
         EnrolUpsert(h) \/ LoginUseCode(h)
  PROVE  AloneInv'
<1>1. running = {h} /\ h \in Handler
  BY DEF AloneInv, Solo, TypeInv, TypeOK
<1>2. h.pc \in {"upsert", "use"}
  BY DEF EnrolUpsert, LoginUseCode
<1>3. raced' = {}
  BY <1>1, <1>2 DEF EnrolUpsert, LoginUseCode, Race, AloneInv, RowsAsRead
<1>4. h.row < nextRow
  BY <1>1, <1>2 DEF AloneInv, RowsGiven
<1>5. nextRow' = nextRow
  BY DEF EnrolUpsert, LoginUseCode
<1>6. \A f \in factors' : f.uuid < nextRow
  <2>1. \A f \in factors' : f.uuid = h.row \/ \E g \in factors : f.uuid = g.uuid
    <3>1. \A f \in factors : [f EXCEPT !.last_used = h.step].uuid = f.uuid
      BY DEF TypeInv, TypeOK, FactorRow
    <3>2. CASE EnrolUpsert(h)
      BY <3>2 DEF EnrolUpsert
    <3>3. CASE LoginUseCode(h)
      BY <3>1, <3>3 DEF LoginUseCode
    <3>. QED BY <3>2, <3>3
  <2>. QED BY <1>4, <2>1 DEF AloneInv, RowsGiven
<1>7. \A a \in accepted' : a.uuid < nextRow
  <2>1. \A a \in accepted' : a \in accepted \/ a.uuid = h.row
    BY DEF EnrolUpsert, LoginUseCode, Accept
  <2>. QED BY <1>4, <2>1 DEF AloneInv, RowsGiven
<1>8. \A g \in running' : g.pc \notin {"upsert", "use"}
  BY <1>1 DEF EnrolUpsert, LoginUseCode, Goto, Become, Handler
<1>. QED BY <1>3, <1>5, <1>6, <1>7, <1>8 DEF AloneInv, RowsGiven, RowsAsRead

\* All other steps leave no handler that holds a row, and add none to the table.
LEMMA AloneOther ==
  ASSUME TypeInv, AloneInv, Solo', NEW h \in running,
         \/ EnrolStoreCode(h) \/ LoginWithoutFactor(h) \/ LoginCheckRecovery(h)
         \/ LoginDeleteFactors(h) \/ DisableFind(h) \/ Disable(h)
         \/ DisableRemaining(h) \/ ClearCode(h) \/ Abandon(h)
  PROVE  AloneInv'
<1>1. running = {h} /\ h \in Handler
  BY DEF AloneInv, Solo, TypeInv, TypeOK
<1>2. \A g \in running' : g.pc \notin {"upsert", "use"}
  BY <1>1 DEF EnrolStoreCode, LoginWithoutFactor, LoginCheckRecovery,
              LoginDeleteFactors, DisableFind, Disable, DisableRemaining,
              ClearCode, Abandon, Goto, Become, Handler
<1>3. UNCHANGED <<accepted, raced, nextRow>>
  BY DEF EnrolStoreCode, LoginWithoutFactor, LoginCheckRecovery,
         LoginDeleteFactors, DisableFind, Disable, DisableRemaining,
         ClearCode, Abandon
<1>4. \A f \in factors' : \E g \in factors : f.uuid = g.uuid
  <2>1. CASE Disable(h)
    BY <2>1 DEF Disable, TypeInv, TypeOK, FactorRow
  <2>2. CASE factors' \subseteq factors
    BY <2>2
  <2>3. Disable(h) \/ factors' \subseteq factors
    BY DEF EnrolStoreCode, LoginWithoutFactor, LoginCheckRecovery,
           LoginDeleteFactors, DisableFind, DisableRemaining, ClearCode, Abandon
  <2>. QED BY <2>1, <2>2, <2>3
<1>. QED BY <1>2, <1>3, <1>4 DEF AloneInv, RowsGiven, RowsAsRead

LEMMA AloneStep ==
  ASSUME OneAtATime, TypeInv, AloneInv, [Next]_vars PROVE AloneInv'
<1>1. Solo'
  BY SoloStep
<1>2. ASSUME NEW r \in Request, NEW op \in {"enrol", "login", "disable"},
             Begin(r, op)
      PROVE  AloneInv'
  <2>1. \A h \in running' : h \in running \/ h.pc = "find"
    BY <1>2 DEF Begin
  <2>2. UNCHANGED <<factors, accepted, raced, nextRow>>
    BY <1>2 DEF Begin
  <2>. QED BY <1>1, <2>1, <2>2 DEF AloneInv, RowsGiven, RowsAsRead, Changed
<1>3. CASE Tick \/ PostRecover \/ UNCHANGED vars
  BY <1>1, <1>3 DEF Tick, PostRecover, vars, AloneInv, RowsGiven, RowsAsRead,
                    Changed
<1>. QED BY <1>1, <1>2, <1>3, AloneFind, AloneWrite, AloneOther DEF Next, Step

LEMMA AloneInvariant == OneAtATime => (Spec => []AloneInv)
<1>. SUFFICES ASSUME OneAtATime PROVE Spec => []AloneInv
  OBVIOUS
<1>1. Init => AloneInv
  BY DEF Init, AloneInv, Solo, RowsGiven, RowsAsRead
<1>2. TypeInv /\ AloneInv /\ [Next]_vars => AloneInv'
  BY AloneStep
<1>. QED BY <1>1, <1>2, TypeInit, TypeStep, PTL DEF Spec

\* The promise of validate_totp and post_authenticator, that no code is accepted
\* twice, is broken by nothing but logins that overlap, as long as no secret was
\* enrolled in two rows.
THEOREM CodeNotReplayedAlone ==
  OneAtATime =>
    (Spec => []((\A a, b \in accepted : a.data = b.data => a.uuid = b.uuid)
                  => CodeNotReplayed))
<1>. SUFFICES ASSUME OneAtATime
              PROVE Spec => []((\A a, b \in accepted : a.data = b.data => a.uuid = b.uuid)
                                 => CodeNotReplayed)
  OBVIOUS
<1>1. AloneInv /\ ReplayExplained =>
        ((\A a, b \in accepted : a.data = b.data => a.uuid = b.uuid)
           => CodeNotReplayed)
  BY DEF AloneInv, ReplayExplained, CodeNotReplayed
<1>. QED BY <1>1, AloneInvariant, Replay, PTL
=============================================================================
