-------------------------------- MODULE Hub --------------------------------
(***************************************************************************)
(* The signing keys together with the notifier of one user: hub admits a    *)
(* client, and an API handler writes for it, only with a token that the     *)
(* stored public key verifies.                                              *)
(***************************************************************************)
EXTENDS SigningKeys, Notifier

vars == <<keyVars, notifierVars>>

Init == KeysInit /\ NotifierInit

\* Mutant: the signature is not verified.
HasToken == tokens # {}

\* validate_access_token: load_public_key fails when there is none.
ValidToken == Authenticated

\* What a client may do once its token is accepted.
Served == /\ ValidToken
            /\ \/ \E s \in Socket : Admit(s)
               \/ \E w \in Writers : Write(w) \/ WriteSilently(w)

\* What the object, the platform, the clients and the handlers do on their own.
Event == \/ \E s \in Socket : Upgrade(s) \/ UpgradeFails(s) \/ Handshake(s) \/ Close(s)
         \/ Tick \/ Ring
         \/ \E w \in Writers : Notify(w) \/ NotifyFails(w)

Next == \/ KeysNext /\ UNCHANGED notifierVars
        \/ (Served \/ Event) /\ UNCHANGED keyVars

\* Time passes, and the platform runs every alarm that is due.
Fairness == WF_vars(Tick /\ UNCHANGED keyVars) /\ WF_vars(Ring /\ UNCHANGED keyVars)

Spec == Init /\ [][Next]_vars /\ Fairness

-----------------------------------------------------------------------------
\* Keys, tokens, sockets and the alarm are well formed; the private key is stored
\* before the public one.
TypeOK == KeysTypeOK /\ NotifierTypeOK

\* If the one handler that created a pair stopped between its two puts, nobody
\* gets in, then or ever after: no handler creates the missing public key.
LockedOut ==
  halted /\ ~raced => pending = {} /\ \A s \in Socket : conn[s] = "closed"
=============================================================================
