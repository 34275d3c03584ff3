----------------------------- MODULE HubProofs -----------------------------
(***************************************************************************)
(* Proofs about Hub, for any number of key pairs, handlers and clients, and *)
(* any ping interval.  The signing keys come first, then the notifier, then *)
(* what the one promises to the other.                                      *)
(***************************************************************************)
EXTENDS Hub, TLAPS

-----------------------------------------------------------------------------
(* Each component's step, whatever the other does.  What follows is shown    *)
(* for the components and carried over by this lemma.                       *)

LEMMA StepOfKeys == [Next]_vars => [KeysNext]_keyVars
BY DEF Next, vars

LEMMA StepOfNotifier == [Next]_vars => [NotifierNext]_notifierVars
BY DEF Next, vars, Served, Event, NotifierNext

\* Hub adds to its components a guard and fairness, and no behaviour: it
\* implements the specification of the signing keys and that of the notifier.
THEOREM Components == Spec => KeysSpec /\ NotifierSpec
<1>1. Init => KeysInit /\ NotifierInit
  BY DEF Init
<1>. QED BY <1>1, StepOfKeys, StepOfNotifier, PTL DEF Spec, KeysSpec, NotifierSpec

-----------------------------------------------------------------------------
(* Type correctness of the signing keys.  Whatever is signed with, stored or *)
(* remembered was generated, and a pair's private key is stored first.       *)

KeysKnown ==
  /\ ({private} \cup oldPrivate) \ {None} \subseteq generated
  /\ \A h \in signers : /\ h.key \in generated
                        /\ h.pc = "public" => private # None

KeysTypeInv == KeysTypeOK /\ KeysKnown

LEMMA KeysTypeInit == KeysInit => KeysTypeInv
BY DEF KeysInit, KeysTypeInv, KeysTypeOK, KeysKnown

LEMMA KeysTypeStep == ASSUME KeysTypeInv, [KeysNext]_keyVars PROVE KeysTypeInv'
<1>. USE DEF KeysTypeInv, KeysTypeOK, KeysKnown
<1>1. CASE \E r \in Request \ Signing : LoadKey(r)
  BY <1>1 DEF LoadKey, Signer
<1>2. CASE \E r \in Request \ Signing : CreateKey(r)
  BY <1>2 DEF CreateKey, Signer
<1>3. CASE \E h \in signers : StorePrivate(h)
  BY <1>3, KeyAssumption DEF StorePrivate, Proceed, Signer
<1>4. CASE \E h \in signers : StorePublic(h)
  BY <1>4, KeyAssumption DEF StorePublic, Proceed, Signer
<1>5. CASE \E h \in signers : Sign(h)
  BY <1>5 DEF Sign
<1>6. CASE \E h \in signers : Halt(h)
  BY <1>6 DEF Halt
<1>7. CASE Settle
  BY <1>7 DEF Settle
<1>8. CASE UNCHANGED keyVars
  BY <1>8 DEF keyVars
<1>. QED BY <1>1, <1>2, <1>3, <1>4, <1>5, <1>6, <1>7, <1>8 DEF KeysNext

-----------------------------------------------------------------------------
(* As long as no two pairs were created at once there is one creator, and    *)
(* one pair in use: the stored private key.                                  *)

OnePair ==
  ~raced =>
    /\ oldPrivate \cup oldPublic \subseteq {None}
    /\ public \in {None, private}
    /\ \A k \in tokens : k = private
    /\ \A h \in signers : IF h.pc = "private" THEN private = None
                                              ELSE h.key = private
    /\ \A h, g \in signers : h.pc # "sign" /\ g.pc # "sign" => h = g

\* ... of which the public key is stored, or about to be, or never will be.
HalfStored ==
  ~raced =>
    /\ private # None => \/ public = private \/ halted
                         \/ \E h \in signers : h.pc = "public"
    /\ (\E h \in signers : h.pc = "public") => public = None /\ ~halted
    /\ halted => public = None /\ private # None

KeysInv == KeysTypeInv /\ OnePair /\ HalfStored

LEMMA KeysInvInit == KeysInit => KeysInv
BY KeysTypeInit DEF KeysInit, KeysInv, OnePair, HalfStored

\* The first to create a pair, or to store one, is alone.
LEMMA FirstCreator ==
  ASSUME KeysInv, ~raced', NEW r \in Request, CreateKey(r)
  PROVE  ~raced /\ private = None /\ signers = {} /\ tokens = {} /\ ~halted
<1>1. ~raced /\ private = None /\ \A h \in signers : h.pc = "sign"
  BY DEF CreateKey, Creators
<1>2. \A h \in signers : h.key = None /\ h.key \in Key
  BY <1>1 DEF KeysInv, KeysTypeInv, KeysTypeOK, Signer, OnePair
<1>3. \A k \in tokens : k = None /\ k \in Key
  BY <1>1 DEF KeysInv, KeysTypeInv, KeysTypeOK, OnePair
<1>. QED BY <1>1, <1>2, <1>3, KeyAssumption DEF KeysInv, HalfStored

LEMMA FirstStored ==
  ASSUME KeysInv, ~raced', NEW h \in signers, StorePrivate(h)
  PROVE  /\ ~raced /\ private = None /\ public = None /\ signers = {h}
         /\ tokens = {} /\ ~halted /\ h.key \in Key
<1>1. ~raced /\ private = None /\ public = None /\ h.key \in Key
  BY DEF StorePrivate, KeysInv, KeysTypeInv, KeysTypeOK, Signer, OnePair
<1>2. \A g \in signers : g.pc = "sign" => g.key = None /\ g.key \in Key
  BY <1>1 DEF KeysInv, KeysTypeInv, KeysTypeOK, Signer, OnePair
<1>3. \A g \in signers : g = h
  BY <1>1, <1>2, KeyAssumption DEF StorePrivate, KeysInv, OnePair
<1>4. \A k \in tokens : k = None /\ k \in Key
  BY <1>1 DEF KeysInv, KeysTypeInv, KeysTypeOK, OnePair
<1>. QED BY <1>1, <1>3, <1>4, KeyAssumption DEF KeysInv, HalfStored

LEMMA OnePairStep == ASSUME KeysInv, [KeysNext]_keyVars PROVE OnePair'
<1>. SUFFICES ASSUME ~raced' PROVE OnePair'
  BY DEF OnePair
<1>. USE DEF KeysInv, KeysTypeInv, KeysTypeOK, OnePair
<1>1. CASE \E r \in Request \ Signing : LoadKey(r)
  BY <1>1 DEF LoadKey
<1>2. CASE \E r \in Request \ Signing : CreateKey(r)
  <2>1. PICK r \in Request : CreateKey(r)
    BY <1>2
  <2>2. ~raced /\ private = None /\ signers = {} /\ tokens = {}
    BY <2>1, FirstCreator
  <2>. QED BY <2>1, <2>2 DEF CreateKey
<1>3. CASE \E h \in signers : StorePrivate(h)
  <2>1. PICK h \in signers : StorePrivate(h)
    BY <1>3
  <2>2. ~raced /\ private = None /\ public = None /\ signers = {h} /\ tokens = {}
    BY <2>1, FirstStored
  <2>3. signers' = {[h EXCEPT !.pc = "public"]}
    BY <2>1, <2>2 DEF StorePrivate, Proceed
  <2>. QED BY <2>1, <2>2, <2>3 DEF StorePrivate, Signer
<1>4. CASE \E h \in signers : StorePublic(h)
  BY <1>4, KeyAssumption DEF StorePublic, Proceed, Signer, HalfStored
<1>5. CASE \E h \in signers : Sign(h)
  BY <1>5 DEF Sign
<1>6. CASE \E h \in signers : Halt(h)
  BY <1>6 DEF Halt
<1>7. CASE Settle
  BY <1>7 DEF Settle
<1>8. CASE UNCHANGED keyVars
  BY <1>8 DEF keyVars
<1>. QED BY <1>1, <1>2, <1>3, <1>4, <1>5, <1>6, <1>7, <1>8 DEF KeysNext

LEMMA HalfStoredStep == ASSUME KeysInv, [KeysNext]_keyVars PROVE HalfStored'
<1>. SUFFICES ASSUME ~raced' PROVE HalfStored'
  BY DEF HalfStored
<1>. USE DEF KeysInv, KeysTypeInv, KeysTypeOK, OnePair, HalfStored
<1>1. CASE \E r \in Request \ Signing : LoadKey(r)
  BY <1>1 DEF LoadKey
<1>2. CASE \E r \in Request \ Signing : CreateKey(r)
  <2>1. PICK r \in Request : CreateKey(r)
    BY <1>2
  <2>2. ~raced /\ private = None /\ signers = {} /\ ~halted
    BY <2>1, FirstCreator
  <2>. QED BY <2>1, <2>2 DEF CreateKey
<1>3. CASE \E h \in signers : StorePrivate(h)
  <2>1. PICK h \in signers : StorePrivate(h)
    BY <1>3
  <2>2. public = None /\ signers = {h} /\ ~halted /\ h.key \in Key
    BY <2>1, FirstStored
  <2>3. signers' = {[h EXCEPT !.pc = "public"]}
    BY <2>1, <2>2 DEF StorePrivate, Proceed
  <2>. QED BY <2>1, <2>2, <2>3, KeyAssumption DEF StorePrivate, Signer
<1>4. CASE \E h \in signers : StorePublic(h)
  <2>1. PICK h \in signers : StorePublic(h)
    BY <1>4
  <2>2. ~raced /\ ~halted /\ h.key = private /\ \A g \in signers \ {h} : g.pc = "sign"
    BY <2>1 DEF StorePublic
  <2>. QED BY <2>1, <2>2, KeyAssumption DEF StorePublic, Proceed, Signer
<1>5. CASE \E h \in signers : Sign(h)
  BY <1>5 DEF Sign
<1>6. CASE \E h \in signers : Halt(h)
  <2>1. PICK h \in signers : Halt(h)
    BY <1>6
  <2>2. CASE h.pc = "public"
    <3>1. public = None /\ private # None /\ \A g \in signers \ {h} : g.pc # "public"
      BY <2>1, <2>2 DEF Halt, KeysKnown
    <3>. QED BY <2>1, <2>2, <3>1 DEF Halt
  <2>3. CASE h.pc # "public"
    BY <2>1, <2>3 DEF Halt
  <2>. QED BY <2>2, <2>3
<1>7. CASE Settle
  BY <1>7 DEF Settle
<1>8. CASE UNCHANGED keyVars
  BY <1>8 DEF keyVars
<1>. QED BY <1>1, <1>2, <1>3, <1>4, <1>5, <1>6, <1>7, <1>8 DEF KeysNext

LEMMA KeysInvStep == KeysInv /\ [KeysNext]_keyVars => KeysInv'
BY KeysTypeStep, OnePairStep, HalfStoredStep DEF KeysInv

LEMMA KeysInvariant == KeysSpec => []KeysInv
BY KeysInvInit, KeysInvStep, PTL DEF KeysSpec

LEMMA Honoured == KeysInv => TokensHonoured
BY KeyAssumption DEF KeysInv, KeysTypeInv, KeysTypeOK, OnePair, HalfStored,
                     TokensHonoured

\* Tokens verify against the stored public key, or soon will, unless two pairs
\* were created at once or a handler stopped between the puts of a pair.
THEOREM TokensVerify == Spec => []TokensHonoured
BY Components, KeysInvariant, Honoured, PTL

\* A stored key is replaced only when two pairs were created at once.
THEOREM KeysStay == Spec => KeysSettle
<1>1. ASSUME KeysInv, [KeysNext]_keyVars
      PROVE  [/\ private # None /\ private' # private => raced
              /\ public # None /\ public' # public => raced]_<<private, public, raced>>
  <2>1. CASE \E h \in signers : StorePrivate(h)
    BY <1>1, <2>1 DEF KeysInv, OnePair, StorePrivate
  <2>2. CASE \E h \in signers : StorePublic(h)
    BY <1>1, <2>2 DEF KeysInv, HalfStored, StorePublic
  <2>3. CASE ~ \E h \in signers : StorePrivate(h) \/ StorePublic(h)
    BY <1>1, <2>3 DEF KeysNext, keyVars, LoadKey, CreateKey, Sign, Halt, Settle
  <2>. QED BY <2>1, <2>2, <2>3
<1>. QED BY <1>1, Components, KeysInvariant, PTL DEF KeysSpec, KeysSettle

-----------------------------------------------------------------------------
(* The notifier.                                                            *)

LEMMA Bounds ==
  /\ 0 \in 0..(Attempts - 1) /\ Interval \in 0..Interval
  /\ \A n \in 0..(Attempts - 1) : n + 1 < Attempts => n + 1 \in 0..(Attempts - 1)
BY NotifierAssumption

LEMMA NotifierTypeInit == NotifierInit => NotifierTypeOK
BY Bounds DEF NotifierInit, NotifierTypeOK, States, Open

LEMMA NotifierTypeStep ==
  ASSUME NotifierTypeOK, [NotifierNext]_notifierVars PROVE NotifierTypeOK'
<1>. USE DEF NotifierTypeOK, States, Open, told
<1>1. CASE \E s \in Socket : Admit(s)
  BY <1>1 DEF Admit
<1>2. CASE \E s \in Socket : Upgrade(s)
  BY <1>2, Bounds DEF Upgrade, SetAlarm
<1>3. CASE \E s \in Socket : UpgradeFails(s)
  BY <1>3 DEF UpgradeFails
<1>4. CASE \E s \in Socket : Handshake(s)
  BY <1>4 DEF Handshake
<1>5. CASE \E s \in Socket : Close(s)
  BY <1>5 DEF Close
<1>6. CASE Tick
  BY <1>6, NotifierAssumption DEF Tick
<1>7. CASE Ring
  BY <1>7, Bounds DEF Ring, Fire, FireFails, SetAlarm
<1>8. CASE \E w \in Writers : \/ Write(w) \/ WriteSilently(w)
                              \/ Notify(w) \/ NotifyFails(w)
  BY <1>8 DEF Write, WriteSilently, Untold, Notify, NotifyFails
<1>9. CASE UNCHANGED notifierVars
  BY <1>9 DEF notifierVars, told
<1>. QED BY <1>1, <1>2, <1>3, <1>4, <1>5, <1>6, <1>7, <1>8, <1>9 DEF NotifierNext

LEMMA NotifierType == NotifierSpec => []NotifierTypeOK
BY NotifierTypeInit, NotifierTypeStep, PTL DEF NotifierSpec

\* Keys, tokens, sockets and the alarm stay well formed.
THEOREM TypeCorrect == Spec => []TypeOK
<1>1. KeysInv /\ NotifierTypeOK => TypeOK
  BY DEF KeysInv, KeysTypeInv, TypeOK
<1>. QED BY <1>1, Components, KeysInvariant, NotifierType, PTL

LEMMA ArmedStep ==
  ASSUME NotifierTypeOK, AlarmArmed, [NotifierNext]_notifierVars
  PROVE  AlarmArmed'
<1>. USE NotifierAssumption DEF NotifierTypeOK, AlarmArmed
<1>1. CASE \E s \in Socket : Upgrade(s)
  BY <1>1 DEF Upgrade, SetAlarm
<1>2. CASE \E s \in Socket : Admit(s) \/ UpgradeFails(s) \/ Handshake(s) \/ Close(s)
  BY <1>2 DEF Admit, UpgradeFails, Handshake, Close
<1>3. CASE Tick
  BY <1>3 DEF Tick
<1>4. CASE Ring
  BY <1>4 DEF Ring, Fire, FireFails, SetAlarm, Accepted
<1>5. CASE \E w \in Writers : \/ Write(w) \/ WriteSilently(w)
                              \/ Notify(w) \/ NotifyFails(w)
  BY <1>5 DEF Write, WriteSilently, Notify, NotifyFails
<1>6. CASE UNCHANGED notifierVars
  BY <1>6 DEF notifierVars, told
<1>. QED BY <1>1, <1>2, <1>3, <1>4, <1>5, <1>6 DEF NotifierNext

\* The alarm is set while a client is connected, unless it was given up.
THEOREM AlarmSet == Spec => []AlarmArmed
<1>1. NotifierInit => AlarmArmed
  BY DEF NotifierInit, AlarmArmed
<1>. QED BY <1>1, ArmedStep, Components, NotifierType, PTL DEF NotifierSpec

LEMMA ToldStep ==
  ASSUME NotifierTypeOK, ToldOfWrites, [NotifierNext]_notifierVars
  PROVE  ToldOfWrites'
<1>. USE DEF NotifierTypeOK, ToldOfWrites
<1>1. CASE \E s \in Socket : Close(s)
  BY <1>1 DEF Close
<1>2. CASE \E w \in Writers : Write(w) \/ WriteSilently(w)
  BY <1>2 DEF Write, WriteSilently, Untold
<1>3. CASE \E w \in Writers : Notify(w) \/ NotifyFails(w)
  BY <1>3 DEF Notify, NotifyFails
<1>4. CASE UNCHANGED told
  BY <1>4 DEF told
<1>. QED
  BY <1>1, <1>2, <1>3, <1>4 DEF NotifierNext, notifierVars, Admit, Upgrade,
    UpgradeFails, Handshake, Tick, Ring, Fire, FireFails

\* A connected client that was not told of a write soon will be, unless the
\* handler stopped after it, its notification failed, or it never sends one.
THEOREM WritesTold == Spec => []ToldOfWrites
<1>1. NotifierInit => ToldOfWrites
  BY DEF NotifierInit, ToldOfWrites
<1>. QED BY <1>1, ToldStep, Components, NotifierType, PTL DEF NotifierSpec

-----------------------------------------------------------------------------
(* The two together: before a public key is stored no token is accepted, so  *)
(* nobody is connected and nothing is written.                               *)

NobodyIn == public = None => /\ oldPublic = {} /\ pending = {}
                             /\ \A s \in Socket : conn[s] = "closed"

LEMMA NobodyInStep ==
  ASSUME KeysInv, NotifierTypeOK, NobodyIn, [Next]_vars PROVE NobodyIn'
<1>. SUFFICES ASSUME public' = None PROVE NobodyIn'
  BY DEF NobodyIn
<1>1. CASE KeysNext /\ UNCHANGED notifierVars
  <2>1. public = None /\ oldPublic' \subseteq oldPublic
    BY <1>1, KeyAssumption DEF KeysNext, LoadKey, CreateKey, StorePrivate,
      StorePublic, Sign, Halt, Settle, KeysInv, KeysTypeInv, KeysTypeOK, Signer
  <2>. QED BY <1>1, <2>1 DEF NobodyIn, notifierVars, told
<1>2. CASE (Served \/ Event) /\ UNCHANGED keyVars
  <2>1. public = None /\ ~Served
    BY <1>2 DEF keyVars, NobodyIn, Served, ValidToken, Authenticated, Verifying
  <2>. QED
    BY <1>2, <2>1 DEF NobodyIn, keyVars, told, Event, Upgrade, UpgradeFails, Handshake,
      Close, Tick, Ring, Fire, FireFails, Notify, NotifyFails
<1>3. CASE UNCHANGED vars
  BY <1>3 DEF vars, keyVars, notifierVars, told, NobodyIn
<1>. QED BY <1>1, <1>2, <1>3 DEF Next

\* Once the only creator of a pair has stopped between its two puts, no client
\* is ever connected and no handler writes.
THEOREM NobodyGetsIn == Spec => []LockedOut
<1>1. Init => NobodyIn
  BY DEF Init, KeysInit, NotifierInit, NobodyIn
<1>2. KeysInv /\ NobodyIn => LockedOut
  BY DEF KeysInv, HalfStored, NobodyIn, LockedOut
<1>. QED
  BY <1>1, <1>2, NobodyInStep, Components, KeysInvariant, NotifierType, PTL DEF Spec
=============================================================================
