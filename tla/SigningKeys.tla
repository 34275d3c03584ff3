---------------------------- MODULE SigningKeys ----------------------------
(***************************************************************************)
(* The RSA key pair in KV that signs and verifies every token.  A handler   *)
(* that signs loads the private key, or creates a pair and stores it in two *)
(* puts; a handler that verifies loads the public key.  A put is known      *)
(* everywhere only after some time, and a get meanwhile may return what an  *)
(* isolate elsewhere has cached.                                            *)
(***************************************************************************)
EXTENDS Naturals, FiniteSets

CONSTANTS
  Key,      \* key pairs generate_rsa_keypair yields
  Request,  \* handler instances that may sign at the same time
  None      \* no key

ASSUME KeyAssumption == None \notin Key

VARIABLES
  private,     \* RSA_PRIVATE_KEY
  public,      \* RSA_PUBLIC_KEY
  oldPrivate,  \* what a get of RSA_PRIVATE_KEY may return instead
  oldPublic,   \* ... of RSA_PUBLIC_KEY
  signers,     \* handlers in flight: what they do next, with which pair
  generated,   \* pairs already generated
  tokens,      \* pairs some token has been signed with
  raced,       \* history: a pair was created while another was being stored
  halted       \* history: a handler stopped with its pair half stored

keyVars == <<private, public, oldPrivate, oldPublic, signers, generated,
             tokens, raced, halted>>

Signer == [id: Request, pc: {"private", "public", "sign"}, key: Key]

-----------------------------------------------------------------------------
Signing == {h.id : h \in signers}
Creators == {h \in signers : h.pc # "sign"}
Proceed(h, pc) == signers' = (signers \ {h}) \cup {[h EXCEPT !.pc = pc]}

\* Pairs whose public key load_public_key may return.
Verifying == ({public} \cup oldPublic) \ {None}

\* verify_and_decode_jwt accepts the signature of some token.
Authenticated == tokens \cap Verifying # {}

KeysInit == /\ private = None /\ public = None
            /\ oldPrivate = {} /\ oldPublic = {}
            /\ signers = {} /\ generated = {} /\ tokens = {}
            /\ raced = FALSE /\ halted = FALSE

-----------------------------------------------------------------------------
\* load_or_create_signing_key finds a private key.
LoadKey(r) ==
  /\ \E k \in ({private} \cup oldPrivate) \ {None} :
       signers' = signers \cup {[id |-> r, pc |-> "sign", key |-> k]}
  /\ UNCHANGED <<private, public, oldPrivate, oldPublic, generated, tokens,
                 raced, halted>>

\* Mutant: a pair is generated although there is a key.
CreateAnyKey(r) ==
  /\ \E k \in Key \ generated :
       /\ signers' = signers \cup {[id |-> r, pc |-> "private", key |-> k]}
       /\ generated' = generated \cup {k}
  /\ raced' = (raced \/ Creators # {} \/ None \in oldPrivate)
  /\ UNCHANGED <<private, public, oldPrivate, oldPublic, tokens, halted>>

\* ... or finds none, and generates a pair.
CreateKey(r) ==
  /\ None \in {private} \cup oldPrivate
  /\ \E k \in Key \ generated :
       /\ signers' = signers \cup {[id |-> r, pc |-> "private", key |-> k]}
       /\ generated' = generated \cup {k}
  /\ raced' = (raced \/ Creators # {} \/ None \in oldPrivate)
  /\ UNCHANGED <<private, public, oldPrivate, oldPublic, tokens, halted>>

\* Mutant: the public key is left to whoever needs it.
StorePrivateAlone(h) ==
  /\ h.pc = "private"
  /\ private' = h.key /\ oldPrivate' = oldPrivate \cup {private}
  /\ Proceed(h, "sign")
  /\ UNCHANGED <<public, oldPublic, generated, tokens, raced, halted>>

\* Mutant: the private key is put under the name of the public one.
StoreMisnamed(h) ==
  /\ h.pc = "private"
  /\ public' = h.key /\ oldPublic' = oldPublic \cup {public}
  /\ Proceed(h, "public")
  /\ UNCHANGED <<private, oldPrivate, generated, tokens, raced, halted>>

StorePrivate(h) ==
  /\ h.pc = "private"
  /\ private' = h.key /\ oldPrivate' = oldPrivate \cup {private}
  /\ Proceed(h, "public")
  /\ UNCHANGED <<public, oldPublic, generated, tokens, raced, halted>>

StorePublic(h) ==
  /\ h.pc = "public"
  /\ public' = h.key /\ oldPublic' = oldPublic \cup {public}
  /\ Proceed(h, "sign")
  /\ UNCHANGED <<private, oldPrivate, generated, tokens, raced, halted>>

\* sign_jwt, with the key loaded or created.
Sign(h) ==
  /\ h.pc = "sign"
  /\ tokens' = tokens \cup {h.key}
  /\ signers' = signers \ {h}
  /\ UNCHANGED <<private, public, oldPrivate, oldPublic, generated, raced, halted>>

\* A failed get or put, or an evicted isolate.
Halt(h) ==
  /\ signers' = signers \ {h}
  /\ halted' = (halted \/ h.pc = "public")
  /\ UNCHANGED <<private, public, oldPrivate, oldPublic, generated, tokens, raced>>

\* All puts are known everywhere.
Settle ==
  /\ oldPrivate' = {} /\ oldPublic' = {}
  /\ UNCHANGED <<private, public, signers, generated, tokens, raced, halted>>

KeysNext == \/ \E r \in Request \ Signing : LoadKey(r) \/ CreateKey(r)
            \/ \E h \in signers : \/ StorePrivate(h) \/ StorePublic(h)
                                  \/ Sign(h) \/ Halt(h)
            \/ Settle

KeysSpec == KeysInit /\ [][KeysNext]_keyVars

-----------------------------------------------------------------------------
KeysTypeOK ==
  /\ {private, public} \cup oldPrivate \cup oldPublic \subseteq Key \cup {None}
  /\ signers \subseteq Signer
  /\ generated \subseteq Key /\ tokens \subseteq generated
  /\ {raced, halted} \subseteq BOOLEAN
  /\ public # None => private # None

\* A token verifies against the stored public key, or the handler that created
\* its pair is about to store it, unless pairs were created at the same time or
\* a handler stopped between its two puts.
TokensHonoured ==
  \A k \in tokens : \/ k = public \/ raced \/ halted
                    \/ \E h \in signers : h.pc = "public" /\ h.key = k

\* A stored key is replaced only if two handlers create pairs at the same time,
\* or one creates a pair before the first is known everywhere.
KeysSettle ==
  [][/\ private # None /\ private' # private => raced
     /\ public # None /\ public' # public => raced]_<<private, public, raced>>
=============================================================================
