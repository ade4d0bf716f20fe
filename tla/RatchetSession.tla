--------------------------- MODULE RatchetSession ---------------------------
(***************************************************************************)
(* The value semantics of comm-core's DoubleRatchetSession: what bootstrap,*)
(* encrypt and decrypt do to one session object.  Every operator maps a    *)
(* session record to a session record, so that a state machine can hold    *)
(* the object in memory, on disk or in a command that is still running.    *)
(*                                                                         *)
(* Keys are symbolic.  A ratchet key pair is <<owner, serial number>>; a   *)
(* Diffie-Hellman output is the unordered pair of the two public keys; a   *)
(* root key is the sequence of the Diffie-Hellman outputs mixed into it; a *)
(* chain key is the root that started the chain and the number of times it *)
(* was advanced; a message key is the chain key it was derived from.  Two  *)
(* keys are equal exactly when they were derived from the same inputs.     *)
(* The version check, base64 and the rejection of an empty plaintext leave *)
(* the session alone and are left out; both ends pass the same associated  *)
(* data.                                                                   *)
(***************************************************************************)
EXTENDS Integers, Sequences, FiniteSets

CONSTANTS Party,       \* the two ends of a session
          MaxSkipped,  \* MAX_SKIPPED_MESSAGE_KEYS
          None         \* Option::None

RatchetKey == Party \X Nat
DHOutput   == SUBSET RatchetKey
RootKey    == Seq(DHOutput)
ChainKey   == [root : RootKey, n : Nat]
SkippedId  == RatchetKey \X Nat

ASSUME MaxSkippedAssumption == MaxSkipped \in Nat
ASSUME NoneAssumption == None \notin ChainKey

(* The fields of DoubleRatchetSession.  remote is an Option in the code;   *)
(* both bootstraps set it and nothing clears it.                           *)
IsSession(s) ==
  /\ s \in [ root : RootKey, local : RatchetKey, remote : RatchetKey,
             sendCK : ChainKey \cup {None}, recvCK : ChainKey \cup {None},
             prevLen : Nat, sent : Nat, recvd : Nat, skipped : {s.skipped} ]
  /\ DOMAIN s.skipped \subseteq SkippedId
  /\ IsFiniteSet(DOMAIN s.skipped)
  /\ s.skipped \in [DOMAIN s.skipped -> ChainKey]

(* A RatchetMessageEnvelope: the header's fields and the key it is sealed  *)
(* with, which only the ends can compute.                                  *)
Envelope == [key : RatchetKey, pn : Nat, n : Nat, mk : ChainKey]

-----------------------------------------------------------------------------
(* Key derivation.                                                         *)

DiffieHellman(a, b) == {a, b}

DeriveRootKey(root, dh) == Append(root, dh)

FirstChainKey(root) == [root |-> root, n |-> 0]

Advanced(ck, steps) == [ck EXCEPT !.n = @ + steps]

NextChainKey(ck) == Advanced(ck, 1)

-----------------------------------------------------------------------------
(* Bootstraps.  The X3DH shared secret is the empty root.                  *)

BootstrapRoot(local, remote) == DeriveRootKey(<<>>, DiffieHellman(local, remote))

BootstrapInitiator(ephemeral, signedPreKey) ==
  LET root == BootstrapRoot(ephemeral, signedPreKey) IN
  [ root |-> root, local |-> ephemeral, remote |-> signedPreKey,
    sendCK |-> FirstChainKey(root), recvCK |-> None,
    prevLen |-> 0, sent |-> 0, recvd |-> 0, skipped |-> <<>> ]

BootstrapResponder(signedPreKey, ephemeral) ==
  LET root == BootstrapRoot(signedPreKey, ephemeral) IN
  [ root |-> root, local |-> signedPreKey, remote |-> ephemeral,
    sendCK |-> None, recvCK |-> FirstChainKey(root),
    prevLen |-> 0, sent |-> 0, recvd |-> 0, skipped |-> <<>> ]

-----------------------------------------------------------------------------
(* Sending.                                                                *)

(* Mutant: a new ratchet step for every message, guard dropped.             *)
EnsureSendingChainAlways(s, newKey) ==
  LET root == DeriveRootKey(s.root, DiffieHellman(newKey, s.remote)) IN
  [s EXCEPT !.prevLen = s.sent, !.sent = 0, !.local = newKey,
            !.root = root, !.sendCK = FirstChainKey(root)]

(* Mutant: the prior chain's last number instead of its length.             *)
EnsureSendingChainOffByOne(s, newKey) ==
  IF s.sendCK # None
  THEN s
  ELSE [EnsureSendingChainAlways(s, newKey) EXCEPT !.prevLen = s.sent - 1]

(* ensure_sending_chain: the first message after a remote ratchet (or the  *)
(* responder's very first) starts a chain under a new ratchet key.         *)
EnsureSendingChain(s, newKey) ==
  IF s.sendCK # None
  THEN s
  ELSE LET root == DeriveRootKey(s.root, DiffieHellman(newKey, s.remote)) IN
       [s EXCEPT !.prevLen = s.sent, !.sent = 0, !.local = newKey,
                 !.root = root, !.sendCK = FirstChainKey(root)]

(* Mutant: the sending chain key is put back as it was taken.               *)
EncryptUnadvanced(s, newKey) ==
  LET t == EnsureSendingChain(s, newKey) IN
  [ session  |-> [t EXCEPT !.sent = @ + 1],
    envelope |-> [key |-> t.local, pn |-> t.prevLen, n |-> t.sent,
                  mk |-> t.sendCK] ]

(* encrypt: the header carries the counters before the message is counted. *)
Encrypt(s, newKey) ==
  LET t == EnsureSendingChain(s, newKey) IN
  [ session  |-> [t EXCEPT !.sendCK = NextChainKey(@), !.sent = @ + 1],
    envelope |-> [key |-> t.local, pn |-> t.prevLen, n |-> t.sent,
                  mk |-> t.sendCK] ]

-----------------------------------------------------------------------------
(* Receiving.  A step of decrypt returns the session as it leaves it and   *)
(* whether it succeeded: an error keeps whatever was changed before it.    *)

Ok(s)     == [session |-> s, ok |-> TRUE]
Failed(s) == [session |-> s, ok |-> FALSE]

(* The keys of the current receiving chain numbered from recvd to n - 1.   *)
PendingIds(s, n) == {s.remote} \X (s.recvd .. n - 1)

(* The size of the skipped-key map once the keys before n are in it.       *)
HeldBefore(s, n) == Cardinality(DOMAIN s.skipped \cup PendingIds(s, n))

(* The session after the keys before n were put aside.                     *)
PutAside(s, n) ==
  [s EXCEPT !.recvd = n,
            !.recvCK = Advanced(@, n - s.recvd),
            !.skipped = [id \in DOMAIN s.skipped \cup PendingIds(s, n) |->
                           IF id \in PendingIds(s, n)
                           THEN Advanced(s.recvCK, id[2] - s.recvd)
                           ELSE s.skipped[id]]]

(* Mutant: keys are put aside without a limit.                              *)
SkipMessageKeysUnlimited(s, until) ==
  IF until <= s.recvd
  THEN Ok(s)
  ELSE IF s.recvCK = None
  THEN Failed(s)
  ELSE Ok(PutAside(s, until))

(* Mutant: a gap of exactly the limit is refused.                           *)
SkipMessageKeysOffByOne(s, until) ==
  IF until <= s.recvd
  THEN Ok(s)
  ELSE IF until - s.recvd >= MaxSkipped \/ s.recvCK = None
  THEN Failed(s)
  ELSE Ok(PutAside(s, until))

(* skip_message_keys.  The receiving chain key is taken out of the session *)
(* before the loop; when the loop stops at a full map it is not put back.  *)
SkipMessageKeys(s, until) ==
  IF until <= s.recvd
  THEN Ok(s)
  ELSE IF until - s.recvd > MaxSkipped \/ s.recvCK = None
  THEN Failed(s)
  ELSE LET stops == {i \in s.recvd .. until - 1 : HeldBefore(s, i) >= MaxSkipped}
       IN IF stops = {}
          THEN Ok(PutAside(s, until))
          ELSE LET stop == CHOOSE i \in stops : \A j \in stops : i <= j
               IN Failed([PutAside(s, stop) EXCEPT !.recvCK = None])

(* apply_remote_ratchet.                                                   *)
ApplyRemoteRatchet(s, key) ==
  LET root == DeriveRootKey(s.root, DiffieHellman(s.local, key)) IN
  [s EXCEPT !.prevLen = s.sent, !.sent = 0, !.recvd = 0,
            !.root = root, !.remote = key,
            !.recvCK = FirstChainKey(root), !.sendCK = None]

(* The part of decrypt that follows a header with a new ratchet key.       *)
FollowRatchet(s, e) ==
  IF s.remote = e.key
  THEN Ok(s)
  ELSE LET skip == SkipMessageKeys(s, e.pn) IN
       IF skip.ok THEN Ok(ApplyRemoteRatchet(skip.session, e.key)) ELSE skip

(* Mutant: the message is counted, the receiving chain is not advanced.     *)
OpenWithChainUnadvanced(s, e) ==
  IF s.recvCK = None
  THEN Failed(s)
  ELSE [ session |-> [s EXCEPT !.recvd = @ + 1], ok |-> s.recvCK = e.mk ]

(* The end of decrypt: the chain is advanced and counted before the        *)
(* ciphertext is authenticated.                                            *)
OpenWithChain(s, e) ==
  IF s.recvCK = None
  THEN Failed(s)
  ELSE [ session |-> [s EXCEPT !.recvCK = NextChainKey(@), !.recvd = @ + 1],
         ok      |-> s.recvCK = e.mk ]

(* Mutant: the skipped key is read and stays in the map.                    *)
OpenWithSkippedKept(s, e) ==
  [session |-> s, ok |-> s.skipped[<<e.key, e.n>>] = e.mk]

(* try_skipped_message_key: the key leaves the map before it is tried.     *)
OpenWithSkipped(s, e) ==
  [ session |-> [s EXCEPT !.skipped =
                   [id \in DOMAIN s.skipped \ {<<e.key, e.n>>} |-> s.skipped[id]]],
    ok      |-> s.skipped[<<e.key, e.n>>] = e.mk ]

Decrypt(s, e) ==
  IF <<e.key, e.n>> \in DOMAIN s.skipped
  THEN OpenWithSkipped(s, e)
  ELSE LET follow == FollowRatchet(s, e) IN
       IF ~follow.ok
       THEN follow
       ELSE LET skip == SkipMessageKeys(follow.session, e.n) IN
            IF skip.ok THEN OpenWithChain(skip.session, e) ELSE skip

-----------------------------------------------------------------------------
(* persist copies every field; from_persisted rebuilds the map entry by    *)
(* entry and gives up when a further entry finds MAX keys in it already.   *)
Restorable(s) == Cardinality(DOMAIN s.skipped) <= MaxSkipped

(* What a session can still compute: a key it put aside, or a key of the   *)
(* receiving chain that it has not passed.                                 *)
CanDerive(s, mk) ==
  \/ \E id \in DOMAIN s.skipped : s.skipped[id] = mk
  \/ s.recvCK # None /\ s.recvCK.root = mk.root /\ s.recvCK.n <= mk.n
=============================================================================
