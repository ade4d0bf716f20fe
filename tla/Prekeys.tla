------------------------------ MODULE Prekeys ------------------------------
(***************************************************************************)
(* First contact through the relay: an owner publishes a bundle and        *)
(* one-time prekeys, strangers fetch it and seal an initial message with   *)
(* it, the owner opens that message (module X3DH).  publish_prekey_bundle  *)
(* is one transaction; fetch_prekey_bundle reads the bundle and takes a    *)
(* one-time prekey in two statements, each of which sees what is committed *)
(* when it runs.  The mailbox exists throughout.  Publications are sent    *)
(* more than once: a client that got no answer repeats them.               *)
(***************************************************************************)
EXTENDS X3DH, FiniteSets, Integers

CONSTANTS Identity,    \* the owner's identities, one after another
          Signed,      \* signed prekeys: one for each publication
          OneTime,     \* one-time prekeys
          Stranger,    \* those who fetch: each its identity, of one message
          Device, Handler,
          Ttl,         \* how long a signed prekey is published for
          MaxTime,     \* bound: the clock
          MaxForgotten \* bound: the secrets the owner discards

ASSUME BoundAssumption == Ttl \in Nat \ {0} /\ MaxTime \in Nat /\ MaxForgotten \in Nat

VARIABLES now,
          bundle,      \* relay_prekey_bundles: the row of the mailbox, or None
          stock,       \* relay_one_time_prekeys: "absent", "unused" or "consumed"
          fetch,       \* a stranger's fetch in progress, what it holds, and its end
          devices,     \* relay_device_records: the signer of the record, or None
          upload,      \* device records being published
          identity,    \* the owner's identity; the identities are used in turn
          kept,        \* the prekeys whose secrets the owner still keeps
          sent,        \* the publications the owner sent
          published,   \* history: the identities in a committed publication
          messages,    \* the initial messages sent
          rejected,    \* history: messages the owner could not open
          served,      \* history: <<stranger, one-time prekey>> answered
          restocked    \* history: one-time prekeys stored again after they were served

owner == <<identity, kept, sent>>
history == <<published, messages, rejected, served, restocked>>
vars == <<now, bundle, stock, fetch, devices, upload, owner, history>>

Publication == [identity : Identity, signer : Identity, signed : Signed,
                ones : SUBSET OneTime, expires : Nat]

Idle == [at |-> "idle"]
Done == [at |-> "done"]

Init ==
  /\ now = 1
  /\ bundle = None
  /\ stock = [k \in OneTime |-> "absent"]
  /\ fetch = [s \in Stranger |-> Idle]
  /\ devices = [d \in Device |-> None]
  /\ upload = [h \in Handler |-> Idle]
  /\ identity \in Identity
  /\ kept = {} /\ sent = {} /\ published = {}
  /\ messages = {} /\ rejected = {}
  /\ served = {} /\ restocked = {}

\* The key a stranger generates for its handshake; its identity is its name.
Ephemeral(s) == <<"ephemeral", s>>

Live(b) == b # None /\ now < b.expires

Unused == {k \in OneTime : stock[k] = "unused"}

(* The rows a fetch has updated in a transaction that is still open.       *)
Locked == {fetch[s].one : s \in {s \in Stranger : fetch[s].at = "taken"}} \ {None}

-----------------------------------------------------------------------------
(* The owner.                                                              *)

Generated == {p.signed : p \in sent} \cup UNION {p.ones : p \in sent}

(* SignedPreKey::generate, OneTimePreKey::generate: new keys, signed with  *)
(* the identity the owner has now, in a request that is sent.              *)
Generate(signed, ones) ==
  /\ signed \notin Generated /\ ones \cap Generated = {}
  /\ kept' = kept \cup {signed} \cup ones
  /\ sent' = sent \cup {[identity |-> identity, signer |-> identity, signed |-> signed,
                         ones |-> ones, expires |-> now + Ttl]}
  /\ UNCHANGED <<now, bundle, stock, fetch, devices, upload, identity, history>>

(* IdentityKeyPair::generate: the owner starts over with a new identity.   *)
NewIdentity(i) ==
  /\ i # identity /\ i \notin {p.identity : p \in sent} /\ sent # {}
  /\ identity' = i
  /\ UNCHANGED <<now, bundle, stock, fetch, devices, upload, kept, sent, history>>

(* The owner discards the secret of a prekey.                              *)
Forget(k) ==
  /\ k \in kept /\ Cardinality(Generated \ kept) < MaxForgotten
  /\ kept' = kept \ {k}
  /\ UNCHANGED <<now, bundle, stock, fetch, devices, upload, identity, sent, history>>

(* open_initial_message with the keys the message names, if they are kept: *)
(* it returns the plaintext, or an error.                                  *)
OpenInitial(m) ==
  /\ m \in messages \ rejected
  /\ ~(/\ m.signed \in kept /\ m.one \in kept \cup {None}
       /\ Opens(identity, m.signed, m.one, m))
  /\ rejected' = rejected \cup {m}
  /\ UNCHANGED <<now, bundle, stock, fetch, devices, upload, owner,
                 published, messages, served, restocked>>

-----------------------------------------------------------------------------
(* The relay.                                                              *)

(* Mutant: the unused prekeys of the last publication stay.                 *)
RestockedMore(p) ==
  [k \in OneTime |-> IF k \in p.ones THEN "unused" ELSE stock[k]]

(* DELETE the unused, INSERT the new ones.                                 *)
Restocked(p) ==
  [k \in OneTime |-> IF k \in p.ones THEN "unused"
                     ELSE IF stock[k] = "unused" THEN "absent" ELSE stock[k]]

(* parse_prekey_bundle_upload.                                             *)
Acceptable(p) == Verify(p) /\ now < p.expires

(* publish_prekey_bundle: validation, then one transaction, which waits    *)
(* for the row locks of a fetch; a prekey that is stored already violates  *)
(* the unique constraint and nothing is changed.                           *)
Publish(p) ==
  /\ p \in sent /\ Acceptable(p)
  /\ Locked = {}
  /\ \A k \in p.ones : stock[k] # "consumed"
  /\ bundle' = [identity |-> p.identity, signer |-> p.signer, signed |-> p.signed,
                expires |-> p.expires, ones |-> p.ones]
  /\ stock' = Restocked(p)
  /\ published' = published \cup {p.identity}
  /\ restocked' = restocked \cup {k \in p.ones : \E s \in Stranger : <<s, k>> \in served}
  /\ UNCHANGED <<now, fetch, devices, upload, owner, messages, rejected, served>>

(* The SELECT of fetch_prekey_bundle.                                      *)
FetchBundle(s) ==
  /\ fetch[s] = Idle /\ Live(bundle)
  /\ fetch' = [fetch EXCEPT ![s] =
       [at |-> "bundle", identity |-> bundle.identity, signer |-> bundle.signer,
        signed |-> bundle.signed, one |-> None]]
  /\ UNCHANGED <<now, bundle, stock, devices, upload, owner, history>>

(* Mutant: rows locked by another fetch are taken as well.                  *)
FetchOneTimeUnlocked(s) ==
  /\ fetch[s].at = "bundle"
  /\ \/ \E k \in Unused : fetch' = [fetch EXCEPT ![s].at = "taken", ![s].one = k]
     \/ Unused = {} /\ fetch' = [fetch EXCEPT ![s].at = "taken"]
  /\ UNCHANGED <<now, bundle, stock, devices, upload, owner, history>>

(* Its UPDATE .. FOR UPDATE SKIP LOCKED: one unused prekey that no other   *)
(* fetch holds; the prekeys of a publication have one created_at.          *)
FetchOneTime(s) ==
  /\ fetch[s].at = "bundle"
  /\ \/ \E k \in Unused \ Locked : fetch' = [fetch EXCEPT ![s].at = "taken", ![s].one = k]
     \/ Unused \subseteq Locked /\ fetch' = [fetch EXCEPT ![s].at = "taken"]
  /\ UNCHANGED <<now, bundle, stock, devices, upload, owner, history>>

(* Its COMMIT; the answer reaches the stranger.                            *)
FetchCommit(s) ==
  LET k == fetch[s].one IN
  /\ fetch[s].at = "taken"
  /\ stock' = IF k = None THEN stock ELSE [stock EXCEPT ![k] = "consumed"]
  /\ served' = IF k = None THEN served ELSE served \cup {<<s, k>>}
  /\ fetch' = [fetch EXCEPT ![s].at = "fetched"]
  /\ UNCHANGED <<now, bundle, devices, upload, owner,
                 published, messages, rejected, restocked>>

(* The fetch fails before its COMMIT, which rolls it back.                 *)
FetchAbort(s) ==
  /\ fetch[s].at \in {"bundle", "taken"}
  /\ fetch' = [fetch EXCEPT ![s] = Idle]
  /\ UNCHANGED <<now, bundle, stock, devices, upload, owner, history>>

(* seal_initial_message.                                                   *)
Seal(s) ==
  /\ fetch[s].at = "fetched" /\ Verify(fetch[s])
  /\ messages' = messages \cup {Initiate(s, Ephemeral(s), fetch[s])}
  /\ fetch' = [fetch EXCEPT ![s] = Done]
  /\ UNCHANGED <<now, bundle, stock, devices, upload, owner,
                 published, rejected, served, restocked>>

(* Mutant: what is not consumed goes too.                                   *)
CleanupEveryOneTime ==
  /\ stock' = [k \in OneTime |-> IF k \in Locked THEN stock[k] ELSE "absent"]
  /\ UNCHANGED <<now, bundle, fetch, devices, upload, owner, history>>

(* The cleanup statement for one-time prekeys: consumed, or without a live *)
(* bundle.                                                                 *)
CleanupOneTime ==
  /\ Locked = {}
  /\ stock' = [k \in OneTime |->
       IF stock[k] = "consumed" \/ ~Live(bundle) THEN "absent" ELSE stock[k]]
  /\ UNCHANGED <<now, bundle, fetch, devices, upload, owner, history>>

(* The cleanup statement for bundles.                                      *)
CleanupBundle ==
  /\ bundle # None /\ ~Live(bundle)
  /\ bundle' = None
  /\ UNCHANGED <<now, stock, fetch, devices, upload, owner, history>>

Tick ==
  /\ now < MaxTime
  /\ now' = now + 1
  /\ UNCHANGED <<bundle, stock, fetch, devices, upload, owner, history>>

-----------------------------------------------------------------------------
(* Device records.                                                         *)

(* DeviceRecord: what one identity signed, no other verifies.              *)
RecordVerifies(signer, i) == signer = i

(* Mutant: the record is not verified.                                      *)
VerifyAnyDevice(h, d, signer) ==
  /\ upload[h] = Idle /\ Live(bundle)
  /\ upload' = [upload EXCEPT ![h] = [at |-> "verified", device |-> d, signer |-> signer]]
  /\ UNCHANGED <<now, bundle, stock, fetch, devices, owner, history>>

(* publish_device_record: the SELECT of the live bundle's identity, and    *)
(* the verification with it.                                               *)
VerifyDevice(h, d, signer) ==
  /\ upload[h] = Idle /\ Live(bundle) /\ RecordVerifies(signer, bundle.identity)
  /\ upload' = [upload EXCEPT ![h] = [at |-> "verified", device |-> d, signer |-> signer]]
  /\ UNCHANGED <<now, bundle, stock, fetch, devices, owner, history>>

(* Its upsert.                                                             *)
UpsertDevice(h) ==
  LET r == upload[h] IN
  /\ r.at = "verified"
  /\ devices' = [devices EXCEPT ![r.device] = r.signer]
  /\ upload' = [upload EXCEPT ![h] = Idle]
  /\ UNCHANGED <<now, bundle, stock, fetch, owner, history>>

Next ==
  \/ \E k \in Signed, ones \in SUBSET OneTime : Generate(k, ones)
  \/ \E i \in Identity : NewIdentity(i)
  \/ \E k \in Signed \cup OneTime : Forget(k)
  \/ \E m \in messages : OpenInitial(m)
  \/ \E p \in sent : Publish(p)
  \/ \E s \in Stranger :
       FetchBundle(s) \/ FetchOneTime(s) \/ FetchCommit(s) \/ FetchAbort(s) \/ Seal(s)
  \/ CleanupOneTime \/ CleanupBundle \/ Tick
  \/ \E h \in Handler :
       \/ \E d \in Device, i \in Identity : VerifyDevice(h, d, i)
       \/ UpsertDevice(h)

Spec == Init /\ [][Next]_vars

-----------------------------------------------------------------------------
(* Properties.                                                             *)

(* Every variable has its type.  A stored device record verifies with an   *)
(* identity the mailbox published, although the bundle may be replaced     *)
(* between the check and the upsert.                                       *)
TypeOK ==
  /\ now \in Nat
  /\ bundle \in Publication \cup {None}
  /\ stock \in [OneTime -> {"absent", "unused", "consumed"}]
  /\ fetch \in [Stranger -> {Idle, Done} \cup
       [at : {"bundle", "taken", "fetched"}, identity : Identity, signer : Identity,
        signed : Signed, one : OneTime \cup {None}]]
  /\ devices \in [Device -> published \cup {None}]
  /\ upload \in [Handler -> [at : {"verified"}, device : Device, signer : Identity] \cup {Idle}]
  /\ identity \in Identity /\ kept \subseteq Signed \cup OneTime
  /\ sent \subseteq Publication /\ published \subseteq Identity
  /\ rejected \subseteq messages
  /\ served \subseteq Stranger \X OneTime /\ restocked \subseteq OneTime

(* A one-time prekey is for one initiator, whatever fetches overlap or are *)
(* rolled back.  Only a repeated publication that arrives after the        *)
(* cleanup dropped the consumed prekey can offer it again.                 *)
OneTimeServedOnce ==
  \A k \in OneTime \ restocked :
    Cardinality({s \in Stranger : <<s, k>> \in served}) <= 1

(* A fetch that read a bundle before a publication may take a one-time     *)
(* prekey of the new one, never one of a publication already replaced:     *)
(* what is unused belongs to the bundle that is stored.                    *)
UnusedBelongToTheBundle ==
  bundle # None => Unused \subseteq bundle.ones

(* While its bundle is live, a published one-time prekey waits until it is *)
(* served: the cleanup, whose statements run between those of a fetch or   *)
(* after a publication, takes none.                                        *)
PublishedPrekeysAreKept ==
  Live(bundle) =>
    \A k \in bundle.ones : stock[k] # "absent" \/ \E s \in Stranger : <<s, k>> \in served

(* An initial message is refused only when the owner discarded a prekey it *)
(* names or has another identity: also when the bundle and the one-time    *)
(* prekey come from two publications, both ends derive the same secret.    *)
RefusedOnlyForAReason ==
  [][\A m \in rejected' \ rejected :
       \/ m.signed \notin kept \/ m.one \notin kept \cup {None}
       \/ \A p \in sent : p.signed = m.signed => p.identity # identity]_vars
=============================================================================
