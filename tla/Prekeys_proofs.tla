--------------------------- MODULE Prekeys_proofs ---------------------------
(***************************************************************************)
(* First contact, for every number of identities, prekeys and strangers:   *)
(* one-time prekeys are served once, belong to the bundle that is stored   *)
(* and wait there; the owner refuses a message only for a reason.          *)
(***************************************************************************)
EXTENDS Prekeys, FiniteSetTheorems, TLAPS

Fetched == {"bundle", "taken", "fetched"}

FetchRecord ==
  [at : Fetched, identity : Identity, signer : Identity, signed : Signed,
   one : OneTime \cup {None}]

(* What verifies the device records was published.                         *)
SignersPublished ==
  /\ bundle # None => bundle.identity \in published
  /\ \A h \in Handler : upload[h].at = "verified" => upload[h].signer \in published

Typed == TypeOK /\ SignersPublished

(* A signed prekey is in one publication, signed by its identity; bundles, *)
(* fetches and messages come from a publication.                           *)
OnePublication ==
  /\ \A p \in sent : p.signer = p.identity
  /\ \A p, q \in sent : p.signed = q.signed => p = q

FromPublication(r) == \E p \in sent : r.identity = p.identity /\ r.signed = p.signed

SealedFor(m, s, p, k) ==
  /\ m.sender = s /\ m.ephemeral = Ephemeral(s) /\ m.signed = p.signed /\ m.one = k
  /\ m.secret = SharedSecret(DH(s, p.signed), DH(Ephemeral(s), p.identity),
                  DH(Ephemeral(s), p.signed),
                  IF k = None THEN <<>> ELSE <<DH(Ephemeral(s), k)>>)

Origins ==
  /\ OnePublication
  /\ bundle # None => bundle \in sent
  /\ \A s \in Stranger : fetch[s].at \in Fetched => FromPublication(fetch[s])
  /\ \A m \in messages :
       \E s \in Stranger, p \in sent, k \in OneTime \cup {None} : SealedFor(m, s, p, k)

(* The one-time prekeys: what a fetch holds is unused and its own; what is *)
(* consumed was served; what was served is not unused, and served once.    *)
Takes(s, k) == fetch[s].at = "taken" /\ fetch[s].one = k /\ k # None

HoldsNothingYet == \A s \in Stranger : fetch[s].at = "bundle" => fetch[s].one = None

TakenApart ==
  \A s \in Stranger, k \in OneTime :
    Takes(s, k) => stock[k] = "unused" /\ \A t \in Stranger : Takes(t, k) => t = s

ConsumedWasServed ==
  \A k \in OneTime : stock[k] = "consumed" => \E s \in Stranger : <<s, k>> \in served

ServedIsGone ==
  \A k \in OneTime \ restocked, s \in Stranger : <<s, k>> \in served =>
    stock[k] # "unused" /\ \A t \in Stranger : <<t, k>> \in served => t = s

OneTimes ==
  HoldsNothingYet /\ TakenApart /\ ConsumedWasServed /\ ServedIsGone
    /\ UnusedBelongToTheBundle /\ PublishedPrekeysAreKept

-----------------------------------------------------------------------------
(* What a fetch in progress has.                                           *)
LEMMA FetchHas ==
  ASSUME TypeOK, NEW s \in Stranger, fetch[s].at \in Fetched
  PROVE  fetch[s] \in FetchRecord
BY DEF TypeOK, Fetched, FetchRecord, Idle, Done

LEMMA TypedInit == Init => Typed
BY DEF Init, Typed, TypeOK, SignersPublished, Idle

LEMMA TypedStep == Typed /\ [Next]_vars => Typed'
<1> SUFFICES ASSUME Typed, [Next]_vars PROVE Typed'
  OBVIOUS
<1> USE DEF Typed
<1>1. ASSUME NEW k \in Signed, NEW ones \in SUBSET OneTime, Generate(k, ones) PROVE Typed'
  <2>1. [identity |-> identity, signer |-> identity, signed |-> k, ones |-> ones,
         expires |-> now + Ttl] \in Publication
    BY BoundAssumption DEF TypeOK, Publication
  <2> QED  BY <1>1, <2>1 DEF Generate, TypeOK, SignersPublished, history
<1>2. ASSUME NEW i \in Identity, NewIdentity(i) PROVE Typed'
  BY <1>2 DEF NewIdentity, TypeOK, SignersPublished, history
<1>3. ASSUME NEW k \in Signed \cup OneTime, Forget(k) PROVE Typed'
  BY <1>3 DEF Forget, TypeOK, SignersPublished, history
<1>4. ASSUME NEW m \in messages, OpenInitial(m) PROVE Typed'
  BY <1>4 DEF OpenInitial, TypeOK, SignersPublished, owner
<1>5. ASSUME NEW p \in sent, Publish(p) PROVE Typed'
  <2>1. p \in Publication
    BY DEF TypeOK
  <2>2. stock' \in [OneTime -> {"absent", "unused", "consumed"}]
    BY <1>5 DEF Publish, Restocked, TypeOK
  <2>3. bundle' \in Publication /\ bundle'.identity = p.identity
    BY <1>5, <2>1 DEF Publish, Publication
  <2>4. published \subseteq published' /\ published' \subseteq Identity /\ p.identity \in published'
    BY <1>5, <2>1 DEF Publish, TypeOK, Publication
  <2>5. devices' \in [Device -> published' \cup {None}]
    BY <1>5, <2>4 DEF Publish, TypeOK
  <2>6. restocked' \subseteq OneTime
    BY <1>5, <2>1 DEF Publish, TypeOK, Publication
  <2> QED
    BY <1>5, <2>2, <2>3, <2>4, <2>5, <2>6 DEF Publish, TypeOK, SignersPublished, owner
<1>6. ASSUME NEW s \in Stranger,
             FetchBundle(s) \/ FetchOneTime(s) \/ FetchCommit(s) \/ FetchAbort(s) \/ Seal(s)
      PROVE  Typed'
  <2>1. UNCHANGED <<now, bundle, devices, upload, owner, published, rejected, restocked>>
        /\ messages \subseteq messages'
    BY <1>6 DEF FetchBundle, FetchOneTime, FetchCommit, FetchAbort, Seal, history, owner
  <2>2. \E r \in {Idle, Done} \cup FetchRecord : fetch' = [fetch EXCEPT ![s] = r]
    <3>1. CASE FetchBundle(s)
      <4>1. [at |-> "bundle", identity |-> bundle.identity, signer |-> bundle.signer,
             signed |-> bundle.signed, one |-> None] \in FetchRecord
        BY <3>1 DEF FetchBundle, Live, TypeOK, FetchRecord, Fetched, Publication
      <4> QED  BY <3>1, <4>1 DEF FetchBundle
    <3>2. CASE FetchOneTime(s)
      <4>1. PICK k \in OneTime \cup {None} :
              fetch' = [fetch EXCEPT ![s] = [fetch[s] EXCEPT !.at = "taken", !.one = k]]
        <5>1. fetch[s] \in FetchRecord
          BY <3>2, FetchHas DEF FetchOneTime, Fetched
        <5>2. CASE fetch' = [fetch EXCEPT ![s].at = "taken"]
          <6>1. fetch[s].one \in OneTime \cup {None}
            BY <5>1 DEF FetchRecord
          <6>2. [fetch[s] EXCEPT !.at = "taken"] = [fetch[s] EXCEPT !.at = "taken", !.one = fetch[s].one]
            BY <5>1 DEF FetchRecord
          <6> QED  BY <5>2, <6>1, <6>2
        <5>3. CASE \E k \in Unused : fetch' = [fetch EXCEPT ![s].at = "taken", ![s].one = k]
          BY <5>3 DEF Unused, TypeOK
        <5> QED  BY <3>2, <5>2, <5>3 DEF FetchOneTime
      <4>2. [fetch[s] EXCEPT !.at = "taken", !.one = k] \in FetchRecord
        BY <3>2, FetchHas DEF FetchOneTime, Fetched, FetchRecord
      <4> QED  BY <4>1, <4>2
    <3>3. CASE FetchCommit(s)
      <4>1. [fetch[s] EXCEPT !.at = "fetched"] \in FetchRecord
        BY <3>3, FetchHas DEF FetchCommit, Fetched, FetchRecord
      <4> QED  BY <3>3, <4>1 DEF FetchCommit
    <3>4. CASE FetchAbort(s) \/ Seal(s)
      BY <3>4 DEF FetchAbort, Seal
    <3> QED  BY <1>6, <3>1, <3>2, <3>3, <3>4
  <2>3. fetch' \in [Stranger -> {Idle, Done} \cup FetchRecord]
    BY <2>2 DEF TypeOK, FetchRecord, Fetched
  <2>4. /\ stock' \in [OneTime -> {"absent", "unused", "consumed"}]
        /\ served' \subseteq Stranger \X OneTime
    <3>1. CASE FetchCommit(s)
      <4>1. fetch[s].one \in OneTime \cup {None}
        BY <3>1, FetchHas DEF FetchCommit, Fetched, FetchRecord
      <4> QED  BY <3>1, <4>1 DEF FetchCommit, TypeOK
    <3>2. CASE ~FetchCommit(s)
      BY <1>6, <3>2 DEF FetchBundle, FetchOneTime, FetchAbort, Seal, TypeOK, history
    <3> QED  BY <3>1, <3>2
  <2> QED
    BY <2>1, <2>3, <2>4 DEF TypeOK, SignersPublished, owner, FetchRecord, Fetched
<1>7. CASE CleanupOneTime \/ CleanupBundle \/ Tick
  BY <1>7 DEF CleanupOneTime, CleanupBundle, Tick, TypeOK, SignersPublished, history, owner
<1>8. ASSUME NEW h \in Handler, NEW d \in Device, NEW i \in Identity, VerifyDevice(h, d, i)
      PROVE  Typed'
  BY <1>8 DEF VerifyDevice, RecordVerifies, Live, TypeOK, SignersPublished, history, owner, Idle
<1>9. ASSUME NEW h \in Handler, UpsertDevice(h) PROVE Typed'
  <2>1. upload[h].device \in Device /\ upload[h].signer \in published
    BY <1>9 DEF UpsertDevice, TypeOK, SignersPublished, Idle
  <2> QED  BY <1>9, <2>1 DEF UpsertDevice, TypeOK, SignersPublished, history, owner, Idle
<1>10. CASE UNCHANGED vars
  BY <1>10 DEF vars, TypeOK, SignersPublished, history, owner
<1> QED  BY <1>1, <1>2, <1>3, <1>4, <1>5, <1>6, <1>7, <1>8, <1>9, <1>10 DEF Next

(* Every variable has its type, and a stored device record verifies with   *)
(* an identity the mailbox published.                                      *)
THEOREM TypeCorrect == Spec => []TypeOK
<1>1. Typed => TypeOK
  BY DEF Typed
<1> QED  BY TypedInit, TypedStep, <1>1, PTL DEF Spec

-----------------------------------------------------------------------------
(* Both ends derive the same secret.                                       *)

(* respond_x3dh meets what initiate_x3dh sent, with the prekeys it names   *)
(* and the identity of their publication.                                  *)
LEMMA ResponseMeetsInitiation ==
  ASSUME NEW m, NEW s, NEW p, NEW k, SealedFor(m, s, p, k)
  PROVE  Opens(p.identity, m.signed, m.one, m)
<1>1. \A a, b : DH(a, b) = DH(b, a)
  BY DEF DH
<1>2. Respond(p.identity, m.signed, m.one, m) = m.secret
  BY <1>1 DEF SealedFor, Respond
<1> QED  BY <1>2 DEF Opens

LEMMA OriginsInit == Init => Origins
BY DEF Init, Origins, OnePublication, Idle, Fetched

LEMMA OriginsStep == Typed /\ Origins /\ [Next]_vars => Origins'
<1> SUFFICES ASSUME Typed, Origins, [Next]_vars PROVE Origins'
  OBVIOUS
<1> USE DEF Typed
<1>a. sent \subseteq Publication
  BY DEF TypeOK
<1>1. ASSUME NEW k \in Signed, NEW ones \in SUBSET OneTime, Generate(k, ones) PROVE Origins'
  <2> DEFINE q == [identity |-> identity, signer |-> identity, signed |-> k, ones |-> ones,
                   expires |-> now + Ttl]
  <2>1. sent' = sent \cup {q} /\ UNCHANGED <<bundle, fetch, messages>>
    BY <1>1 DEF Generate, history
  <2>2. \A p \in sent : p.signed # k
    BY <1>1 DEF Generate, Generated
  <2>3. q.signed = k /\ q.signer = q.identity
    OBVIOUS
  <2> HIDE DEF q
  <2>4. OnePublication'
    BY <2>1, <2>2, <2>3 DEF Origins, OnePublication
  <2>5. \A s \in Stranger : fetch'[s].at \in Fetched => FromPublication(fetch[s])'
    BY <2>1 DEF Origins, FromPublication
  <2> QED  BY <2>1, <2>4, <2>5 DEF Origins, SealedFor
<1>5. ASSUME NEW p \in sent, Publish(p) PROVE Origins'
  <2>1. bundle' = p
    BY <1>5, <1>a DEF Publish, Publication
  <2>2. UNCHANGED <<sent, fetch, messages>>
    BY <1>5 DEF Publish, owner
  <2> QED  BY <2>1, <2>2 DEF Origins, OnePublication, FromPublication, SealedFor
<1>6. ASSUME NEW s \in Stranger, FetchBundle(s) \/ FetchOneTime(s) \/ FetchCommit(s) \/ FetchAbort(s)
      PROVE  Origins'
  <2>1. UNCHANGED <<sent, bundle, messages>>
    BY <1>6 DEF FetchBundle, FetchOneTime, FetchCommit, FetchAbort, history, owner
  <2>2. \A t \in Stranger \ {s} : fetch'[t] = fetch[t]
    BY <1>6 DEF FetchBundle, FetchOneTime, FetchCommit, FetchAbort, TypeOK
  <2>3. fetch'[s].at \in Fetched => FromPublication(fetch[s])'
    <3>1. CASE FetchBundle(s)
      <4>1. fetch'[s].identity = bundle.identity /\ fetch'[s].signed = bundle.signed
        BY <3>1 DEF FetchBundle, TypeOK
      <4>2. bundle \in sent
        BY <3>1 DEF FetchBundle, Live, Origins
      <4> QED  BY <2>1, <4>1, <4>2 DEF FromPublication
    <3>2. CASE FetchOneTime(s) \/ FetchCommit(s)
      <4>1. fetch[s].at \in Fetched /\ fetch[s] \in FetchRecord
        BY <3>2, FetchHas DEF FetchOneTime, FetchCommit, Fetched
      <4>2. fetch'[s].identity = fetch[s].identity /\ fetch'[s].signed = fetch[s].signed
        BY <3>2, <4>1 DEF FetchOneTime, FetchCommit, TypeOK, FetchRecord
      <4> QED  BY <2>1, <4>1, <4>2 DEF FromPublication, Origins
    <3>3. CASE FetchAbort(s)
      BY <3>3 DEF FetchAbort, TypeOK, Idle, Fetched
    <3> QED  BY <1>6, <3>1, <3>2, <3>3
  <2> QED  BY <2>1, <2>2, <2>3 DEF Origins, OnePublication, FromPublication, SealedFor
<1>7. ASSUME NEW s \in Stranger, Seal(s) PROVE Origins'
  <2>1. fetch[s].at \in Fetched /\ fetch[s] \in FetchRecord
    BY <1>7, FetchHas DEF Seal, Fetched
  <2>2. PICK p \in sent : fetch[s].identity = p.identity /\ fetch[s].signed = p.signed
    BY <2>1 DEF Origins, FromPublication
  <2>3. fetch[s].one \in OneTime \cup {None}
    BY <2>1 DEF FetchRecord
  <2>4. SealedFor(Initiate(s, Ephemeral(s), fetch[s]), s, p, fetch[s].one)
    BY <2>2 DEF SealedFor, Initiate
  <2>5. UNCHANGED <<sent, bundle>> /\ messages' = messages \cup {Initiate(s, Ephemeral(s), fetch[s])}
    BY <1>7 DEF Seal, owner
  <2>6. \A t \in Stranger : fetch'[t].at \in Fetched => fetch'[t] = fetch[t]
    BY <1>7 DEF Seal, TypeOK, Done, Fetched
  <2>7. \A m \in messages' :
          \E t \in Stranger, q \in sent, k \in OneTime \cup {None} : SealedFor(m, t, q, k)
    BY <2>3, <2>4, <2>5 DEF Origins
  <2> QED  BY <2>5, <2>6, <2>7 DEF Origins, OnePublication, FromPublication, SealedFor
<1>8. CASE UNCHANGED <<sent, fetch, messages>> /\ (bundle' = bundle \/ bundle' = None)
  BY <1>8 DEF Origins, OnePublication, FromPublication, SealedFor
<1>9. CASE \/ \E i \in Identity : NewIdentity(i)
           \/ \E k \in Signed \cup OneTime : Forget(k)
           \/ \E m \in messages : OpenInitial(m)
           \/ CleanupOneTime \/ CleanupBundle \/ Tick
           \/ \E h \in Handler :
                (\E d \in Device, i \in Identity : VerifyDevice(h, d, i)) \/ UpsertDevice(h)
           \/ UNCHANGED vars
  BY <1>8, <1>9 DEF NewIdentity, Forget, OpenInitial, CleanupOneTime, CleanupBundle, Tick,
     VerifyDevice, UpsertDevice, vars, history, owner
<1> QED  BY <1>1, <1>5, <1>6, <1>7, <1>9 DEF Next

(* An initial message is refused only when the owner discarded a prekey it *)
(* names or has another identity.                                          *)
THEOREM RefusalsHaveAReason == Spec => RefusedOnlyForAReason
<1>1. Typed /\ Origins /\ [Next]_vars =>
        [\A m \in rejected' \ rejected :
           \/ m.signed \notin kept \/ m.one \notin kept \cup {None}
           \/ \A p \in sent : p.signed = m.signed => p.identity # identity]_vars
  <2> SUFFICES ASSUME Typed, Origins, Next, NEW m \in rejected' \ rejected,
                      m.signed \in kept, m.one \in kept \cup {None},
                      NEW p \in sent, p.signed = m.signed, p.identity = identity
               PROVE  FALSE
    OBVIOUS
  <2>1. PICK n \in messages : OpenInitial(n)
    BY DEF Next, Generate, NewIdentity, Forget, Publish, FetchBundle, FetchOneTime, FetchCommit,
       FetchAbort, Seal, CleanupOneTime, CleanupBundle, Tick, VerifyDevice, UpsertDevice,
       history, owner
  <2>2. n = m
    BY <2>1 DEF OpenInitial
  <2>3. PICK s \in Stranger, q \in sent, k \in OneTime \cup {None} : SealedFor(m, s, q, k)
    BY <2>2 DEF Origins
  <2>4. q = p
    BY <2>3 DEF SealedFor, Origins, OnePublication
  <2>5. Opens(identity, m.signed, m.one, m)
    BY <2>3, <2>4, ResponseMeetsInitiation
  <2> QED  BY <2>1, <2>2, <2>5 DEF OpenInitial
<1> QED
  BY TypedInit, TypedStep, OriginsInit, OriginsStep, <1>1, PTL DEF Spec, RefusedOnlyForAReason

-----------------------------------------------------------------------------
(* One-time prekeys.                                                       *)

LEMMA OneTimesInit == Init => OneTimes
BY DEF Init, OneTimes, HoldsNothingYet, TakenApart, ConsumedWasServed, ServedIsGone,
       UnusedBelongToTheBundle, PublishedPrekeysAreKept, Takes, Live, Idle

(* Nothing of them changes when these do not.                              *)
LEMMA OneTimesUnchanged ==
  ASSUME OneTimes, UNCHANGED <<now, bundle, stock, fetch, served, restocked>>
  PROVE  OneTimes'
<1>1. HoldsNothingYet' /\ TakenApart'
  BY DEF OneTimes, HoldsNothingYet, TakenApart, Takes
<1>2. ConsumedWasServed' /\ ServedIsGone'
  BY DEF OneTimes, ConsumedWasServed, ServedIsGone
<1>3. UnusedBelongToTheBundle' /\ PublishedPrekeysAreKept'
  BY DEF OneTimes, UnusedBelongToTheBundle, PublishedPrekeysAreKept, Live, Unused
<1> QED  BY <1>1, <1>2, <1>3 DEF OneTimes

(* A publication and a cleanup find no row locked.                         *)
LEMMA NothingTaken ==
  ASSUME TypeOK, Locked = {}
  PROVE  \A s \in Stranger, k \in OneTime : ~Takes(s, k)
BY DEF Locked, Takes

LEMMA PublishOneTimes ==
  ASSUME Typed, OneTimes, NEW p \in sent, Publish(p)
  PROVE  OneTimes'
<1>1. p.ones \subseteq OneTime /\ bundle'.ones = p.ones
  BY DEF Typed, TypeOK, Publication, Publish
<1>2. \A k \in OneTime : stock'[k] = IF k \in p.ones THEN "unused"
                                     ELSE IF stock[k] = "unused" THEN "absent" ELSE stock[k]
  BY DEF Publish, Restocked
<1>3. UNCHANGED <<now, fetch, served>>
  BY DEF Publish
<1>4. HoldsNothingYet' /\ TakenApart'
  BY <1>3, NothingTaken DEF OneTimes, HoldsNothingYet, Publish, Typed, TakenApart, Takes
<1>5. ConsumedWasServed'
  BY <1>2, <1>3 DEF OneTimes, ConsumedWasServed
<1>6. ServedIsGone'
  <2>1. restocked' = restocked \cup {k \in p.ones : \E s \in Stranger : <<s, k>> \in served}
    BY DEF Publish
  <2> QED  BY <1>2, <1>3, <2>1 DEF OneTimes, ServedIsGone
<1>7. UnusedBelongToTheBundle' /\ PublishedPrekeysAreKept'
  BY <1>1, <1>2 DEF UnusedBelongToTheBundle, PublishedPrekeysAreKept, Unused
<1> QED  BY <1>4, <1>5, <1>6, <1>7 DEF OneTimes

LEMMA FetchOneTimes ==
  ASSUME Typed, OneTimes, NEW s \in Stranger, FetchBundle(s) \/ FetchOneTime(s) \/ FetchAbort(s) \/ Seal(s)
  PROVE  OneTimes'
<1>1. UNCHANGED <<now, bundle, stock, served, restocked>>
  BY DEF FetchBundle, FetchOneTime, FetchAbort, Seal, history
<1>2. \A t \in Stranger \ {s} : \A k : Takes(t, k)' <=> Takes(t, k)
  BY DEF FetchBundle, FetchOneTime, FetchAbort, Seal, Typed, TypeOK, Takes
<1>3. ASSUME NEW k \in OneTime, Takes(s, k)'
      PROVE  stock[k] = "unused" /\ \A t \in Stranger \ {s} : ~Takes(t, k)
  <2>1. FetchOneTime(s)
    BY <1>3 DEF FetchBundle, FetchAbort, Seal, Typed, TypeOK, Takes, Idle, Done
  <2>2. fetch[s] \in FetchRecord
    BY <2>1, FetchHas DEF FetchOneTime, Fetched, Typed
  <2>3. CASE \E n \in Unused \ Locked : fetch' = [fetch EXCEPT ![s].at = "taken", ![s].one = n]
    <3>1. k \in Unused \ Locked
      BY <1>3, <2>2, <2>3 DEF Takes, Typed, TypeOK, FetchRecord
    <3> QED  BY <3>1 DEF Unused, Locked, Takes
  <2>4. CASE fetch' = [fetch EXCEPT ![s].at = "taken"]
    <3>1. fetch[s].one = k /\ k # None
      BY <1>3, <2>2, <2>4 DEF Takes, Typed, TypeOK, FetchRecord
    <3>2. fetch[s].at = "bundle" /\ fetch[s].one = None
      BY <2>1 DEF FetchOneTime, OneTimes, HoldsNothingYet
    <3> QED  BY <3>1, <3>2
  <2> QED  BY <2>1, <2>3, <2>4 DEF FetchOneTime
<1>4. TakenApart'
  BY <1>1, <1>2, <1>3 DEF OneTimes, TakenApart
<1>5. HoldsNothingYet'
  BY DEF OneTimes, HoldsNothingYet, FetchBundle, FetchOneTime, FetchAbort, Seal, Typed, TypeOK,
     Idle, Done
<1> QED
  BY <1>1, <1>4, <1>5 DEF OneTimes, ConsumedWasServed, ServedIsGone, UnusedBelongToTheBundle,
     PublishedPrekeysAreKept, Live, Unused

LEMMA CommitOneTimes ==
  ASSUME Typed, OneTimes, NEW s \in Stranger, FetchCommit(s)
  PROVE  OneTimes'
<1> DEFINE k == fetch[s].one
<1>1. UNCHANGED <<now, bundle, restocked>> /\ fetch' = [fetch EXCEPT ![s].at = "fetched"]
  BY DEF FetchCommit
<1>2. \A t \in Stranger : \A n : Takes(t, n)' => t # s /\ Takes(t, n)
  BY <1>1 DEF Typed, TypeOK, Takes
<1>5. HoldsNothingYet'
  BY <1>1 DEF OneTimes, HoldsNothingYet, Typed, TypeOK
<1>3. CASE k = None
  <2>1. UNCHANGED <<stock, served>>
    BY <1>3 DEF FetchCommit
  <2> QED
    BY <1>1, <1>2, <1>5, <2>1 DEF OneTimes, TakenApart, ConsumedWasServed, ServedIsGone,
       UnusedBelongToTheBundle, PublishedPrekeysAreKept, Live, Unused
<1>4. CASE k # None
  <2>1. k \in OneTime /\ Takes(s, k)
    BY <1>4, FetchHas DEF FetchCommit, Typed, Fetched, FetchRecord, Takes
  <2>2. stock[k] = "unused" /\ \A t \in Stranger : Takes(t, k) => t = s
    BY <2>1 DEF OneTimes, TakenApart
  <2>3. stock' = [stock EXCEPT ![k] = "consumed"] /\ served' = served \cup {<<s, k>>}
    BY <1>4 DEF FetchCommit
  <2>4. \A n \in OneTime : stock'[n] = IF n = k THEN "consumed" ELSE stock[n]
    BY <2>3 DEF Typed, TypeOK
  <2> HIDE DEF k
  <2>5. TakenApart'
    BY <1>2, <2>2, <2>4 DEF OneTimes, TakenApart
  <2>6. ConsumedWasServed'
    BY <2>3, <2>4 DEF OneTimes, ConsumedWasServed
  <2>7. ServedIsGone'
    BY <1>1, <2>2, <2>3, <2>4 DEF OneTimes, ServedIsGone
  <2>8. UnusedBelongToTheBundle' /\ PublishedPrekeysAreKept'
    BY <1>1, <2>3, <2>4 DEF OneTimes, UnusedBelongToTheBundle, PublishedPrekeysAreKept, Live,
       Unused, Typed, TypeOK, Publication
  <2> QED  BY <1>5, <2>5, <2>6, <2>7, <2>8 DEF OneTimes
<1> QED  BY <1>3, <1>4

LEMMA CleanupOneTimes ==
  ASSUME Typed, OneTimes, CleanupOneTime \/ CleanupBundle \/ Tick
  PROVE  OneTimes'
<1>1. CASE CleanupOneTime
  <2>1. UNCHANGED <<now, bundle, fetch, served, restocked>> /\ Locked = {}
    BY <1>1 DEF CleanupOneTime, history
  <2>2. \A k \in OneTime : stock'[k] = IF stock[k] = "consumed" \/ ~Live(bundle) THEN "absent"
                                       ELSE stock[k]
    BY <1>1 DEF CleanupOneTime
  <2>3. HoldsNothingYet' /\ TakenApart'
    BY <2>1, NothingTaken DEF OneTimes, HoldsNothingYet, Typed, TakenApart, Takes
  <2>4. PublishedPrekeysAreKept'
    BY <2>1, <2>2 DEF OneTimes, ConsumedWasServed, PublishedPrekeysAreKept, Live, Typed, TypeOK,
       Publication
  <2> QED
    BY <2>1, <2>2, <2>3, <2>4 DEF OneTimes, ConsumedWasServed, ServedIsGone,
       UnusedBelongToTheBundle, Unused
<1>2. CASE CleanupBundle \/ Tick
  <2>1. UNCHANGED <<stock, fetch, served, restocked>>
    BY <1>2 DEF CleanupBundle, Tick, history
  <2>2. bundle' = bundle \/ bundle' = None
    BY <1>2 DEF CleanupBundle, Tick
  <2>3. Live(bundle)' => bundle' = bundle /\ Live(bundle)
    BY <1>2 DEF CleanupBundle, Tick, Live, Typed, TypeOK, Publication
  <2> QED
    BY <2>1, <2>2, <2>3 DEF OneTimes, HoldsNothingYet, TakenApart, ConsumedWasServed, ServedIsGone,
       UnusedBelongToTheBundle, PublishedPrekeysAreKept, Unused, Takes
<1> QED  BY <1>1, <1>2

LEMMA OneTimesStep == Typed /\ OneTimes /\ [Next]_vars => OneTimes'
<1> SUFFICES ASSUME Typed, OneTimes, [Next]_vars PROVE OneTimes'
  OBVIOUS
<1>1. CASE \/ \E k \in Signed, ones \in SUBSET OneTime : Generate(k, ones)
           \/ \E i \in Identity : NewIdentity(i)
           \/ \E k \in Signed \cup OneTime : Forget(k)
           \/ \E m \in messages : OpenInitial(m)
           \/ \E h \in Handler :
                (\E d \in Device, i \in Identity : VerifyDevice(h, d, i)) \/ UpsertDevice(h)
           \/ UNCHANGED vars
  BY <1>1, OneTimesUnchanged DEF Generate, NewIdentity, Forget, OpenInitial, VerifyDevice,
     UpsertDevice, vars, history
<1> QED
  BY <1>1, PublishOneTimes, FetchOneTimes, CommitOneTimes, CleanupOneTimes DEF Next

(* A one-time prekey is for one initiator, unless it was stored again      *)
(* after it was served.                                                    *)
THEOREM ServedOnce == Spec => []OneTimeServedOnce
<1>1. OneTimes => OneTimeServedOnce
  <2> SUFFICES ASSUME OneTimes, NEW k \in OneTime \ restocked
               PROVE  Cardinality({s \in Stranger : <<s, k>> \in served}) <= 1
    BY DEF OneTimeServedOnce
  <2> DEFINE S == {s \in Stranger : <<s, k>> \in served}
  <2>1. S = {} \/ \E s \in S : S = {s}
    BY DEF OneTimes, ServedIsGone
  <2> HIDE DEF S
  <2>2. Cardinality({}) = 0 /\ \A s : Cardinality({s}) = 1
    BY FS_EmptySet, FS_Singleton
  <2>3. Cardinality(S) = 0 \/ Cardinality(S) = 1
    BY <2>1, <2>2
  <2>4. Cardinality(S) <= 1
    BY <2>3
  <2> QED  BY <2>4 DEF S
<1> QED  BY TypedInit, TypedStep, OneTimesInit, OneTimesStep, <1>1, PTL DEF Spec

(* What is unused belongs to the bundle that is stored.                    *)
THEOREM UnusedAreCurrent == Spec => []UnusedBelongToTheBundle
<1>1. OneTimes => UnusedBelongToTheBundle
  BY DEF OneTimes
<1> QED  BY TypedInit, TypedStep, OneTimesInit, OneTimesStep, <1>1, PTL DEF Spec

(* While its bundle is live, a published one-time prekey waits until it is *)
(* served.                                                                 *)
THEOREM PublishedAreKept == Spec => []PublishedPrekeysAreKept
<1>1. OneTimes => PublishedPrekeysAreKept
  BY DEF OneTimes
<1> QED  BY TypedInit, TypedStep, OneTimesInit, OneTimesStep, <1>1, PTL DEF Spec
=============================================================================
