----------------------- MODULE RatchetSession_proofs -----------------------
(***************************************************************************)
(* Lemmas about the operations on one session, for every session and every *)
(* limit: what they return is a session, the skipped-key map stays within  *)
(* the limit that from_persisted enforces, a session only forgets keys,    *)
(* until it follows its peer to a longer root, its keys stay within the    *)
(* roots it can reach, and which message opens and what that leaves behind.*)
(***************************************************************************)
EXTENDS RatchetSession, FiniteSetTheorems, WellFoundedInduction, TLAPS

(* A fact about DH outputs: a pair of ratchet keys is one.                 *)
LEMMA DeriveRootKeyType ==
  ASSUME NEW root \in RootKey, NEW a \in RatchetKey, NEW b \in RatchetKey
  PROVE  DeriveRootKey(root, DiffieHellman(a, b)) \in RootKey
BY DEF DeriveRootKey, DiffieHellman, RootKey, DHOutput

(* A chain starts as a chain key and stays one when it is advanced.        *)
LEMMA ChainKeyType ==
  /\ \A root \in RootKey : FirstChainKey(root) \in ChainKey
  /\ \A ck \in ChainKey : \A d \in Nat : Advanced(ck, d) \in ChainKey
  /\ \A ck \in ChainKey : NextChainKey(ck) \in ChainKey
<1>1. ASSUME NEW ck \in ChainKey, NEW d \in Nat PROVE Advanced(ck, d) \in ChainKey
  <2>1. ck.n + d \in Nat
    BY DEF ChainKey
  <2> QED  BY <2>1 DEF Advanced, ChainKey
<1> QED  BY <1>1 DEF FirstChainKey, NextChainKey, ChainKey

(* A non-empty set of naturals has a least element.                        *)
LEMMA SmallestElement ==
  ASSUME NEW S \in SUBSET Nat, S # {}
  PROVE  \E i \in S : \A j \in S : i <= j
<1> DEFINE R == OpToRel(<, Nat)
<1>1. \E i \in S : \A j \in S : ~(<<j, i>> \in R)
  <2>1. IsWellFoundedOn(R, Nat)
    BY NatLessThanWellFounded
  <2> HIDE DEF R
  <2> QED  BY <2>1, WFMin
<1>2. \A i, j \in Nat : <<j, i>> \in R <=> j < i
  BY DEF OpToRel
<1> HIDE DEF R
<1>3. PICK i \in S : \A j \in S : ~(<<j, i>> \in R)
  BY <1>1
<1>4. ASSUME NEW j \in S PROVE i <= j
  <2>1. i \in Nat /\ j \in Nat
    OBVIOUS
  <2>2. ~(j < i)
    BY <1>2, <1>3, <2>1
  <2> QED  BY <2>1, <2>2
<1> QED  BY <1>4

(* The keys still to be put aside are finitely many skipped-key ids.       *)
LEMMA PendingIdsFinite ==
  ASSUME NEW s, IsSession(s), NEW n \in Nat
  PROVE  /\ IsFiniteSet(PendingIds(s, n))
         /\ PendingIds(s, n) \subseteq SkippedId
<1>1. IsFiniteSet({s.remote})
  BY FS_Singleton
<1>2. IsFiniteSet(s.recvd .. n - 1)
  <2>1. s.recvd \in Int /\ n - 1 \in Int
    BY DEF IsSession
  <2> QED  BY <2>1, FS_Interval
<1>3. IsFiniteSet(PendingIds(s, n))
  BY <1>1, <1>2, FS_Product DEF PendingIds
<1>4. PendingIds(s, n) \subseteq SkippedId
  BY DEF PendingIds, SkippedId, IsSession
<1> QED  BY <1>3, <1>4

(* Putting keys aside leaves a session.                                    *)
LEMMA PutAsideType ==
  ASSUME NEW s, IsSession(s), s.recvCK # None, NEW n \in Nat, n >= s.recvd
  PROVE  IsSession(PutAside(s, n))
<1> DEFINE D == DOMAIN s.skipped \cup PendingIds(s, n)
           t == PutAside(s, n)
<1>1. s.recvCK \in ChainKey /\ s.recvd \in Nat
  BY DEF IsSession
<1>2. D \subseteq SkippedId /\ IsFiniteSet(D)
  BY PendingIdsFinite, FS_Union DEF IsSession
<1>3. t.skipped = [id \in D |->
                     IF id \in PendingIds(s, n)
                     THEN Advanced(s.recvCK, id[2] - s.recvd)
                     ELSE s.skipped[id]]
  BY DEF PutAside, IsSession
<1>4. ASSUME NEW id \in D PROVE t.skipped[id] \in ChainKey
  <2>1. CASE id \in PendingIds(s, n)
    <3>1. id[2] - s.recvd \in Nat
      BY <2>1, <1>1 DEF PendingIds
    <3>2. t.skipped[id] = Advanced(s.recvCK, id[2] - s.recvd)
      BY <1>3, <2>1
    <3> QED  BY <3>1, <3>2, <1>1, ChainKeyType
  <2>2. CASE id \notin PendingIds(s, n)
    BY <2>2, <1>3 DEF IsSession
  <2> QED  BY <2>1, <2>2
<1>5. DOMAIN t.skipped = D /\ t.skipped \in [D -> ChainKey]
  BY <1>3, <1>4
<1>6. Advanced(s.recvCK, n - s.recvd) \in ChainKey
  BY <1>1, ChainKeyType
<1>7. t \in [ root : RootKey, local : RatchetKey, remote : RatchetKey,
              sendCK : ChainKey \cup {None}, recvCK : ChainKey \cup {None},
              prevLen : Nat, sent : Nat, recvd : Nat, skipped : {t.skipped} ]
  BY <1>6 DEF PutAside, IsSession
<1> QED  BY <1>2, <1>5, <1>7 DEF IsSession

(* Keys are put aside one at a time: if the map was not full before the    *)
(* last of them, it is within the limit afterwards.                        *)
LEMMA PutAsideRestorable ==
  ASSUME NEW s, IsSession(s), Restorable(s), NEW n \in Nat, n >= s.recvd,
         n > s.recvd => HeldBefore(s, n - 1) < MaxSkipped
  PROVE  Restorable(PutAside(s, n))
<1> DEFINE D(k) == DOMAIN s.skipped \cup PendingIds(s, k)
<1>0. s.recvd \in Nat /\ MaxSkipped \in Nat
  BY MaxSkippedAssumption DEF IsSession
<1>1. DOMAIN PutAside(s, n).skipped = D(n)
  BY DEF PutAside, IsSession
<1>2. CASE n = s.recvd
  <2>1. PendingIds(s, n) = {}
    BY <1>2, <1>0 DEF PendingIds
  <2> QED  BY <2>1, <1>1 DEF Restorable
<1>3. CASE n > s.recvd
  <2>1. n - 1 \in Nat
    BY <1>3, <1>0
  <2>2. PendingIds(s, n) = PendingIds(s, n - 1) \cup {<<s.remote, n - 1>>}
    <3>1. s.recvd .. n - 1 = (s.recvd .. (n - 1) - 1) \cup {n - 1}
      BY <1>3, <1>0
    <3> QED  BY <3>1 DEF PendingIds
  <2>3. D(n) = D(n - 1) \cup {<<s.remote, n - 1>>}
    BY <2>2
  <2>4. IsFiniteSet(D(n - 1))
    BY <2>1, PendingIdsFinite, FS_Union DEF IsSession
  <2>5. Cardinality(D(n - 1)) < MaxSkipped
    BY <1>3 DEF HeldBefore
  <2> HIDE DEF D
  <2>6. Cardinality(D(n - 1)) \in Nat
    BY <2>4, FS_CardinalityType
  <2>7. Cardinality(D(n)) = IF <<s.remote, n - 1>> \in D(n - 1)
                            THEN Cardinality(D(n - 1)) ELSE Cardinality(D(n - 1)) + 1
    BY <2>3, <2>4, FS_AddElement
  <2>8. Cardinality(D(n)) <= MaxSkipped
    BY <2>5, <2>6, <2>7, <1>0
  <2> QED  BY <2>8, <1>1 DEF Restorable
<1> QED  BY <1>0, <1>2, <1>3

(* skip_message_keys, on every one of its exits, returns a session whose   *)
(* map is within the limit; if it succeeds with the chain in place, the    *)
(* chain stays in place.                                                   *)
LEMMA SkipMessageKeysSound ==
  ASSUME NEW s, IsSession(s), Restorable(s), NEW until \in Nat
  PROVE  LET r == SkipMessageKeys(s, until) IN
         /\ IsSession(r.session)
         /\ Restorable(r.session)
         /\ r.ok \in BOOLEAN
<1> DEFINE stops == {i \in s.recvd .. until - 1 : HeldBefore(s, i) >= MaxSkipped}
           stop  == CHOOSE i \in stops : \A j \in stops : i <= j
<1>0. s.recvd \in Nat /\ MaxSkipped \in Nat
  BY MaxSkippedAssumption DEF IsSession
<1>1. CASE until <= s.recvd \/ until - s.recvd > MaxSkipped \/ s.recvCK = None
  <2>1. \/ SkipMessageKeys(s, until) = Ok(s)
        \/ SkipMessageKeys(s, until) = Failed(s)
    BY <1>1 DEF SkipMessageKeys
  <2>2. CASE SkipMessageKeys(s, until) = Ok(s)
    BY <2>2 DEF Ok
  <2>3. CASE SkipMessageKeys(s, until) = Failed(s)
    BY <2>3 DEF Failed
  <2> QED  BY <2>1, <2>2, <2>3
<1>2. CASE ~(until <= s.recvd \/ until - s.recvd > MaxSkipped \/ s.recvCK = None)
  <2>1. \A i \in s.recvd .. until - 1 : HeldBefore(s, i) \in Nat
    <3> SUFFICES ASSUME NEW i \in s.recvd .. until - 1
                 PROVE  HeldBefore(s, i) \in Nat
      OBVIOUS
    <3>1. i \in Nat
      BY <1>0
    <3>2. IsFiniteSet(DOMAIN s.skipped \cup PendingIds(s, i))
      BY <3>1, PendingIdsFinite, FS_Union DEF IsSession
    <3> QED  BY <3>2, FS_CardinalityType DEF HeldBefore
  <2>2. CASE stops = {}
    <3>1. SkipMessageKeys(s, until) = Ok(PutAside(s, until))
      BY <1>2, <2>2 DEF SkipMessageKeys
    <3>2. IsSession(PutAside(s, until))
      BY <1>0, <1>2, PutAsideType
    <3>3. HeldBefore(s, until - 1) < MaxSkipped
      <4>1. until - 1 \in s.recvd .. until - 1
        BY <1>0, <1>2
      <4> QED  BY <4>1, <2>1, <2>2, <1>0
    <3>4. Restorable(PutAside(s, until))
      BY <1>0, <1>2, <3>3, PutAsideRestorable
    <3> QED  BY <3>1, <3>2, <3>4 DEF Ok
  <2>3. CASE stops # {}
    <3>1. stop \in stops /\ \A j \in stops : stop <= j
      <4>1. stops \in SUBSET Nat /\ stops # {}
        BY <1>0, <2>3
      <4>2. \E i \in stops : \A j \in stops : i <= j
        BY <4>1, SmallestElement
      <4> QED  BY <4>2
    <3>2. SkipMessageKeys(s, until)
            = Failed([PutAside(s, stop) EXCEPT !.recvCK = None])
      BY <1>2, <2>3 DEF SkipMessageKeys
    <3>3. stop \in Nat /\ stop >= s.recvd /\ stop <= until - 1
      BY <1>0, <3>1
    <3> DEFINE t == PutAside(s, stop)
               u == [t EXCEPT !.recvCK = None]
    <3>4. IsSession(t)
      BY <1>2, <3>3, PutAsideType
    <3>5. stop > s.recvd => HeldBefore(s, stop - 1) < MaxSkipped
      <4> SUFFICES ASSUME stop > s.recvd
                   PROVE  HeldBefore(s, stop - 1) < MaxSkipped
        OBVIOUS
      <4>1. stop - 1 \in s.recvd .. until - 1 /\ ~(stop <= stop - 1)
        BY <1>0, <3>3
      <4>2. stop - 1 \notin stops
        BY <3>1, <4>1
      <4>3. ~(HeldBefore(s, stop - 1) >= MaxSkipped)
        BY <4>1, <4>2
      <4> QED  BY <4>1, <4>3, <2>1, <1>0
    <3>6. Restorable(t)
      <4> HIDE DEF stop
      <4> QED  BY <3>3, <3>5, PutAsideRestorable
    <3> HIDE DEF t
    <3>7. IsSession(u) /\ Restorable(u)
      BY <3>4, <3>6 DEF IsSession, Restorable
    <3> QED  BY <3>2, <3>7 DEF Failed, t
  <2> QED  BY <2>2, <2>3
<1> QED  BY <1>1, <1>2

-----------------------------------------------------------------------------
(* Which part of a session decides what it sends next: decrypt keeps it, or*)
(* closes the sending chain because the peer's ratchet key changed.        *)

KeepsSending(s, t) ==
  /\ t.root = s.root /\ t.local = s.local /\ t.remote = s.remote
  /\ t.sendCK = s.sendCK /\ t.prevLen = s.prevLen /\ t.sent = s.sent

ClosesSending(s, t, key) ==
  /\ t.local = s.local /\ t.remote = key
  /\ t.sendCK = None /\ t.sent = 0

(* The fields of a session when its map is known.                          *)
SessionFields(map) ==
  [ root : RootKey, local : RatchetKey, remote : RatchetKey,
    sendCK : ChainKey \cup {None}, recvCK : ChainKey \cup {None},
    prevLen : Nat, sent : Nat, recvd : Nat, skipped : {map} ]

(* A session whose map was left alone is a session if its other fields are.*)
LEMMA SessionWithSameMap ==
  ASSUME NEW s, IsSession(s), Restorable(s), NEW t, t \in SessionFields(s.skipped)
  PROVE  IsSession(t) /\ Restorable(t)
<1>1. t.skipped = s.skipped
  BY DEF SessionFields
<1>2. DOMAIN s.skipped \subseteq SkippedId /\ IsFiniteSet(DOMAIN s.skipped)
      /\ s.skipped \in [DOMAIN s.skipped -> ChainKey]
  BY DEF IsSession
<1>3. IsSession(t)
  BY <1>1, <1>2 DEF IsSession, SessionFields
<1> QED  BY <1>1, <1>3 DEF Restorable

(* skip_message_keys touches nothing that sending depends on.              *)
LEMMA SkipMessageKeysKeepsSending ==
  ASSUME NEW s, IsSession(s), NEW until \in Nat
  PROVE  KeepsSending(s, SkipMessageKeys(s, until).session)
<1>1. KeepsSending(s, s)
  BY DEF KeepsSending
<1>2. \A n : KeepsSending(s, PutAside(s, n))
  BY DEF KeepsSending, PutAside, IsSession
<1>3. \A n : KeepsSending(s, [PutAside(s, n) EXCEPT !.recvCK = None])
  BY DEF KeepsSending, PutAside, IsSession
<1>4. \/ SkipMessageKeys(s, until) = Ok(s)
      \/ SkipMessageKeys(s, until) = Failed(s)
      \/ SkipMessageKeys(s, until) = Ok(PutAside(s, until))
      \/ \E n : SkipMessageKeys(s, until)
                 = Failed([PutAside(s, n) EXCEPT !.recvCK = None])
  BY DEF SkipMessageKeys
<1> QED  BY <1>1, <1>2, <1>3, <1>4 DEF Ok, Failed

(* Following a header's ratchet key: a session again, within the limit, its*)
(* sending chain kept or closed.                                           *)
LEMMA FollowRatchetSound ==
  ASSUME NEW s, IsSession(s), Restorable(s), NEW e \in Envelope
  PROVE  LET r == FollowRatchet(s, e) IN
         /\ IsSession(r.session)
         /\ Restorable(r.session)
         /\ r.ok \in BOOLEAN
         /\ KeepsSending(s, r.session) \/ ClosesSending(s, r.session, e.key)
<1> DEFINE skip == SkipMessageKeys(s, e.pn)
           t    == skip.session
           u    == ApplyRemoteRatchet(t, e.key)
<1>1. e.key \in RatchetKey /\ e.pn \in Nat
  BY DEF Envelope
<1>2. IsSession(t) /\ Restorable(t) /\ skip.ok \in BOOLEAN
  BY <1>1, SkipMessageKeysSound
<1>3. KeepsSending(s, t)
  BY <1>1, SkipMessageKeysKeepsSending
<1>4. CASE s.remote = e.key
  <2>1. FollowRatchet(s, e) = Ok(s)
    BY <1>4 DEF FollowRatchet
  <2> QED  BY <2>1 DEF Ok, KeepsSending
<1>5. CASE s.remote # e.key /\ ~skip.ok
  <2>1. FollowRatchet(s, e) = skip
    BY <1>5 DEF FollowRatchet
  <2> QED  BY <2>1, <1>2, <1>3
<1>6. CASE s.remote # e.key /\ skip.ok
  <2>1. FollowRatchet(s, e) = Ok(u)
    BY <1>6 DEF FollowRatchet
  <2> HIDE DEF skip, t
  <2> DEFINE root == DeriveRootKey(t.root, DiffieHellman(t.local, e.key))
  <2>2. root \in RootKey
    BY <1>1, <1>2, DeriveRootKeyType DEF IsSession
  <2>3. FirstChainKey(root) \in ChainKey
    BY <2>2, ChainKeyType
  <2>4. u = [t EXCEPT !.prevLen = t.sent, !.sent = 0, !.recvd = 0,
                      !.root = root, !.remote = e.key,
                      !.recvCK = FirstChainKey(root), !.sendCK = None]
    BY DEF ApplyRemoteRatchet
  <2> HIDE DEF root
  <2>a. t \in SessionFields(t.skipped)
    BY <1>2 DEF IsSession, SessionFields
  <2>n. 0 \in Nat /\ t.sent \in Nat /\ None \in ChainKey \cup {None}
    BY <2>a DEF SessionFields
  <2>b. u \in SessionFields(t.skipped)
    BY <1>1, <2>2, <2>3, <2>4, <2>a, <2>n, Zenon DEF SessionFields
  <2>5. IsSession(u) /\ Restorable(u)
    BY <1>2, <2>b, SessionWithSameMap
  <2>6. ClosesSending(s, u, e.key)
    BY <1>2, <1>3, <2>4 DEF ClosesSending, KeepsSending, IsSession
  <2> QED  BY <2>1, <2>5, <2>6 DEF Ok
<1> QED  BY <1>2, <1>4, <1>5, <1>6

(* The last step of decrypt only moves the receiving chain.                *)
LEMMA OpenWithChainSound ==
  ASSUME NEW s, IsSession(s), Restorable(s), NEW e \in Envelope
  PROVE  LET r == OpenWithChain(s, e) IN
         /\ IsSession(r.session)
         /\ Restorable(r.session)
         /\ r.ok \in BOOLEAN
         /\ KeepsSending(s, r.session)
<1>1. CASE s.recvCK = None
  BY <1>1 DEF OpenWithChain, Failed, KeepsSending
<1>2. CASE s.recvCK # None
  <2> DEFINE t == [s EXCEPT !.recvCK = NextChainKey(@), !.recvd = @ + 1]
  <2>1. NextChainKey(s.recvCK) \in ChainKey
    BY <1>2, ChainKeyType DEF IsSession
  <2>a. s \in SessionFields(s.skipped)
    BY DEF IsSession, SessionFields
  <2>n. s.recvd \in Nat /\ s.recvd + 1 \in Nat
    BY <2>a DEF SessionFields
  <2>c. t \in SessionFields(s.skipped)
    BY <2>1, <2>n, <2>a, Zenon DEF SessionFields
  <2>b. IsSession(t) /\ Restorable(t)
    BY <2>c, SessionWithSameMap
  <2>2. IsSession(t) /\ Restorable(t) /\ KeepsSending(s, t)
    BY <2>b DEF IsSession, KeepsSending
  <2>3. OpenWithChain(s, e) = [session |-> t, ok |-> s.recvCK = e.mk]
    BY <1>2 DEF OpenWithChain
  <2> QED  BY <2>2, <2>3
<1> QED  BY <1>1, <1>2

(* A skipped key that is used leaves the map and nothing else changes.     *)
LEMMA OpenWithSkippedSound ==
  ASSUME NEW s, IsSession(s), Restorable(s), NEW e \in Envelope
  PROVE  LET r == OpenWithSkipped(s, e) IN
         /\ IsSession(r.session)
         /\ Restorable(r.session)
         /\ r.ok \in BOOLEAN
         /\ KeepsSending(s, r.session)
<1> DEFINE D == DOMAIN s.skipped
           E == D \ {<<e.key, e.n>>}
           f == [id \in E |-> s.skipped[id]]
           t == [s EXCEPT !.skipped = f]
<1>1. IsFiniteSet(E) /\ Cardinality(E) <= Cardinality(D)
  BY FS_Subset DEF IsSession
<1>2. f \in [E -> ChainKey] /\ DOMAIN f = E /\ E \subseteq SkippedId
  BY DEF IsSession
<1>3. Cardinality(E) \in Nat /\ Cardinality(D) \in Nat /\ MaxSkipped \in Nat
  BY <1>1, FS_CardinalityType, MaxSkippedAssumption DEF IsSession
<1>4. Cardinality(D) <= MaxSkipped
  BY DEF Restorable
<1> HIDE DEF f, D, E
<1>5. t.skipped = f
  BY DEF IsSession
<1>6. IsSession(t)
  BY <1>1, <1>2, <1>5 DEF IsSession
<1>7. Cardinality(E) <= MaxSkipped
  BY <1>1, <1>3, <1>4
<1>8. Restorable(t)
  BY <1>2, <1>5, <1>7 DEF Restorable
<1>9. KeepsSending(s, t)
  BY DEF IsSession, KeepsSending
<1>10. OpenWithSkipped(s, e)
         = [session |-> t, ok |-> s.skipped[<<e.key, e.n>>] = e.mk]
  BY DEF OpenWithSkipped, f, E, D
<1> QED  BY <1>6, <1>8, <1>9, <1>10

(* decrypt, whatever envelope arrives and whether it succeeds or not.      *)
LEMMA DecryptSound ==
  ASSUME NEW s, IsSession(s), Restorable(s), NEW e \in Envelope
  PROVE  LET r == Decrypt(s, e) IN
         /\ IsSession(r.session)
         /\ Restorable(r.session)
         /\ r.ok \in BOOLEAN
         /\ KeepsSending(s, r.session) \/ ClosesSending(s, r.session, e.key)
<1> DEFINE follow == FollowRatchet(s, e)
           t      == follow.session
           skip   == SkipMessageKeys(t, e.n)
           u      == skip.session
<1>1. CASE <<e.key, e.n>> \in DOMAIN s.skipped
  BY <1>1, OpenWithSkippedSound DEF Decrypt
<1>2. CASE <<e.key, e.n>> \notin DOMAIN s.skipped
  <2>1. /\ IsSession(t) /\ Restorable(t) /\ follow.ok \in BOOLEAN
        /\ KeepsSending(s, t) \/ ClosesSending(s, t, e.key)
    BY FollowRatchetSound
  <2>2. CASE ~follow.ok
    <3>1. Decrypt(s, e) = follow
      BY <1>2, <2>2 DEF Decrypt
    <3> QED  BY <2>1, <3>1
  <2>3. CASE follow.ok
    <3>0. e.n \in Nat
      BY DEF Envelope
    <3> HIDE DEF follow
    <3>1. /\ IsSession(u) /\ Restorable(u) /\ skip.ok \in BOOLEAN
          /\ KeepsSending(t, u)
      BY <2>1, <3>0, SkipMessageKeysSound, SkipMessageKeysKeepsSending
    <3>2. KeepsSending(s, u) \/ ClosesSending(s, u, e.key)
      BY <2>1, <3>1 DEF KeepsSending, ClosesSending
    <3>3. CASE ~skip.ok
      <4>1. Decrypt(s, e) = skip
        BY <1>2, <2>3, <3>3 DEF Decrypt, follow
      <4> QED  BY <3>1, <3>2, <4>1
    <3>4. CASE skip.ok
      <4>1. Decrypt(s, e) = OpenWithChain(u, e)
        BY <1>2, <2>3, <3>4 DEF Decrypt, follow
      <4> HIDE DEF skip, u
      <4> DEFINE r == OpenWithChain(u, e)
      <4>2. /\ IsSession(r.session) /\ Restorable(r.session)
            /\ r.ok \in BOOLEAN /\ KeepsSending(u, r.session)
        BY <3>1, OpenWithChainSound
      <4> HIDE DEF r
      <4>3. KeepsSending(s, r.session) \/ ClosesSending(s, r.session, e.key)
        BY <3>2, <4>2 DEF KeepsSending, ClosesSending
      <4> QED  BY <4>1, <4>2, <4>3 DEF r
    <3> QED  BY <3>1, <3>3, <3>4
  <2> QED  BY <2>1, <2>2, <2>3
<1> QED  BY <1>1, <1>2

(* ensure_sending_chain leaves a session that has a sending chain: the one *)
(* it had, or the first of a chain under the new key.                      *)
LEMMA EnsureSendingChainSound ==
  ASSUME NEW s, IsSession(s), Restorable(s), NEW newKey \in RatchetKey
  PROVE  LET t == EnsureSendingChain(s, newKey) IN
         /\ IsSession(t)
         /\ Restorable(t)
         /\ t.remote = s.remote
         /\ t.sendCK # None
         /\ s.sendCK # None => t = s
         /\ s.sendCK = None =>
              /\ t.local = newKey /\ t.sent = 0 /\ t.prevLen = s.sent
              /\ t.sendCK = FirstChainKey(DeriveRootKey(s.root,
                                DiffieHellman(newKey, s.remote)))
<1>1. CASE s.sendCK # None
  BY <1>1 DEF EnsureSendingChain
<1>2. CASE s.sendCK = None
  <2> DEFINE root == DeriveRootKey(s.root, DiffieHellman(newKey, s.remote))
             t    == EnsureSendingChain(s, newKey)
  <2>1. root \in RootKey
    BY DeriveRootKeyType DEF IsSession
  <2>2. FirstChainKey(root) \in ChainKey
    BY <2>1, ChainKeyType
  <2>3. FirstChainKey(root) # None
    BY <2>2, NoneAssumption
  <2>4. t = [s EXCEPT !.prevLen = s.sent, !.sent = 0, !.local = newKey,
                      !.root = root, !.sendCK = FirstChainKey(root)]
    BY <1>2 DEF EnsureSendingChain
  <2> HIDE DEF root, t
  <2>5. IsSession(t) /\ Restorable(t)
    BY <2>1, <2>2, <2>4 DEF IsSession, Restorable
  <2>6. /\ t.remote = s.remote /\ t.local = newKey /\ t.sent = 0
        /\ t.prevLen = s.sent /\ t.sendCK = FirstChainKey(root)
    BY <2>4 DEF IsSession
  <2> QED  BY <1>2, <2>3, <2>5, <2>6 DEF root, t
<1> QED  BY <1>1, <1>2

(* encrypt: a session again, and an envelope with the session's own key.   *)
LEMMA EncryptSound ==
  ASSUME NEW s, IsSession(s), Restorable(s), NEW newKey \in RatchetKey
  PROVE  LET t == EnsureSendingChain(s, newKey)
             r == Encrypt(s, newKey)
         IN /\ IsSession(r.session)
            /\ Restorable(r.session)
            /\ r.envelope \in Envelope
            /\ r.envelope.key = t.local /\ r.envelope.pn = t.prevLen
            /\ r.envelope.n = t.sent /\ r.envelope.mk = t.sendCK
            /\ r.session.local = t.local /\ r.session.remote = t.remote
            /\ r.session.prevLen = t.prevLen
            /\ r.session.sent = t.sent + 1
            /\ r.session.sendCK = NextChainKey(t.sendCK)
            /\ r.session.sendCK # None
<1> DEFINE t == EnsureSendingChain(s, newKey)
           u == [t EXCEPT !.sendCK = NextChainKey(@), !.sent = @ + 1]
           e == [key |-> t.local, pn |-> t.prevLen, n |-> t.sent, mk |-> t.sendCK]
<1>1. IsSession(t) /\ Restorable(t) /\ t.sendCK # None
  BY EnsureSendingChainSound
<1>2. Encrypt(s, newKey) = [session |-> u, envelope |-> e]
  BY DEF Encrypt
<1> HIDE DEF t
<1>3. t.sendCK \in ChainKey
  BY <1>1 DEF IsSession
<1>4. NextChainKey(t.sendCK) \in ChainKey
  BY <1>3, ChainKeyType
<1>5. NextChainKey(t.sendCK) # None
  BY <1>4, NoneAssumption
<1>a. t \in SessionFields(t.skipped)
  BY <1>1 DEF IsSession, SessionFields
<1>n. t.sent \in Nat /\ t.sent + 1 \in Nat
  BY <1>a DEF SessionFields
<1>b. u \in SessionFields(t.skipped)
  BY <1>4, <1>n, <1>a, Zenon DEF SessionFields
<1>6. IsSession(u) /\ Restorable(u)
  BY <1>1, <1>b, SessionWithSameMap
<1>7. e \in Envelope
  BY <1>1, <1>3 DEF IsSession, Envelope
<1>8. /\ u.local = t.local /\ u.remote = t.remote /\ u.prevLen = t.prevLen
      /\ u.sent = t.sent + 1 /\ u.sendCK = NextChainKey(t.sendCK)
  BY <1>1 DEF IsSession
<1>9. Encrypt(s, newKey).session = u /\ Encrypt(s, newKey).envelope = e
  BY <1>2
<1>10. e.key = t.local /\ e.pn = t.prevLen /\ e.n = t.sent /\ e.mk = t.sendCK
  OBVIOUS
<1> HIDE DEF u, e
<1> QED  BY <1>5, <1>6, <1>7, <1>8, <1>9, <1>10 DEF t

(* Encrypting leaves what a session receives with alone.                   *)
LEMMA EncryptKeepsReceiving ==
  ASSUME NEW s, IsSession(s), Restorable(s), NEW newKey \in RatchetKey
  PROVE  LET u == Encrypt(s, newKey).session
         IN /\ u.remote = s.remote /\ u.recvCK = s.recvCK
            /\ u.recvd = s.recvd /\ u.skipped = s.skipped
<1> DEFINE t == EnsureSendingChain(s, newKey)
<1>1. IsSession(t)
  BY EnsureSendingChainSound
<1>2. /\ t.remote = s.remote /\ t.recvCK = s.recvCK
      /\ t.recvd = s.recvd /\ t.skipped = s.skipped
  BY DEF EnsureSendingChain, IsSession
<1>3. Encrypt(s, newKey).session = [t EXCEPT !.sendCK = NextChainKey(@), !.sent = @ + 1]
  BY DEF Encrypt
<1> HIDE DEF t
<1> QED  BY <1>1, <1>2, <1>3 DEF IsSession

(* Both bootstraps make a session, with nothing put aside.                 *)
LEMMA BootstrapSound ==
  ASSUME NEW x \in RatchetKey, NEW y \in RatchetKey
  PROVE  /\ IsSession(BootstrapInitiator(x, y)) /\ Restorable(BootstrapInitiator(x, y))
         /\ IsSession(BootstrapResponder(x, y)) /\ Restorable(BootstrapResponder(x, y))
<1> DEFINE root == BootstrapRoot(x, y)
<1>1. root \in RootKey
  <2>1. <<>> \in RootKey
    BY DEF RootKey
  <2> QED  BY <2>1, DeriveRootKeyType DEF BootstrapRoot
<1>2. FirstChainKey(root) \in ChainKey
  BY <1>1, ChainKeyType
<1>3. DOMAIN <<>> = {} /\ <<>> \in [{} -> ChainKey]
  OBVIOUS
<1>4. IsFiniteSet({}) /\ Cardinality({}) = 0 /\ 0 <= MaxSkipped
  BY FS_EmptySet, MaxSkippedAssumption
<1> HIDE DEF root
<1>5. ASSUME NEW t, t.skipped = <<>>,
             t \in [ root : RootKey, local : RatchetKey, remote : RatchetKey,
                     sendCK : ChainKey \cup {None}, recvCK : ChainKey \cup {None},
                     prevLen : Nat, sent : Nat, recvd : Nat, skipped : {t.skipped} ]
      PROVE  IsSession(t) /\ Restorable(t)
  BY <1>3, <1>4, <1>5 DEF IsSession, Restorable
<1>6. BootstrapInitiator(x, y)
        = [ root |-> root, local |-> x, remote |-> y,
            sendCK |-> FirstChainKey(root), recvCK |-> None,
            prevLen |-> 0, sent |-> 0, recvd |-> 0, skipped |-> <<>> ]
  BY DEF BootstrapInitiator, root
<1>7. BootstrapResponder(x, y)
        = [ root |-> root, local |-> x, remote |-> y,
            sendCK |-> None, recvCK |-> FirstChainKey(root),
            prevLen |-> 0, sent |-> 0, recvd |-> 0, skipped |-> <<>> ]
  BY DEF BootstrapResponder, root
<1>8. IsSession(BootstrapInitiator(x, y)) /\ Restorable(BootstrapInitiator(x, y))
  BY <1>1, <1>2, <1>5, <1>6
<1>9. IsSession(BootstrapResponder(x, y)) /\ Restorable(BootstrapResponder(x, y))
  BY <1>1, <1>2, <1>5, <1>7
<1> QED  BY <1>8, <1>9

-----------------------------------------------------------------------------
(* Which keys a session can still compute: it only forgets, until it       *)
(* follows its peer to a root that is longer than any it had.              *)

(* No key is put aside twice, none is ahead of the receiving chain, and    *)
(* none comes from a root the session has not reached.                     *)
Receiving(s) ==
  /\ \A id \in DOMAIN s.skipped : Len(s.skipped[id].root) <= Len(s.root)
  /\ \A i, j \in DOMAIN s.skipped : s.skipped[i] = s.skipped[j] => i = j
  /\ s.recvCK # None =>
       /\ Len(s.recvCK.root) <= Len(s.root)
       /\ \A id \in DOMAIN s.skipped :
            s.skipped[id].root = s.recvCK.root => s.skipped[id].n < s.recvCK.n

Forgets(s, t) ==
  /\ Len(s.root) <= Len(t.root)
  /\ \A mk \in ChainKey : CanDerive(t, mk) => CanDerive(s, mk) \/ Len(mk.root) > Len(s.root)

(* Root keys have a length, chain keys a number.                           *)
LEMMA KeyLengths ==
  /\ \A ck \in ChainKey : Len(ck.root) \in Nat /\ ck.n \in Nat
  /\ \A s : IsSession(s) => Len(s.root) \in Nat
BY DEF ChainKey, RootKey, IsSession

LEMMA ForgetsTransitive ==
  ASSUME NEW s, NEW t, NEW u, IsSession(s), IsSession(t), IsSession(u),
         Forgets(s, t), Forgets(t, u)
  PROVE  Forgets(s, u)
<1>1. Len(s.root) \in Nat /\ Len(t.root) \in Nat /\ Len(u.root) \in Nat
  BY KeyLengths
<1>2. Len(s.root) <= Len(u.root)
  BY <1>1 DEF Forgets
<1>3. ASSUME NEW mk \in ChainKey, CanDerive(u, mk)
      PROVE  CanDerive(s, mk) \/ Len(mk.root) > Len(s.root)
  <2>1. CanDerive(t, mk) \/ Len(mk.root) > Len(t.root)
    BY <1>3 DEF Forgets
  <2>2. Len(mk.root) \in Nat
    BY KeyLengths
  <2>3. CanDerive(t, mk) => CanDerive(s, mk) \/ Len(mk.root) > Len(s.root)
    BY DEF Forgets
  <2> QED  BY <1>1, <2>1, <2>2, <2>3 DEF Forgets
<1> QED  BY <1>2, <1>3 DEF Forgets

LEMMA ForgetsReflexive ==
  ASSUME NEW s, IsSession(s)
  PROVE  Forgets(s, s)
BY KeyLengths DEF Forgets

(* Only the root, the receiving chain and the map matter.                  *)
LEMMA SameReceiving ==
  ASSUME NEW s, NEW t, IsSession(s), IsSession(t), Receiving(s),
         t.recvCK = s.recvCK, t.skipped = s.skipped, Len(s.root) <= Len(t.root)
  PROVE  Receiving(t) /\ Forgets(s, t)
<1>1. Len(s.root) \in Nat /\ Len(t.root) \in Nat
  BY KeyLengths
<1>2. \A id \in DOMAIN s.skipped : Len(s.skipped[id].root) \in Nat
  BY KeyLengths DEF IsSession
<1>3. s.recvCK # None => Len(s.recvCK.root) \in Nat
  BY KeyLengths DEF IsSession
<1>4. Receiving(t)
  BY <1>1, <1>2, <1>3 DEF Receiving
<1>5. \A mk : CanDerive(t, mk) => CanDerive(s, mk)
  BY DEF CanDerive
<1> QED  BY <1>4, <1>5 DEF Forgets

(* A session that loses its receiving chain forgets what it would derive.  *)
LEMMA ChainLost ==
  ASSUME NEW s, IsSession(s), Receiving(s)
  PROVE  LET t == [s EXCEPT !.recvCK = None] IN Receiving(t) /\ Forgets(s, t)
<1> DEFINE t == [s EXCEPT !.recvCK = None]
<1>1. t.root = s.root /\ t.recvCK = None /\ t.skipped = s.skipped
  BY DEF IsSession
<1> HIDE DEF t
<1>2. Receiving(t)
  BY <1>1 DEF Receiving
<1>3. \A mk : CanDerive(t, mk) => CanDerive(s, mk)
  BY <1>1 DEF CanDerive
<1>4. Len(s.root) <= Len(t.root)
  BY <1>1, KeyLengths
<1> QED  BY <1>2, <1>3, <1>4 DEF Forgets, t

(* Putting keys aside moves them from the chain to the map.                *)
LEMMA PutAsideForgets ==
  ASSUME NEW s, IsSession(s), Receiving(s), s.recvCK # None, NEW n \in Nat, n >= s.recvd
  PROVE  Receiving(PutAside(s, n)) /\ Forgets(s, PutAside(s, n))
<1> DEFINE P == PendingIds(s, n)
           D == DOMAIN s.skipped
           t == PutAside(s, n)
           c == s.recvCK
<1>1. /\ c \in ChainKey /\ s.recvd \in Nat /\ Len(s.root) \in Nat
      /\ Len(c.root) \in Nat /\ c.n \in Nat
  BY KeyLengths DEF IsSession
<1>2. /\ t.root = s.root /\ t.recvCK = Advanced(c, n - s.recvd)
      /\ t.skipped = [id \in D \cup P |-> IF id \in P THEN Advanced(c, id[2] - s.recvd)
                                          ELSE s.skipped[id]]
  BY DEF PutAside, IsSession
<1>3. \A d : Advanced(c, d).root = c.root /\ Advanced(c, d).n = c.n + d
  BY <1>1 DEF Advanced, ChainKey
<1>4. \A id \in P : id[1] = s.remote /\ id[2] \in Nat /\ s.recvd <= id[2] /\ id[2] < n
                    /\ id = <<id[1], id[2]>>
  BY <1>1 DEF PendingIds
<1>5. \A id \in D : s.skipped[id] \in ChainKey /\ Len(s.skipped[id].root) \in Nat
                    /\ s.skipped[id].n \in Nat
  BY KeyLengths DEF IsSession
<1>6. Advanced(c, n - s.recvd) # None
  <2>1. n - s.recvd \in Nat
    BY <1>1
  <2> QED  BY <1>1, <2>1, ChainKeyType, NoneAssumption
<1>7. /\ DOMAIN t.skipped = D \cup P
      /\ \A id \in P : t.skipped[id].root = c.root /\ t.skipped[id].n = c.n + (id[2] - s.recvd)
      /\ \A id \in D \ P : t.skipped[id] = s.skipped[id]
  BY <1>2, <1>3
<1> HIDE DEF P, D, t, c
<1>8. \A id \in D : Len(s.skipped[id].root) <= Len(s.root)
  BY DEF Receiving, D
<1>9. /\ Len(c.root) <= Len(s.root)
      /\ \A id \in D : s.skipped[id].root = c.root => s.skipped[id].n < c.n
  BY DEF Receiving, c, D
<1>10. Receiving(t)
  <2>1. \A id \in DOMAIN t.skipped : Len(t.skipped[id].root) <= Len(t.root)
    BY <1>2, <1>7, <1>8, <1>9
  <2>2. ASSUME NEW i \in D \cup P, NEW j \in D \cup P, t.skipped[i] = t.skipped[j]
        PROVE  i = j
    <3>1. CASE i \in P /\ j \in P
      <4>1. c.n + (i[2] - s.recvd) = c.n + (j[2] - s.recvd)
        BY <1>7, <2>2, <3>1
      <4>2. i[2] \in Nat /\ j[2] \in Nat
        BY <1>4, <3>1
      <4>3. i[2] = j[2]
        BY <1>1, <4>1, <4>2
      <4> QED  BY <1>4, <3>1, <4>3
    <3>2. ASSUME NEW k \in P, NEW l \in D \ P, t.skipped[k] = t.skipped[l] PROVE FALSE
      <4>1. s.skipped[l].root = c.root /\ s.skipped[l].n = c.n + (k[2] - s.recvd)
        BY <1>7, <3>2
      <4> QED  BY <1>1, <1>4, <1>9, <4>1
    <3>3. CASE i \notin P /\ j \notin P
      <4>1. s.skipped[i] = s.skipped[j] /\ i \in D /\ j \in D
        BY <1>7, <2>2, <3>3
      <4> QED  BY <4>1 DEF Receiving, D
    <3> QED  BY <2>2, <3>1, <3>2, <3>3
  <2>3. ASSUME NEW id \in D \cup P, t.skipped[id].root = t.recvCK.root
        PROVE  t.skipped[id].n < t.recvCK.n
    <3>1. t.recvCK.root = c.root /\ t.recvCK.n = c.n + (n - s.recvd)
      BY <1>2, <1>3
    <3>2. CASE id \in P
      BY <1>1, <1>4, <1>7, <3>1, <3>2
    <3>3. CASE id \in D \ P
      BY <1>1, <1>5, <1>7, <1>9, <2>3, <3>1, <3>3
    <3> QED  BY <3>2, <3>3
  <2>4. Len(t.recvCK.root) <= Len(t.root)
    BY <1>2, <1>3, <1>9
  <2> QED  BY <1>7, <2>1, <2>2, <2>3, <2>4 DEF Receiving
<1>11. ASSUME NEW mk \in ChainKey, CanDerive(t, mk) PROVE CanDerive(s, mk)
  <2>1. CASE \E id \in D \ P : t.skipped[id] = mk
    BY <1>7, <2>1 DEF CanDerive, D
  <2>2. CASE \E id \in P : t.skipped[id] = mk
    <3>1. c.root = mk.root /\ c.n <= mk.n
      BY <1>1, <1>4, <1>7, <2>2
    <3> QED  BY <3>1 DEF CanDerive, c
  <2>3. CASE t.recvCK.root = mk.root /\ t.recvCK.n <= mk.n
    <3>1. mk.n \in Nat /\ t.recvCK.root = c.root /\ t.recvCK.n = c.n + (n - s.recvd)
      BY <1>2, <1>3, KeyLengths
    <3>2. c.root = mk.root /\ c.n <= mk.n
      BY <1>1, <2>3, <3>1
    <3> QED  BY <3>2 DEF CanDerive, c
  <2> QED  BY <1>7, <1>11, <2>1, <2>2, <2>3 DEF CanDerive
<1>12. Len(s.root) <= Len(t.root)
  BY <1>1, <1>2
<1> QED  BY <1>10, <1>11, <1>12 DEF Forgets, t

(* The exits of skip_message_keys.                                         *)
LEMMA SkipMessageKeysExits ==
  ASSUME NEW s, IsSession(s), NEW until \in Nat
  PROVE  LET r == SkipMessageKeys(s, until) IN
         \/ r = Ok(s) \/ r = Failed(s)
         \/ s.recvCK # None /\ until >= s.recvd /\ r = Ok(PutAside(s, until))
         \/ s.recvCK # None /\ \E n \in Nat :
              n >= s.recvd /\ r = Failed([PutAside(s, n) EXCEPT !.recvCK = None])
<1> DEFINE stops == {i \in s.recvd .. until - 1 : HeldBefore(s, i) >= MaxSkipped}
           stop  == CHOOSE i \in stops : \A j \in stops : i <= j
<1>1. s.recvd \in Nat
  BY DEF IsSession
<1>2. CASE until <= s.recvd \/ until - s.recvd > MaxSkipped \/ s.recvCK = None
  BY <1>2 DEF SkipMessageKeys
<1>3. CASE ~(until <= s.recvd \/ until - s.recvd > MaxSkipped \/ s.recvCK = None)
  <2>1. CASE stops = {}
    BY <1>1, <1>3, <2>1 DEF SkipMessageKeys
  <2>2. CASE stops # {}
    <3>1. stops \in SUBSET Nat
      BY <1>1
    <3>2. \E i \in stops : \A j \in stops : i <= j
      BY <2>2, <3>1, SmallestElement
    <3>3. stop \in stops
      BY <3>2
    <3>4. stop \in Nat /\ stop >= s.recvd
      BY <1>1, <3>3
    <3>5. SkipMessageKeys(s, until) = Failed([PutAside(s, stop) EXCEPT !.recvCK = None])
      BY <1>3, <2>2 DEF SkipMessageKeys
    <3> QED  BY <1>3, <3>4, <3>5
  <2> QED  BY <2>1, <2>2
<1> QED  BY <1>2, <1>3

(* skip_message_keys only moves keys or loses the chain.                   *)
LEMMA SkipMessageKeysForgets ==
  ASSUME NEW s, IsSession(s), Restorable(s), Receiving(s), NEW until \in Nat
  PROVE  LET r == SkipMessageKeys(s, until) IN
         /\ Receiving(r.session) /\ Forgets(s, r.session)
         /\ r.ok /\ s.recvCK # None => r.session.recvCK # None
                                       /\ r.session.recvCK.root = s.recvCK.root
<1> DEFINE r == SkipMessageKeys(s, until)
<1>1. CASE r = Ok(s) \/ r = Failed(s)
  <2>1. r.session = s
    BY <1>1 DEF Ok, Failed
  <2> HIDE DEF r
  <2> QED  BY <2>1, ForgetsReflexive DEF r
<1>2. CASE s.recvCK # None /\ until >= s.recvd /\ r = Ok(PutAside(s, until))
  <2>1. r.session = PutAside(s, until)
    BY <1>2 DEF Ok
  <2>2. until - s.recvd \in Nat /\ s.recvCK \in ChainKey
    BY <1>2 DEF IsSession
  <2>3. r.session.recvCK = Advanced(s.recvCK, until - s.recvd)
    BY <2>1 DEF PutAside, IsSession
  <2>4. Advanced(s.recvCK, until - s.recvd).root = s.recvCK.root
    BY <2>2 DEF Advanced, ChainKey
  <2>5. Advanced(s.recvCK, until - s.recvd) # None
    BY <2>2, ChainKeyType, NoneAssumption
  <2> HIDE DEF r
  <2> QED  BY <1>2, <2>1, <2>3, <2>4, <2>5, PutAsideForgets DEF r
<1>3. ASSUME s.recvCK # None, NEW n \in Nat, n >= s.recvd,
             r = Failed([PutAside(s, n) EXCEPT !.recvCK = None])
      PROVE  Receiving(r.session) /\ Forgets(s, r.session) /\ ~r.ok
  <2> DEFINE t == PutAside(s, n)
             u == [t EXCEPT !.recvCK = None]
  <2>1. r.session = u /\ ~r.ok
    BY <1>3 DEF Failed
  <2> HIDE DEF r
  <2>2. IsSession(t) /\ Receiving(t) /\ Forgets(s, t)
    BY <1>3, PutAsideType, PutAsideForgets
  <2> HIDE DEF t
  <2>3. Receiving(u) /\ Forgets(t, u)
    BY <2>2, ChainLost
  <2>4. IsSession(u)
    BY <2>2 DEF IsSession
  <2> HIDE DEF u
  <2> QED  BY <2>1, <2>2, <2>3, <2>4, ForgetsTransitive
<1> HIDE DEF r
<1> QED  BY <1>1, <1>2, <1>3, SkipMessageKeysExits DEF r

(* A ratchet step moves on to a root that no key came from.                *)
LEMMA ApplyRemoteRatchetForgets ==
  ASSUME NEW s, IsSession(s), Restorable(s), Receiving(s), NEW key \in RatchetKey
  PROVE  LET t    == ApplyRemoteRatchet(s, key)
             root == DeriveRootKey(s.root, DiffieHellman(s.local, key))
         IN /\ Receiving(t) /\ Forgets(s, t)
            /\ t.root = root /\ t.recvCK = FirstChainKey(root) /\ t.recvCK # None
            /\ root \in RootKey /\ Len(root) = Len(s.root) + 1
<1> DEFINE t    == ApplyRemoteRatchet(s, key)
           root == DeriveRootKey(s.root, DiffieHellman(s.local, key))
<1>1. t.root = root /\ t.recvCK = FirstChainKey(root) /\ t.skipped = s.skipped
  BY DEF ApplyRemoteRatchet, IsSession
<1>2. root \in RootKey
  BY DeriveRootKeyType DEF IsSession
<1>3. Len(root) = Len(s.root) + 1 /\ Len(s.root) \in Nat
  <2>1. s.root \in Seq(DHOutput) /\ DiffieHellman(s.local, key) \in DHOutput
    BY DEF IsSession, RootKey, DiffieHellman, DHOutput
  <2> QED  BY <2>1 DEF DeriveRootKey
<1> HIDE DEF t, root
<1>4. t.recvCK.root = root /\ t.recvCK # None
  BY <1>1, <1>2, ChainKeyType, NoneAssumption DEF FirstChainKey
<1>5. \A id \in DOMAIN s.skipped :
        Len(s.skipped[id].root) \in Nat /\ Len(s.skipped[id].root) <= Len(s.root)
  BY KeyLengths DEF Receiving, IsSession
<1>6. Receiving(t)
  <2>1. \A id \in DOMAIN t.skipped : t.skipped[id].root # root
    BY <1>1, <1>3, <1>5
  <2> QED  BY <1>1, <1>3, <1>4, <1>5, <2>1 DEF Receiving
<1>7. ASSUME NEW mk \in ChainKey, CanDerive(t, mk)
      PROVE  CanDerive(s, mk) \/ Len(mk.root) > Len(s.root)
  <2>1. (\E id \in DOMAIN s.skipped : s.skipped[id] = mk) \/ mk.root = root
    BY <1>1, <1>4, <1>7 DEF CanDerive
  <2> QED  BY <1>3, <2>1 DEF CanDerive
<1>8. Forgets(s, t)
  BY <1>1, <1>3, <1>7 DEF Forgets
<1> QED  BY <1>1, <1>2, <1>3, <1>4, <1>6, <1>8 DEF t, root

(* Following a header's key: the root stays, or one output is mixed in and *)
(* the receiving chain comes from the new root.                            *)
LEMMA FollowRatchetForgets ==
  ASSUME NEW s, IsSession(s), Restorable(s), Receiving(s), NEW e \in Envelope
  PROVE  LET r    == FollowRatchet(s, e)
             t    == r.session
             root == DeriveRootKey(s.root, DiffieHellman(s.local, e.key))
         IN /\ Receiving(t) /\ Forgets(s, t)
            /\ r.ok => \/ KeepsSending(s, t)
                       \/ /\ t.root = root /\ t.recvCK # None /\ t.recvCK.root = root
                          /\ ClosesSending(s, t, e.key)
<1> DEFINE skip == SkipMessageKeys(s, e.pn)
           t    == skip.session
           u    == ApplyRemoteRatchet(t, e.key)
<1>1. e.key \in RatchetKey /\ e.pn \in Nat
  BY DEF Envelope
<1>2. /\ IsSession(t) /\ Restorable(t) /\ skip.ok \in BOOLEAN
      /\ KeepsSending(s, t) /\ Receiving(t) /\ Forgets(s, t)
  BY <1>1, SkipMessageKeysSound, SkipMessageKeysKeepsSending, SkipMessageKeysForgets
<1>3. CASE s.remote = e.key
  <2>1. FollowRatchet(s, e) = Ok(s)
    BY <1>3 DEF FollowRatchet
  <2>2. KeepsSending(s, s) /\ Ok(s).session = s
    BY DEF KeepsSending, Ok
  <2> QED  BY <2>1, <2>2, ForgetsReflexive
<1>4. CASE s.remote # e.key /\ ~skip.ok
  <2>1. FollowRatchet(s, e) = skip
    BY <1>4 DEF FollowRatchet
  <2> QED  BY <1>2, <1>4, <2>1
<1>5. CASE s.remote # e.key /\ skip.ok
  <2>1. FollowRatchet(s, e) = Ok(u)
    BY <1>5 DEF FollowRatchet
  <2> HIDE DEF skip, t
  <2>2. /\ Receiving(u) /\ Forgets(t, u) /\ u.recvCK # None
        /\ u.root = DeriveRootKey(t.root, DiffieHellman(t.local, e.key))
        /\ u.recvCK = FirstChainKey(u.root)
    BY <1>1, <1>2, ApplyRemoteRatchetForgets
  <2>3. t.root = s.root /\ t.local = s.local
    BY <1>2 DEF KeepsSending
  <2>4. /\ u.local = t.local /\ u.remote = e.key /\ u.sendCK = None /\ u.sent = 0
    BY <1>2 DEF ApplyRemoteRatchet, IsSession
  <2>5. IsSession(u)
    <3>1. IsSession(FollowRatchet(s, e).session)
      BY FollowRatchetSound
    <3> QED  BY <2>1, <3>1 DEF Ok
  <2> HIDE DEF u
  <2>6. Ok(u).session = u /\ u.recvCK.root = u.root
    BY <2>2 DEF Ok, FirstChainKey
  <2>7. Forgets(s, u)
    BY <1>2, <2>2, <2>5, ForgetsTransitive
  <2> QED  BY <2>1, <2>2, <2>3, <2>4, <2>6, <2>7 DEF ClosesSending
<1> QED  BY <1>2, <1>3, <1>4, <1>5

(* The open chain is advanced past the key it opened with.                 *)
LEMMA OpenWithChainForgets ==
  ASSUME NEW s, IsSession(s), Restorable(s), Receiving(s), NEW e \in Envelope
  PROVE  LET r == OpenWithChain(s, e) IN
         /\ Receiving(r.session) /\ Forgets(s, r.session)
         /\ r.ok => /\ s.recvCK # None /\ s.recvCK = e.mk
                    /\ ~CanDerive(r.session, e.mk) /\ Len(e.mk.root) <= Len(s.root)
<1>1. CASE s.recvCK = None
  <2>1. OpenWithChain(s, e) = Failed(s) /\ Failed(s).session = s /\ ~Failed(s).ok
    BY <1>1 DEF OpenWithChain, Failed
  <2> QED  BY <2>1, ForgetsReflexive
<1>2. CASE s.recvCK # None
  <2> DEFINE t == [s EXCEPT !.recvCK = NextChainKey(@), !.recvd = @ + 1]
             c == s.recvCK
  <2>1. OpenWithChain(s, e) = [session |-> t, ok |-> c = e.mk]
    BY <1>2 DEF OpenWithChain
  <2>2. t.root = s.root /\ t.recvCK = NextChainKey(c) /\ t.skipped = s.skipped
    BY DEF IsSession
  <2>3. /\ c \in ChainKey /\ c.n \in Nat /\ Len(s.root) \in Nat
        /\ \A id \in DOMAIN s.skipped : s.skipped[id].n \in Nat
    BY <1>2, KeyLengths DEF IsSession
  <2>4. NextChainKey(c).root = c.root /\ NextChainKey(c).n = c.n + 1 /\ NextChainKey(c) # None
    BY <2>3, ChainKeyType, NoneAssumption DEF NextChainKey, Advanced, ChainKey
  <2> HIDE DEF t, c
  <2>5. /\ Len(c.root) <= Len(s.root)
        /\ \A id \in DOMAIN s.skipped : s.skipped[id].root = c.root => s.skipped[id].n < c.n
    BY <1>2 DEF Receiving, c
  <2>6. Receiving(t)
    <3>1. \A id \in DOMAIN t.skipped : t.skipped[id].root = t.recvCK.root
                                          => t.skipped[id].n < t.recvCK.n
      BY <2>2, <2>3, <2>4, <2>5
    <3> QED  BY <2>2, <2>4, <2>5, <3>1 DEF Receiving
  <2>7. ASSUME NEW mk \in ChainKey, CanDerive(t, mk) PROVE CanDerive(s, mk)
    <3>1. mk.n \in Nat
      BY KeyLengths
    <3>2. \/ \E id \in DOMAIN s.skipped : s.skipped[id] = mk
          \/ c.root = mk.root /\ c.n + 1 <= mk.n
      BY <2>2, <2>4, <2>7 DEF CanDerive
    <3> QED  BY <1>2, <2>3, <3>1, <3>2 DEF CanDerive, c
  <2>8. Forgets(s, t)
    BY <2>2, <2>3, <2>7 DEF Forgets
  <2> DEFINE r == OpenWithChain(s, e)
  <2>a. r.session = t
    BY <2>1
  <2>b. r.ok => c = e.mk
    BY <1>2 DEF OpenWithChain, c
  <2> HIDE DEF r
  <2>9. ~CanDerive(t, c)
    <3>1. ~(c.n + 1 <= c.n) /\ ~(c.n < c.n)
      BY <2>3
    <3>2. \A id \in DOMAIN t.skipped : t.skipped[id] # c
      BY <2>2, <2>5, <3>1
    <3> QED  BY <2>4, <2>2, <3>1, <3>2 DEF CanDerive
  <2>c. r.ok => ~CanDerive(t, e.mk) /\ Len(e.mk.root) <= Len(s.root)
    BY <2>5, <2>9, <2>b
  <2> QED  BY <1>2, <2>6, <2>8, <2>a, <2>b, <2>c DEF c, r
<1> QED  BY <1>1, <1>2

(* A skipped key leaves the map with the message it opened, and nothing    *)
(* else holds it.                                                          *)
LEMMA OpenWithSkippedForgets ==
  ASSUME NEW s, IsSession(s), Restorable(s), Receiving(s), NEW e \in Envelope,
         <<e.key, e.n>> \in DOMAIN s.skipped
  PROVE  LET r == OpenWithSkipped(s, e) IN
         /\ Receiving(r.session) /\ Forgets(s, r.session)
         /\ r.ok => /\ CanDerive(s, e.mk) /\ ~CanDerive(r.session, e.mk)
                    /\ Len(e.mk.root) <= Len(r.session.root)
<1> DEFINE k == <<e.key, e.n>>
           t == [s EXCEPT !.skipped = [id \in DOMAIN s.skipped \ {k} |-> s.skipped[id]]]
<1>1. OpenWithSkipped(s, e) = [session |-> t, ok |-> s.skipped[k] = e.mk]
  BY DEF OpenWithSkipped
<1>2. /\ t.root = s.root /\ t.recvCK = s.recvCK
      /\ DOMAIN t.skipped = DOMAIN s.skipped \ {k}
      /\ \A id \in DOMAIN t.skipped : t.skipped[id] = s.skipped[id]
  BY DEF IsSession
<1> HIDE DEF t, k
<1>3. Receiving(t)
  BY <1>2 DEF Receiving
<1>4. \A mk : CanDerive(t, mk) => CanDerive(s, mk)
  BY <1>2 DEF CanDerive
<1>5. Forgets(s, t)
  BY <1>2, <1>4, KeyLengths DEF Forgets
<1>6. ASSUME s.skipped[k] = e.mk
      PROVE  /\ CanDerive(s, e.mk) /\ ~CanDerive(t, e.mk) /\ Len(e.mk.root) <= Len(t.root)
  <2>1. k \in DOMAIN s.skipped
    BY DEF k
  <2>2. \A id \in DOMAIN t.skipped : t.skipped[id] # e.mk
    BY <1>2, <1>6, <2>1 DEF Receiving
  <2>3. e.mk.n \in Nat /\ (t.recvCK # None => t.recvCK.n \in Nat)
    <3>1. e.mk \in ChainKey /\ (s.recvCK # None => s.recvCK \in ChainKey)
      BY DEF Envelope, IsSession
    <3> QED  BY <1>2, <3>1, KeyLengths
  <2>4. ~(t.recvCK # None /\ t.recvCK.root = e.mk.root /\ t.recvCK.n <= e.mk.n)
    <3> SUFFICES ASSUME t.recvCK # None, t.recvCK.root = e.mk.root PROVE e.mk.n < t.recvCK.n
      BY <2>3
    <3> QED  BY <1>2, <1>6, <2>1 DEF Receiving
  <2> QED  BY <1>2, <1>6, <2>1, <2>2, <2>4 DEF CanDerive, Receiving
<1> DEFINE r == OpenWithSkipped(s, e)
<1>7. r.session = t
  BY <1>1
<1>8. r.ok => s.skipped[k] = e.mk
  BY DEF OpenWithSkipped, k
<1> HIDE DEF r
<1> QED  BY <1>3, <1>5, <1>6, <1>7, <1>8 DEF r

(* decrypt.  What it opens it could derive before, or it just reached the  *)
(* root; it cannot derive it again; and it leaves its root only for the    *)
(* root of the message it opened.                                          *)
LEMMA DecryptForgets ==
  ASSUME NEW s, IsSession(s), Restorable(s), Receiving(s), NEW e \in Envelope
  PROVE  LET r == Decrypt(s, e)
             t == r.session
         IN /\ Receiving(t) /\ Forgets(s, t)
            /\ r.ok =>
                 /\ CanDerive(s, e.mk) \/ Len(e.mk.root) > Len(s.root)
                 /\ ~CanDerive(t, e.mk) /\ Len(e.mk.root) <= Len(t.root)
                 /\ \/ KeepsSending(s, t)
                    \/ /\ ClosesSending(s, t, e.key) /\ t.root = e.mk.root
                       /\ t.root = DeriveRootKey(s.root, DiffieHellman(s.local, e.key))
<1> DEFINE follow == FollowRatchet(s, e)
           t      == follow.session
           skip   == SkipMessageKeys(t, e.n)
           u      == skip.session
           r      == OpenWithChain(u, e)
           root   == DeriveRootKey(s.root, DiffieHellman(s.local, e.key))
<1>0. e.n \in Nat /\ e.mk \in ChainKey
  BY DEF Envelope
<1>1. CASE <<e.key, e.n>> \in DOMAIN s.skipped
  <2>1. Decrypt(s, e) = OpenWithSkipped(s, e)
    BY <1>1 DEF Decrypt
  <2> QED  BY <1>1, <2>1, OpenWithSkippedForgets, OpenWithSkippedSound
<1>2. CASE <<e.key, e.n>> \notin DOMAIN s.skipped
  <2>1. /\ IsSession(t) /\ Restorable(t) /\ follow.ok \in BOOLEAN
        /\ Receiving(t) /\ Forgets(s, t)
        /\ follow.ok => \/ KeepsSending(s, t)
                        \/ /\ t.root = root /\ t.recvCK # None /\ t.recvCK.root = root
                           /\ ClosesSending(s, t, e.key)
    BY FollowRatchetSound, FollowRatchetForgets
  <2>2. CASE ~follow.ok
    <3>1. Decrypt(s, e) = follow
      BY <1>2, <2>2 DEF Decrypt
    <3> QED  BY <2>1, <2>2, <3>1
  <2>3. CASE follow.ok
    <3> HIDE DEF follow
    <3>1. /\ IsSession(u) /\ Restorable(u) /\ skip.ok \in BOOLEAN /\ KeepsSending(t, u)
          /\ Receiving(u) /\ Forgets(t, u)
          /\ skip.ok /\ t.recvCK # None => u.recvCK # None /\ u.recvCK.root = t.recvCK.root
      BY <1>0, <2>1, SkipMessageKeysSound, SkipMessageKeysKeepsSending, SkipMessageKeysForgets
    <3>2. Forgets(s, u)
      BY <2>1, <3>1, ForgetsTransitive
    <3>3. CASE ~skip.ok
      <4>1. Decrypt(s, e) = skip
        BY <1>2, <2>3, <3>3 DEF Decrypt, follow
      <4> QED  BY <3>1, <3>2, <3>3, <4>1
    <3>4. CASE skip.ok
      <4>1. Decrypt(s, e) = r
        BY <1>2, <2>3, <3>4 DEF Decrypt, follow
      <4> HIDE DEF skip, u
      <4>2. /\ IsSession(r.session) /\ KeepsSending(u, r.session)
            /\ Receiving(r.session) /\ Forgets(u, r.session)
            /\ r.ok => /\ u.recvCK # None /\ u.recvCK = e.mk
                       /\ ~CanDerive(r.session, e.mk) /\ Len(e.mk.root) <= Len(u.root)
        BY <3>1, OpenWithChainSound, OpenWithChainForgets
      <4> HIDE DEF r
      <4>3. Forgets(s, r.session)
        BY <3>1, <3>2, <4>2, ForgetsTransitive
      <4>4. ASSUME r.ok
            PROVE  /\ CanDerive(s, e.mk) \/ Len(e.mk.root) > Len(s.root)
                   /\ \/ KeepsSending(s, r.session)
                      \/ /\ ClosesSending(s, r.session, e.key)
                         /\ r.session.root = e.mk.root /\ r.session.root = root
        <5>1. CanDerive(u, e.mk)
          <6>1. e.mk.n \in Nat
            BY <1>0, KeyLengths
          <6> QED  BY <4>2, <4>4, <6>1 DEF CanDerive
        <5>2. CanDerive(s, e.mk) \/ Len(e.mk.root) > Len(s.root)
          BY <1>0, <3>2, <5>1 DEF Forgets
        <5>3. CASE KeepsSending(s, t)
          BY <3>1, <4>2, <5>2, <5>3 DEF KeepsSending
        <5>4. CASE t.root = root /\ t.recvCK # None /\ t.recvCK.root = root
                   /\ ClosesSending(s, t, e.key)
          <6>1. r.session.root = root /\ ClosesSending(s, r.session, e.key)
            BY <3>1, <4>2, <5>4 DEF KeepsSending, ClosesSending
          <6>2. e.mk.root = root
            BY <3>1, <3>4, <4>2, <4>4, <5>4
          <6> QED  BY <5>2, <6>1, <6>2
        <5> QED  BY <2>1, <2>3, <5>3, <5>4
      <4>5. r.ok => ~CanDerive(r.session, e.mk) /\ Len(e.mk.root) <= Len(r.session.root)
        BY <4>2 DEF KeepsSending
      <4> QED  BY <4>1, <4>2, <4>3, <4>4, <4>5
    <3> QED  BY <3>1, <3>3, <3>4
  <2> QED  BY <2>1, <2>2, <2>3
<1> QED  BY <1>1, <1>2

(* encrypt leaves what the session receives with alone; a new sending chain*)
(* lengthens the root.                                                     *)
LEMMA EncryptForgets ==
  ASSUME NEW s, IsSession(s), Restorable(s), Receiving(s), NEW newKey \in RatchetKey
  PROVE  LET r == Encrypt(s, newKey)
             t == r.session
             root == DeriveRootKey(s.root, DiffieHellman(newKey, s.remote))
         IN /\ Receiving(t) /\ Forgets(s, t)
            /\ t.sendCK # None /\ t.sendCK.root = r.envelope.mk.root
            /\ s.sendCK # None => t.root = s.root /\ r.envelope.mk.root = s.sendCK.root
            /\ s.sendCK = None => t.root = root /\ r.envelope.mk.root = root
<1> DEFINE root == DeriveRootKey(s.root, DiffieHellman(newKey, s.remote))
           t    == EnsureSendingChain(s, newKey)
           u    == [t EXCEPT !.sendCK = NextChainKey(@), !.sent = @ + 1]
           r    == Encrypt(s, newKey)
<1>1. IsSession(t) /\ Restorable(t) /\ t.sendCK # None
  BY EnsureSendingChainSound
<1>2. /\ s.sendCK # None => t = s
      /\ s.sendCK = None => t.root = root /\ t.sendCK = FirstChainKey(root)
      /\ t.recvCK = s.recvCK /\ t.skipped = s.skipped
  BY DEF EnsureSendingChain, IsSession
<1>3. Len(root) = Len(s.root) + 1 /\ Len(s.root) \in Nat
  <2>1. s.root \in Seq(DHOutput) /\ DiffieHellman(newKey, s.remote) \in DHOutput
    BY DEF IsSession, RootKey, DiffieHellman, DHOutput
  <2> QED  BY <2>1 DEF DeriveRootKey
<1>4. r.session = u /\ r.envelope.mk = t.sendCK
  BY DEF Encrypt
<1>5. IsSession(r.session) /\ r.session.sendCK # None
  BY EncryptSound
<1> HIDE DEF t, r, root
<1>6. u.root = t.root /\ u.recvCK = t.recvCK /\ u.skipped = t.skipped
      /\ u.sendCK = NextChainKey(t.sendCK)
  BY <1>1 DEF IsSession
<1>7. NextChainKey(t.sendCK).root = t.sendCK.root
  <2>1. t.sendCK \in ChainKey
    BY <1>1 DEF IsSession
  <2> QED  BY <2>1 DEF NextChainKey, Advanced, ChainKey
<1> HIDE DEF u
<1>8. Len(s.root) <= Len(u.root)
  BY <1>2, <1>3, <1>6
<1>9. Receiving(u) /\ Forgets(s, u)
  BY <1>2, <1>4, <1>5, <1>6, <1>8, SameReceiving
<1> QED  BY <1>2, <1>4, <1>5, <1>6, <1>7, <1>9 DEF FirstChainKey, root, r

(* decrypt mixes at most one output into the root, whatever it returns.    *)
LEMMA DecryptGrowsRoot ==
  ASSUME NEW s, IsSession(s), Restorable(s), Receiving(s), NEW e \in Envelope
  PROVE  LET t == Decrypt(s, e).session IN
         t.root = s.root \/ \E x \in DHOutput : t.root = Append(s.root, x)
<1> DEFINE follow == FollowRatchet(s, e)
           t      == follow.session
           skip   == SkipMessageKeys(t, e.n)
           u      == skip.session
           Grown(v) == v.root = s.root \/ \E x \in DHOutput : v.root = Append(s.root, x)
<1>1. CASE <<e.key, e.n>> \in DOMAIN s.skipped
  <2>1. Decrypt(s, e) = OpenWithSkipped(s, e)
    BY <1>1 DEF Decrypt
  <2> QED  BY <2>1, OpenWithSkippedSound DEF KeepsSending
<1>2. CASE <<e.key, e.n>> \notin DOMAIN s.skipped
  <2>0. e.n \in Nat /\ e.pn \in Nat /\ e.key \in RatchetKey
    BY DEF Envelope
  <2>1. IsSession(t) /\ Restorable(t) /\ Grown(t)
    <3> DEFINE first == SkipMessageKeys(s, e.pn)
               v     == first.session
    <3>1. /\ IsSession(v) /\ Restorable(v) /\ Receiving(v) /\ KeepsSending(s, v)
      BY <2>0, SkipMessageKeysSound, SkipMessageKeysKeepsSending, SkipMessageKeysForgets
    <3>2. \/ follow = Ok(s) \/ follow = first
          \/ follow = Ok(ApplyRemoteRatchet(v, e.key))
      BY DEF FollowRatchet
    <3> HIDE DEF first
    <3>3. Grown(s) /\ Grown(v)
      BY <3>1 DEF KeepsSending
    <3>4. Grown(ApplyRemoteRatchet(v, e.key))
      <4>1. ApplyRemoteRatchet(v, e.key).root
              = Append(s.root, DiffieHellman(s.local, e.key))
        BY <2>0, <3>1, ApplyRemoteRatchetForgets DEF KeepsSending, DeriveRootKey
      <4>2. DiffieHellman(s.local, e.key) \in DHOutput
        BY <2>0 DEF DiffieHellman, DHOutput, IsSession
      <4> QED  BY <4>1, <4>2
    <3>5. Grown(t)
      BY <3>2, <3>3, <3>4 DEF Ok
    <3> QED  BY <3>5, FollowRatchetSound
  <2>2. Decrypt(s, e) \in {follow, skip, OpenWithChain(u, e)}
    BY <1>2 DEF Decrypt
  <2> HIDE DEF follow
  <2>3. IsSession(u) /\ Restorable(u) /\ KeepsSending(t, u)
    BY <2>0, <2>1, SkipMessageKeysSound, SkipMessageKeysKeepsSending
  <2>4. Grown(u)
    BY <2>1, <2>3 DEF KeepsSending
  <2>5. Grown(OpenWithChain(u, e).session)
    BY <2>3, <2>4, OpenWithChainSound DEF KeepsSending
  <2> QED  BY <2>1, <2>2, <2>4, <2>5
<1> QED  BY <1>1, <1>2

-----------------------------------------------------------------------------
(* Where a session's keys come from: a set of roots that every ratchet step*)
(* stays in is never left.                                                 *)

Within(s, R) ==
  /\ s.root \in R
  /\ s.sendCK # None => s.sendCK.root \in R
  /\ s.recvCK # None => s.recvCK.root \in R
  /\ \A id \in DOMAIN s.skipped : s.skipped[id].root \in R

(* skip_message_keys moves keys of the chain it is on.                     *)
LEMMA SkipMessageKeysWithin ==
  ASSUME NEW s, IsSession(s), NEW until \in Nat, NEW R, Within(s, R)
  PROVE  Within(SkipMessageKeys(s, until).session, R)
<1>1. \A ck \in ChainKey, d \in Int : Advanced(ck, d).root = ck.root
  BY DEF ChainKey, Advanced
<1>2. ASSUME s.recvCK # None, NEW n \in Nat
      PROVE  Within(PutAside(s, n), R) /\ Within([PutAside(s, n) EXCEPT !.recvCK = None], R)
  <2> DEFINE P == PendingIds(s, n)
             D == DOMAIN s.skipped
             t == PutAside(s, n)
             u == [t EXCEPT !.recvCK = None]
  <2>1. s.recvCK \in ChainKey /\ s.recvd \in Nat /\ s.recvCK.root \in R
    BY <1>2 DEF IsSession, Within
  <2>2. /\ t.root = s.root /\ t.sendCK = s.sendCK /\ t.recvCK = Advanced(s.recvCK, n - s.recvd)
        /\ t.skipped = [id \in D \cup P |-> IF id \in P THEN Advanced(s.recvCK, id[2] - s.recvd)
                                            ELSE s.skipped[id]]
        /\ u.root = t.root /\ u.sendCK = t.sendCK /\ u.recvCK = None /\ u.skipped = t.skipped
    BY DEF PutAside, IsSession
  <2>3. \A id \in P : id[2] \in Nat
    BY <2>1 DEF PendingIds
  <2> HIDE DEF P, D, t, u
  <2>4. DOMAIN t.skipped = D \cup P
    BY <2>2
  <2>5. ASSUME NEW id \in D \cup P PROVE t.skipped[id].root \in R
    <3>1. CASE id \in P
      BY <3>1, <1>1, <2>1, <2>2, <2>3
    <3>2. CASE id \notin P
      BY <3>2, <2>2 DEF Within, D
    <3> QED  BY <3>1, <3>2
  <2>6. t.recvCK.root \in R
    BY <1>1, <2>1, <2>2
  <2> QED  BY <2>2, <2>4, <2>5, <2>6 DEF Within, t, u
<1> DEFINE r == SkipMessageKeys(s, until)
<1>3. \/ r = Ok(s) \/ r = Failed(s)
      \/ s.recvCK # None /\ until >= s.recvd /\ r = Ok(PutAside(s, until))
      \/ s.recvCK # None /\ \E n \in Nat :
           n >= s.recvd /\ r = Failed([PutAside(s, n) EXCEPT !.recvCK = None])
  BY SkipMessageKeysExits
<1>4. \A x : Ok(x).session = x /\ Failed(x).session = x
  BY DEF Ok, Failed
<1> HIDE DEF r
<1>5. CASE r = Ok(s) \/ r = Failed(s)
  BY <1>4, <1>5 DEF r
<1>6. CASE s.recvCK # None /\ r = Ok(PutAside(s, until))
  BY <1>2, <1>4, <1>6 DEF r
<1>7. ASSUME s.recvCK # None, NEW n \in Nat,
             r = Failed([PutAside(s, n) EXCEPT !.recvCK = None])
      PROVE  Within(r.session, R)
  BY <1>2, <1>4, <1>7
<1> QED  BY <1>3, <1>5, <1>6, <1>7 DEF r

(* decrypt, whatever it returns, extends the root or leaves it.            *)
LEMMA DecryptWithin ==
  ASSUME NEW s, IsSession(s), Restorable(s), NEW e \in Envelope, NEW R, Within(s, R),
         \A root \in R, d \in DHOutput : Append(root, d) \in R
  PROVE  Within(Decrypt(s, e).session, R)
<1> DEFINE follow == FollowRatchet(s, e)
           t      == follow.session
           skip   == SkipMessageKeys(t, e.n)
           u      == skip.session
<1>0. e.key \in RatchetKey /\ e.pn \in Nat /\ e.n \in Nat
  BY DEF Envelope
<1>1. CASE <<e.key, e.n>> \in DOMAIN s.skipped
  BY <1>1 DEF Decrypt, OpenWithSkipped, Within, IsSession
<1>2. CASE <<e.key, e.n>> \notin DOMAIN s.skipped
  <2>1. IsSession(t) /\ Restorable(t)
    BY FollowRatchetSound
  <2>2. Within(t, R)
    <3> DEFINE first == SkipMessageKeys(s, e.pn)
               v     == first.session
               a     == ApplyRemoteRatchet(v, e.key)
    <3>1. Within(v, R) /\ IsSession(v)
      BY <1>0, SkipMessageKeysWithin, SkipMessageKeysSound
    <3>2. t = s \/ t = v \/ t = a
      BY DEF FollowRatchet, Ok
    <3> HIDE DEF first, v
    <3>3. DeriveRootKey(v.root, DiffieHellman(v.local, e.key)) \in R
      <4>1. DiffieHellman(v.local, e.key) \in DHOutput /\ v.root \in R
        BY <1>0, <3>1 DEF DiffieHellman, DHOutput, IsSession, Within
      <4> QED  BY <4>1 DEF DeriveRootKey
    <3>4. Within(a, R)
      BY <3>1, <3>3 DEF Within, ApplyRemoteRatchet, IsSession, FirstChainKey
    <3> HIDE DEF a
    <3> QED  BY <3>1, <3>2, <3>4
  <2>3. Decrypt(s, e) \in {follow, skip, OpenWithChain(u, e)}
    BY <1>2 DEF Decrypt
  <2> HIDE DEF follow
  <2>4. IsSession(u) /\ Within(u, R)
    BY <1>0, <2>1, <2>2, SkipMessageKeysSound, SkipMessageKeysWithin
  <2> HIDE DEF skip
  <2>5. Within(OpenWithChain(u, e).session, R)
    <3>1. CASE u.recvCK = None
      BY <2>4, <3>1 DEF OpenWithChain, Failed
    <3>2. CASE u.recvCK # None
      <4>1. u.recvCK \in ChainKey
        BY <2>4, <3>2 DEF IsSession
      <4>2. NextChainKey(u.recvCK).root = u.recvCK.root
        BY <4>1 DEF NextChainKey, Advanced, ChainKey
      <4> DEFINE w == OpenWithChain(u, e).session
      <4>3. /\ w.root = u.root /\ w.sendCK = u.sendCK /\ w.skipped = u.skipped
            /\ w.recvCK = NextChainKey(u.recvCK)
        BY <2>4, <3>2 DEF OpenWithChain, IsSession
      <4> HIDE DEF w
      <4> QED  BY <2>4, <3>2, <4>2, <4>3 DEF Within, w
    <3> QED  BY <3>1, <3>2
  <2> QED  BY <2>2, <2>3, <2>4, <2>5
<1> QED  BY <1>1, <1>2

(* encrypt seals with a key of its own sending chain.                      *)
LEMMA EncryptWithin ==
  ASSUME NEW s, IsSession(s), Restorable(s), NEW newKey \in RatchetKey, NEW R, Within(s, R),
         \A root \in R, d \in DHOutput : Append(root, d) \in R
  PROVE  LET r == Encrypt(s, newKey)
         IN Within(r.session, R) /\ r.envelope.mk.root \in R
<1> DEFINE root == DeriveRootKey(s.root, DiffieHellman(newKey, s.remote))
           t    == EnsureSendingChain(s, newKey)
           r    == Encrypt(s, newKey)
           u    == r.session
<1>1. root \in R
  <2>1. DiffieHellman(newKey, s.remote) \in DHOutput /\ s.root \in R
    BY DEF DiffieHellman, DHOutput, IsSession, Within
  <2> QED  BY <2>1 DEF DeriveRootKey
<1>2. IsSession(t) /\ t.sendCK # None
  BY EnsureSendingChainSound
<1> HIDE DEF root
<1>3. Within(t, R)
  BY <1>1 DEF EnsureSendingChain, Within, IsSession, FirstChainKey, root
<1>4. /\ u.root = t.root /\ u.recvCK = t.recvCK /\ u.skipped = t.skipped
      /\ u.sendCK = NextChainKey(t.sendCK) /\ r.envelope.mk = t.sendCK
  <2>1. u = [t EXCEPT !.sendCK = NextChainKey(@), !.sent = @ + 1] /\ r.envelope.mk = t.sendCK
    BY DEF Encrypt
  <2> HIDE DEF t, u, r
  <2> QED  BY <1>2, <2>1 DEF IsSession
<1>5. NextChainKey(t.sendCK).root = t.sendCK.root
  <2>1. t.sendCK \in ChainKey
    BY <1>2 DEF IsSession
  <2> QED  BY <2>1 DEF NextChainKey, Advanced, ChainKey
<1> HIDE DEF t, r
<1> QED  BY <1>2, <1>3, <1>4, <1>5 DEF Within, r

-----------------------------------------------------------------------------
(* What exactly decrypt does when it succeeds, and when it does.           *)

(* The chain of v was advanced to message n, its keys before n put aside.  *)
MovedTo(v, u, n) ==
  /\ u.remote = v.remote /\ u.recvd = n /\ u.recvCK = Advanced(v.recvCK, n - v.recvd)
  /\ DOMAIN u.skipped = DOMAIN v.skipped \cup PendingIds(v, n)
  /\ \A id \in PendingIds(v, n) : u.skipped[id] = Advanced(v.recvCK, id[2] - v.recvd)
  /\ \A id \in DOMAIN v.skipped \ PendingIds(v, n) : u.skipped[id] = v.skipped[id]

LEMMA SkipMessageKeysMoves ==
  ASSUME NEW v, IsSession(v), v.recvCK # None, NEW n \in Nat, n >= v.recvd,
         SkipMessageKeys(v, n).ok
  PROVE  MovedTo(v, SkipMessageKeys(v, n).session, n)
<1> DEFINE r == SkipMessageKeys(v, n)
<1>1. v.recvCK \in ChainKey /\ v.recvd \in Nat
  BY DEF IsSession
<1>2. CASE n = v.recvd
  <2>1. r = Ok(v)
    BY <1>1, <1>2 DEF SkipMessageKeys
  <2>2. PendingIds(v, n) = {}
    BY <1>1, <1>2 DEF PendingIds
  <2>3. Advanced(v.recvCK, n - v.recvd) = v.recvCK
    BY <1>1, <1>2 DEF Advanced, ChainKey
  <2> QED  BY <1>2, <2>1, <2>2, <2>3 DEF MovedTo, Ok
<1>3. CASE n > v.recvd
  <2>1. r = Ok(PutAside(v, n))
    <3> DEFINE stops == {i \in v.recvd .. n - 1 : HeldBefore(v, i) >= MaxSkipped}
    <3>1. ~(n <= v.recvd)
      BY <1>1, <1>3
    <3>2. ~(n - v.recvd > MaxSkipped \/ v.recvCK = None)
      BY <3>1 DEF SkipMessageKeys, Failed
    <3>3. stops = {}
      BY <3>1, <3>2 DEF SkipMessageKeys, Failed
    <3> QED  BY <3>1, <3>2, <3>3 DEF SkipMessageKeys
  <2> HIDE DEF r
  <2>2. r.session = PutAside(v, n)
    BY <2>1 DEF Ok
  <2>3. MovedTo(v, PutAside(v, n), n)
    BY DEF MovedTo, PutAside, IsSession
  <2> QED  BY <2>2, <2>3 DEF r
<1> QED  BY <1>1, <1>2, <1>3

(* A gap fits when the map has room for the keys in it.                    *)
LEMMA SkipMessageKeysFits ==
  ASSUME NEW v, IsSession(v), v.recvCK # None, NEW n \in Nat, n >= v.recvd,
         Cardinality(DOMAIN v.skipped) + (n - v.recvd) <= MaxSkipped
  PROVE  SkipMessageKeys(v, n).ok
<1> DEFINE D == DOMAIN v.skipped
           stops == {i \in v.recvd .. n - 1 : HeldBefore(v, i) >= MaxSkipped}
<1>1. v.recvd \in Nat /\ MaxSkipped \in Nat /\ IsFiniteSet(D)
  BY MaxSkippedAssumption DEF IsSession
<1>2. Cardinality(D) \in Nat
  BY <1>1, FS_CardinalityType
<1>3. ASSUME NEW i \in v.recvd .. n - 1 PROVE HeldBefore(v, i) < MaxSkipped
  <2> DEFINE P == PendingIds(v, i)
             I == v.recvd .. i - 1
  <2>1. i \in Nat /\ v.recvd <= i /\ i < n
    BY <1>1, <1>3
  <2>2. IsFiniteSet(I) /\ Cardinality(I) = i - v.recvd
    <3>1. v.recvd \in Int /\ i - 1 \in Int
      BY <1>1, <2>1
    <3>2. /\ IsFiniteSet(I)
          /\ Cardinality(I) = IF v.recvd > i - 1 THEN 0 ELSE (i - 1) - v.recvd + 1
      BY <3>1, FS_Interval
    <3> QED  BY <1>1, <2>1, <3>2
  <2>3. IsFiniteSet({v.remote}) /\ Cardinality({v.remote}) = 1
    BY FS_Singleton
  <2>4. IsFiniteSet(P) /\ Cardinality(P) = i - v.recvd
    <3>1. P = {v.remote} \X I
      BY DEF PendingIds
    <3> HIDE DEF P, I
    <3>2. IsFiniteSet({v.remote} \X I)
          /\ Cardinality({v.remote} \X I) = Cardinality({v.remote}) * Cardinality(I)
      BY <2>2, <2>3, FS_Product
    <3>3. 1 * Cardinality(I) = i - v.recvd
      BY <1>1, <2>1, <2>2
    <3> QED  BY <2>3, <3>1, <3>2, <3>3
  <2> HIDE DEF P, I, D
  <2>5. Cardinality(D \cup P) = Cardinality(D) + Cardinality(P) - Cardinality(D \cap P)
    BY <1>1, <2>4, FS_Union
  <2>6. Cardinality(D \cap P) \in Nat
    BY <1>1, <2>4, FS_Intersection, FS_CardinalityType
  <2>7. Cardinality(D) + (n - v.recvd) <= MaxSkipped
    BY DEF D
  <2>8. Cardinality(D \cup P) < MaxSkipped
    BY <1>1, <1>2, <2>1, <2>4, <2>5, <2>6, <2>7
  <2> QED  BY <2>8 DEF HeldBefore, D, P
<1>4. Cardinality(D) + (n - v.recvd) <= MaxSkipped
  OBVIOUS
<1> HIDE DEF D
<1>5. ~(n - v.recvd > MaxSkipped)
  BY <1>1, <1>2, <1>4
<1>6. stops = {}
  <2>1. ASSUME NEW i \in v.recvd .. n - 1 PROVE ~(HeldBefore(v, i) >= MaxSkipped)
    <3>1. HeldBefore(v, i) < MaxSkipped /\ i \in Nat
      BY <1>1, <1>3
    <3>2. IsFiniteSet(D \cup PendingIds(v, i))
      BY <1>1, <3>1, PendingIdsFinite, FS_Union
    <3>3. HeldBefore(v, i) \in Nat
      BY <3>2, FS_CardinalityType DEF HeldBefore, D
    <3> QED  BY <1>1, <3>1, <3>3
  <2> QED  BY <2>1
<1> QED  BY <1>5, <1>6 DEF SkipMessageKeys, Ok

(* Within a chain a message opens when its number is not behind; the chain *)
(* is left behind the message.                                             *)
LEMMA ChainOpens ==
  ASSUME NEW v, IsSession(v), v.recvCK # None, v.recvCK.n = v.recvd,
         NEW e \in Envelope, e.mk.n = e.n, SkipMessageKeys(v, e.n).ok
  PROVE  LET u == SkipMessageKeys(v, e.n).session
             r == OpenWithChain(u, e)
         IN /\ r.ok <=> v.recvd <= e.n /\ v.recvCK.root = e.mk.root
            /\ r.ok => /\ MovedTo(v, u, e.n)
                       /\ r.session.remote = v.remote /\ r.session.skipped = u.skipped
                       /\ r.session.recvCK = NextChainKey(e.mk)
                       /\ r.session.recvd = e.n + 1
<1> DEFINE u == SkipMessageKeys(v, e.n).session
           r == OpenWithChain(u, e)
<1>1. /\ v.recvCK \in ChainKey /\ v.recvd \in Nat /\ e.n \in Nat /\ e.mk \in ChainKey
  BY DEF IsSession, Envelope
<1>2. CASE e.n < v.recvd
  <2>1. u = v
    BY <1>1, <1>2 DEF SkipMessageKeys, Ok
  <2>2. r.ok <=> v.recvCK = e.mk
    BY <2>1 DEF OpenWithChain
  <2>3. v.recvCK # e.mk
    BY <1>1, <1>2
  <2>4. ~(v.recvd <= e.n)
    BY <1>1, <1>2
  <2> QED  BY <2>2, <2>3, <2>4
<1>3. CASE e.n >= v.recvd
  <2>1. MovedTo(v, u, e.n)
    BY <1>1, <1>3, SkipMessageKeysMoves
  <2>2. /\ Advanced(v.recvCK, e.n - v.recvd) = [root |-> v.recvCK.root, n |-> e.n]
    BY <1>1, <1>3 DEF Advanced, ChainKey
  <2>3. IsSession(u) /\ u.recvCK = [root |-> v.recvCK.root, n |-> e.n] /\ u.recvd = e.n
    <3>1. IsSession(u)
      <4>1. u = v \/ u = PutAside(v, e.n)
        BY DEF SkipMessageKeys, Ok, Failed
      <4>2. IsSession(PutAside(v, e.n))
        BY <1>1, <1>3, PutAsideType
      <4> QED  BY <4>1, <4>2
    <3> QED  BY <2>1, <2>2, <3>1 DEF MovedTo
  <2>4. u.recvCK # None
    <3>1. u.recvCK \in ChainKey
      BY <1>1, <2>3 DEF ChainKey
    <3> QED  BY <3>1, NoneAssumption
  <2> HIDE DEF u
  <2>5. /\ r.ok <=> u.recvCK = e.mk
        /\ r.session = [u EXCEPT !.recvCK = NextChainKey(@), !.recvd = @ + 1]
    BY <2>4 DEF OpenWithChain
  <2>6. u.recvCK = e.mk <=> v.recvCK.root = e.mk.root
    BY <1>1, <2>3 DEF ChainKey
  <2>7. /\ r.session.remote = u.remote /\ r.session.skipped = u.skipped
        /\ r.session.recvCK = NextChainKey(u.recvCK) /\ r.session.recvd = e.n + 1
    BY <2>3, <2>5 DEF IsSession
  <2>8. u.remote = v.remote
    BY <2>1 DEF MovedTo
  <2>9. v.recvd <= e.n
    BY <1>1, <1>3
  <2> QED  BY <2>1, <2>5, <2>6, <2>7, <2>8, <2>9 DEF u
<1> QED  BY <1>1, <1>2, <1>3

(* Decrypt when no skipped key is at hand and the header says that nothing *)
(* of the previous chain is missing: v receives on the header's chain.     *)
LEMMA DecryptFollows ==
  ASSUME NEW s, IsSession(s), Restorable(s), s.recvCK # None => s.recvCK.n = s.recvd,
         NEW e \in Envelope, e.pn = 0, <<e.key, e.n>> \notin DOMAIN s.skipped
  PROVE  LET v    == IF s.remote = e.key THEN s ELSE ApplyRemoteRatchet(s, e.key)
             skip == SkipMessageKeys(v, e.n)
         IN /\ Decrypt(s, e) = IF skip.ok THEN OpenWithChain(skip.session, e) ELSE skip
            /\ IsSession(v) /\ v.remote = e.key /\ v.skipped = s.skipped
            /\ v.recvCK # None => v.recvCK.n = v.recvd
            /\ s.remote # e.key =>
                 /\ v.recvd = 0 /\ v.recvCK # None
                 /\ v.recvCK.root = DeriveRootKey(s.root, DiffieHellman(s.local, e.key))
<1> DEFINE v    == IF s.remote = e.key THEN s ELSE ApplyRemoteRatchet(s, e.key)
           root == DeriveRootKey(s.root, DiffieHellman(s.local, e.key))
<1>1. s.recvd \in Nat /\ e.key \in RatchetKey
  BY DEF IsSession, Envelope
<1>2. SkipMessageKeys(s, e.pn) = Ok(s)
  BY <1>1 DEF SkipMessageKeys
<1>3. FollowRatchet(s, e) = Ok(v)
  <2>1. SkipMessageKeys(s, e.pn).ok /\ SkipMessageKeys(s, e.pn).session = s
    BY <1>2 DEF Ok
  <2>2. CASE s.remote = e.key
    BY <2>2 DEF FollowRatchet
  <2>3. CASE s.remote # e.key
    <3>1. v = ApplyRemoteRatchet(s, e.key)
      BY <2>3
    <3> HIDE DEF v
    <3> QED  BY <2>1, <2>3, <3>1 DEF FollowRatchet
  <2> QED  BY <2>2, <2>3
<1>4. IsSession(v)
  BY <1>3, FollowRatchetSound DEF Ok
<1>5. ASSUME s.remote # e.key
      PROVE  /\ v.remote = e.key /\ v.skipped = s.skipped /\ v.recvd = 0
             /\ v.recvCK = FirstChainKey(root)
  BY <1>5 DEF ApplyRemoteRatchet, IsSession
<1>6. ASSUME s.remote # e.key
      PROVE  v.recvCK # None /\ v.recvCK.root = root /\ v.recvCK.n = v.recvd
  <2>1. root \in RootKey
    BY <1>1, DeriveRootKeyType DEF IsSession
  <2>2. FirstChainKey(root) \in ChainKey
    BY <2>1, ChainKeyType
  <2> QED  BY <1>5, <1>6, <2>2, NoneAssumption DEF FirstChainKey
<1>7. Decrypt(s, e) = LET skip == SkipMessageKeys(v, e.n) IN
                      IF skip.ok THEN OpenWithChain(skip.session, e) ELSE skip
  BY <1>3 DEF Decrypt, Ok
<1> QED  BY <1>4, <1>5, <1>6, <1>7

(* The two ways in which a message opens.                                  *)
OpenedAside(s, t, e) ==
  /\ <<e.key, e.n>> \in DOMAIN s.skipped /\ s.skipped[<<e.key, e.n>>] = e.mk
  /\ t.remote = s.remote /\ t.recvCK = s.recvCK /\ t.recvd = s.recvd
  /\ DOMAIN t.skipped = DOMAIN s.skipped \ {<<e.key, e.n>>}
  /\ \A id \in DOMAIN t.skipped : t.skipped[id] = s.skipped[id]

OpenedInChain(s, t, e) ==
  LET from == IF s.remote = e.key THEN s.recvd ELSE 0
      P    == {e.key} \X (from .. e.n - 1)
  IN /\ from <= e.n
     /\ s.remote = e.key => s.recvCK # None /\ s.recvCK.root = e.mk.root
     /\ t.remote = e.key /\ t.recvCK = NextChainKey(e.mk) /\ t.recvd = e.n + 1
     /\ DOMAIN t.skipped = DOMAIN s.skipped \cup P
     /\ \A id \in P : t.skipped[id].root = e.mk.root /\ t.skipped[id].n = id[2]
     /\ \A id \in DOMAIN s.skipped \ P : t.skipped[id] = s.skipped[id]

LEMMA DecryptEffect ==
  ASSUME NEW s, IsSession(s), Restorable(s), s.recvCK # None => s.recvCK.n = s.recvd,
         NEW e \in Envelope, e.pn = 0, e.mk.n = e.n, Decrypt(s, e).ok
  PROVE  \/ OpenedAside(s, Decrypt(s, e).session, e)
         \/ OpenedInChain(s, Decrypt(s, e).session, e)
<1>1. CASE <<e.key, e.n>> \in DOMAIN s.skipped
  <2> DEFINE id == <<e.key, e.n>>
             f  == [i \in DOMAIN s.skipped \ {id} |-> s.skipped[i]]
             t  == [s EXCEPT !.skipped = f]
  <2>1. Decrypt(s, e).session = t /\ s.skipped[id] = e.mk
    BY <1>1 DEF Decrypt, OpenWithSkipped
  <2> HIDE DEF f
  <2>2. t.remote = s.remote /\ t.recvCK = s.recvCK /\ t.recvd = s.recvd /\ t.skipped = f
    BY DEF IsSession
  <2>3. DOMAIN f = DOMAIN s.skipped \ {id} /\ \A i \in DOMAIN f : f[i] = s.skipped[i]
    BY DEF f
  <2> HIDE DEF t
  <2> QED  BY <1>1, <2>1, <2>2, <2>3 DEF OpenedAside
<1>2. CASE <<e.key, e.n>> \notin DOMAIN s.skipped
  <2> DEFINE v    == IF s.remote = e.key THEN s ELSE ApplyRemoteRatchet(s, e.key)
             skip == SkipMessageKeys(v, e.n)
             u    == skip.session
             t    == Decrypt(s, e).session
             from == IF s.remote = e.key THEN s.recvd ELSE 0
             P    == {e.key} \X (from .. e.n - 1)
  <2>1. /\ Decrypt(s, e) = IF skip.ok THEN OpenWithChain(u, e) ELSE skip
        /\ IsSession(v) /\ v.remote = e.key /\ v.skipped = s.skipped
        /\ v.recvCK # None => v.recvCK.n = v.recvd
        /\ s.remote # e.key => v.recvd = 0 /\ v.recvCK # None
    BY <1>2, DecryptFollows
  <2>2. from = v.recvd /\ e.n \in Nat /\ (s.remote = e.key => v = s)
    BY <2>1 DEF Envelope
  <2> HIDE DEF v, from
  <2>3. skip.ok /\ OpenWithChain(u, e).ok /\ Decrypt(s, e) = OpenWithChain(u, e)
    BY <2>1
  <2>4. v.recvCK # None
    <3> SUFFICES ASSUME v.recvCK = None PROVE FALSE
      OBVIOUS
    <3>1. skip = Ok(v)
      BY <2>3 DEF SkipMessageKeys, Failed
    <3>2. u = v
      BY <3>1 DEF Ok
    <3> QED  BY <2>3, <3>2 DEF OpenWithChain, Failed
  <2>5. /\ v.recvd <= e.n /\ v.recvCK.root = e.mk.root
        /\ MovedTo(v, u, e.n) /\ t.remote = v.remote /\ t.skipped = u.skipped
        /\ t.recvCK = NextChainKey(e.mk) /\ t.recvd = e.n + 1
    BY <2>1, <2>3, <2>4, ChainOpens
  <2> HIDE DEF skip, u, t
  <2>6. P = PendingIds(v, e.n)
    BY <2>1, <2>2 DEF PendingIds
  <2>7. v.recvCK \in ChainKey /\ v.recvd \in Nat /\ v.recvCK.n = v.recvd
    BY <2>1, <2>4 DEF IsSession
  <2> HIDE DEF P
  <2>8. ASSUME NEW id \in P PROVE t.skipped[id].root = e.mk.root /\ t.skipped[id].n = id[2]
    <3>1. t.skipped[id] = Advanced(v.recvCK, id[2] - v.recvd) /\ id[2] \in Nat
      BY <2>5, <2>6, <2>7, <2>2 DEF MovedTo, PendingIds
    <3>2. /\ Advanced(v.recvCK, id[2] - v.recvd).root = v.recvCK.root
          /\ Advanced(v.recvCK, id[2] - v.recvd).n = v.recvCK.n + (id[2] - v.recvd)
      BY <2>7 DEF Advanced, ChainKey
    <3> QED  BY <2>5, <2>7, <3>1, <3>2
  <2>9. OpenedInChain(s, t, e)
    <3>1. /\ DOMAIN t.skipped = DOMAIN s.skipped \cup P
          /\ \A id \in DOMAIN s.skipped \ P : t.skipped[id] = s.skipped[id]
      BY <2>1, <2>5, <2>6 DEF MovedTo
    <3> QED  BY <2>1, <2>2, <2>4, <2>5, <2>8, <3>1 DEF OpenedInChain, P, from
  <2> QED  BY <2>9 DEF t
<1> QED  BY <1>1, <1>2

(* A message of the chain that is being received, or of the one that its   *)
(* own header starts, opens when it is not behind and its gap fits.        *)
LEMMA DecryptOpens ==
  ASSUME NEW s, IsSession(s), Restorable(s), s.recvCK # None => s.recvCK.n = s.recvd,
         NEW e \in Envelope, e.pn = 0, e.mk.n = e.n, <<e.key, e.n>> \notin DOMAIN s.skipped,
         \/ /\ s.remote = e.key /\ s.recvCK # None /\ s.recvCK.root = e.mk.root
            /\ s.recvd <= e.n
            /\ Cardinality(DOMAIN s.skipped) + (e.n - s.recvd) <= MaxSkipped
         \/ /\ s.remote # e.key
            /\ e.mk.root = DeriveRootKey(s.root, DiffieHellman(s.local, e.key))
            /\ Cardinality(DOMAIN s.skipped) + e.n <= MaxSkipped
  PROVE  Decrypt(s, e).ok
<1> DEFINE v    == IF s.remote = e.key THEN s ELSE ApplyRemoteRatchet(s, e.key)
           skip == SkipMessageKeys(v, e.n)
           u    == skip.session
<1>1. /\ Decrypt(s, e) = IF skip.ok THEN OpenWithChain(u, e) ELSE skip
      /\ IsSession(v) /\ v.remote = e.key /\ v.skipped = s.skipped
      /\ v.recvCK # None => v.recvCK.n = v.recvd
      /\ s.remote # e.key => /\ v.recvd = 0 /\ v.recvCK # None
                             /\ v.recvCK.root = DeriveRootKey(s.root, DiffieHellman(s.local, e.key))
  BY DecryptFollows
<1>2. s.remote = e.key => v = s
  OBVIOUS
<1> HIDE DEF v
<1>3. e.n \in Nat /\ v.recvd \in Nat
  BY <1>1 DEF Envelope, IsSession
<1>4. /\ v.recvCK # None /\ v.recvCK.root = e.mk.root /\ v.recvd <= e.n
      /\ Cardinality(DOMAIN v.skipped) + (e.n - v.recvd) <= MaxSkipped
  <2>1. CASE s.remote = e.key
    BY <1>2, <2>1
  <2>2. CASE s.remote # e.key
    <3>1. e.n - v.recvd = e.n /\ v.recvd <= e.n
      BY <1>1, <1>3, <2>2
    <3> QED  BY <1>1, <2>2, <3>1
  <2> QED  BY <2>1, <2>2
<1>5. skip.ok
  BY <1>1, <1>3, <1>4, SkipMessageKeysFits
<1>6. OpenWithChain(u, e).ok
  BY <1>1, <1>4, <1>5, ChainOpens
<1> HIDE DEF skip, u
<1> QED  BY <1>1, <1>5, <1>6
=============================================================================
