------------------------ MODULE DoubleRatchet_proofs ------------------------
(***************************************************************************)
(* Theorems about the conversation of two sessions over any network.       *)
(*  One: TypeOK and AlwaysRestorable are inductive once every envelope on  *)
(*   the way is one that was sent.                                         *)
(*  Two: MessageKeyNeverReused follows from what a chain is: the last      *)
(*   Diffie-Hellman output in its root pairs the chain's own ratchet key   *)
(*   with a key of the peer, the two ends never start chains from the same *)
(*   pair, and one chain numbers its messages without repetition.          *)
(*  Three: the previous chain's length is zero in every header.            *)
(*  Four: a session only forgets, so what it opened it never derives again;*)
(*   with that the sessions implement the abstract delivery.               *)
(*  Five: until one refuses a message, the ends' roots are in lockstep.    *)
(*  Six: until then each end follows its peer's chain, or the peer leads by*)
(*   one, and has put aside just what it passed and did not open; so what  *)
(*   it refuses is opened, overtaken or too far behind.                    *)
(***************************************************************************)
EXTENDS DoubleRatchet, RatchetSession_proofs

(* The two parties are each other's peer.                                  *)
LEMMA PeerFacts ==
  /\ \A p \in Party : Peer(p) \in Party /\ Peer(p) # p /\ Peer(Peer(p)) = p
  /\ \A p, q \in Party : p # q => q = Peer(p)
<1>1. \A p \in Party : \E q \in Party : q # p
  BY PartyAssumption
<1>2. \A p \in Party : Peer(p) \in Party /\ Peer(p) # p
  BY <1>1 DEF Peer
<1> QED  BY <1>2, PartyAssumption

(* A sequence keeps its elements when one is removed or inserted.          *)
LEMMA RemoveAtType ==
  ASSUME NEW S, NEW s \in Seq(S), NEW i \in DOMAIN s
  PROVE  RemoveAt(s, i) \in Seq(S)
BY DEF RemoveAt

LEMMA InsertAtType ==
  ASSUME NEW S, NEW s \in Seq(S), NEW i \in DOMAIN s
  PROVE  InsertAt(s, i + 1, s[i]) \in Seq(S)
BY DEF InsertAt

-----------------------------------------------------------------------------
(* Part one: types, and the limit of the skipped-key map.                  *)

(* Every position on the way to an end is the position of a sent message.  *)
InTransitWasSent == \A p \in Party : channel[p] \in Seq(1 .. Len(log[Peer(p)]))

WellTyped == TypeOK /\ AlwaysRestorable /\ InTransitWasSent

LEMMA InitWellTyped == Init => WellTyped
<1> SUFFICES ASSUME Init PROVE WellTyped
  OBVIOUS
<1> DEFINE a == <<Initiator, 0>>
           b == <<Responder, 0>>
<1>1. a \in RatchetKey /\ b \in RatchetKey
  BY PartyAssumption DEF RatchetKey
<1>2. ASSUME NEW x \in RatchetKey, NEW y \in RatchetKey
      PROVE  /\ IsSession(BootstrapInitiator(x, y)) /\ Restorable(BootstrapInitiator(x, y))
             /\ IsSession(BootstrapResponder(x, y)) /\ Restorable(BootstrapResponder(x, y))
  BY BootstrapSound
<1>3. DOMAIN session = Party
  BY DEF Init
<1>4. \A p \in Party : IsSession(session[p]) /\ Restorable(session[p])
  BY <1>1, <1>2 DEF Init
<1>5. /\ serial \in [Party -> Nat]
      /\ log = [p \in Party |-> <<>>]
      /\ channel = [p \in Party |-> <<>>]
      /\ opened = [p \in Party |-> <<>>]
      /\ rejected \in [Party -> SUBSET Nat]
      /\ lost \in [Party -> Nat]
      /\ duplicated \in [Party -> Nat]
  BY DEF Init
<1>6. TypeOK
  BY <1>3, <1>4, <1>5, PeerFacts DEF TypeOK
<1>7. InTransitWasSent
  BY <1>5, PeerFacts DEF InTransitWasSent
<1> QED  BY <1>4, <1>6, <1>7 DEF WellTyped, AlwaysRestorable

(* encrypt appends one envelope, one position and one counter.             *)
LEMMA SendWellTyped ==
  ASSUME WellTyped, NEW p \in Party, Send(p)
  PROVE  WellTyped'
<1> DEFINE s    == session[p]
           key  == <<p, serial[p]>>
           step == Encrypt(s, key)
           q    == Peer(p)
<1>1. /\ IsSession(s) /\ Restorable(s) /\ key \in RatchetKey /\ serial[p] \in Nat
      /\ DOMAIN session = Party
  BY DEF WellTyped, TypeOK, AlwaysRestorable, RatchetKey
<1>2. IsSession(step.session) /\ Restorable(step.session) /\ step.envelope \in Envelope
  BY <1>1, EncryptSound
<1>3. q \in Party /\ q # p /\ Peer(q) = p /\ \A r \in Party : r # q => Peer(r) # p
  BY PeerFacts
<1> HIDE DEF q
<1>4. /\ session' = [session EXCEPT ![p] = step.session]
      /\ log' = [log EXCEPT ![p] = Append(@, step.envelope)]
      /\ channel' = [channel EXCEPT ![q] = Append(@, Len(log[p]) + 1)]
      /\ opened' = [opened EXCEPT ![q] = Append(@, 0)]
      /\ serial' = [serial EXCEPT ![p] = IF session[p].sendCK = None THEN @ + 1 ELSE @]
      /\ UNCHANGED <<rejected, lost, duplicated>>
  BY DEF Send, q
<1> HIDE DEF step, s, key
<1>5. DOMAIN session' = Party /\ \A r \in Party : IsSession(session'[r]) /\ Restorable(session'[r])
  BY <1>1, <1>2, <1>4 DEF WellTyped, TypeOK, AlwaysRestorable
<1>6. log' \in [Party -> Seq(Envelope)]
  BY <1>2, <1>4 DEF WellTyped, TypeOK
<1>7. /\ Len(log'[p]) = Len(log[p]) + 1 /\ Len(log[p]) \in Nat
      /\ \A r \in Party : r # p => log'[r] = log[r]
  BY <1>2, <1>4 DEF WellTyped, TypeOK
<1>8. serial' \in [Party -> Nat]
  BY <1>4 DEF WellTyped, TypeOK
<1>9. channel' \in [Party -> Seq(Nat \ {0})]
  BY <1>3, <1>4, <1>7 DEF WellTyped, TypeOK
<1>10. opened' \in [Party -> Seq(Nat)] /\ Len(opened'[q]) = Len(opened[q]) + 1
  BY <1>3, <1>4 DEF WellTyped, TypeOK
<1>11. \A r \in Party : Len(opened'[r]) = Len(log'[Peer(r)])
  <2> SUFFICES ASSUME NEW r \in Party PROVE Len(opened'[r]) = Len(log'[Peer(r)])
    OBVIOUS
  <2>1. CASE r = q
    BY <2>1, <1>3, <1>7, <1>10 DEF WellTyped, TypeOK
  <2>2. CASE r # q
    <3>1. opened'[r] = opened[r] /\ Peer(r) # p /\ Peer(r) \in Party
      BY <2>2, <1>3, <1>4, PeerFacts DEF WellTyped, TypeOK
    <3> QED  BY <3>1, <1>7 DEF WellTyped, TypeOK
  <2> QED  BY <2>1, <2>2
<1>12. \A r \in Party : channel'[r] \in Seq(1 .. Len(log'[Peer(r)]))
  <2> SUFFICES ASSUME NEW r \in Party PROVE channel'[r] \in Seq(1 .. Len(log'[Peer(r)]))
    OBVIOUS
  <2>1. CASE r = q
    <3>1. channel'[r] = Append(channel[q], Len(log[p]) + 1)
      BY <2>1, <1>3, <1>4 DEF WellTyped, TypeOK
    <3>2. channel[q] \in Seq(1 .. Len(log[p]))
      BY <1>3 DEF WellTyped, InTransitWasSent
    <3>3. channel[q] \in Seq(1 .. Len(log'[p])) /\ Len(log[p]) + 1 \in 1 .. Len(log'[p])
      BY <3>2, <1>7
    <3> QED  BY <2>1, <3>1, <3>3, <1>3
  <2>2. CASE r # q
    <3>1. channel'[r] = channel[r] /\ Peer(r) # p /\ Peer(r) \in Party
      BY <2>2, <1>3, <1>4, PeerFacts DEF WellTyped, TypeOK
    <3> QED  BY <3>1, <1>7 DEF WellTyped, InTransitWasSent
  <2> QED  BY <2>1, <2>2
<1>13. /\ rejected' \in [Party -> SUBSET Nat]
       /\ lost' \in [Party -> Nat]
       /\ duplicated' \in [Party -> Nat]
  BY <1>4 DEF WellTyped, TypeOK
<1>14. TypeOK'
  BY <1>5, <1>6, <1>8, <1>9, <1>10, <1>11, <1>13 DEF TypeOK
<1> QED  BY <1>5, <1>12, <1>14 DEF WellTyped, AlwaysRestorable, InTransitWasSent

(* decrypt changes the session, whatever it returns, and consumes a copy.  *)
LEMMA ReceiveWellTyped ==
  ASSUME WellTyped, NEW p \in Party, NEW i \in DOMAIN channel[p], Receive(p, i)
  PROVE  WellTyped'
<1> DEFINE m    == channel[p][i]
           e    == log[Peer(p)][m]
           step == Decrypt(session[p], e)
<1>1. Peer(p) \in Party
  BY PeerFacts
<1>2. m \in 1 .. Len(log[Peer(p)]) /\ m \in Nat
  BY DEF WellTyped, InTransitWasSent
<1>3. e \in Envelope
  BY <1>1, <1>2 DEF WellTyped, TypeOK
<1>4. IsSession(session[p]) /\ Restorable(session[p]) /\ DOMAIN session = Party
  BY DEF WellTyped, TypeOK, AlwaysRestorable
<1>5. IsSession(step.session) /\ Restorable(step.session)
  BY <1>3, <1>4, DecryptSound
<1>6. /\ session' = [session EXCEPT ![p] = step.session]
      /\ channel' = [channel EXCEPT ![p] = RemoveAt(@, i)]
      /\ opened' = IF step.ok THEN [opened EXCEPT ![p][m] = @ + 1] ELSE opened
      /\ rejected' = IF step.ok THEN rejected ELSE [rejected EXCEPT ![p] = @ \cup {m}]
      /\ UNCHANGED <<serial, log, lost, duplicated>>
  BY DEF Receive
<1> HIDE DEF m, e, step
<1>7. DOMAIN session' = Party /\ \A r \in Party : IsSession(session'[r]) /\ Restorable(session'[r])
  BY <1>4, <1>5, <1>6 DEF WellTyped, TypeOK, AlwaysRestorable
<1>8. channel' \in [Party -> Seq(Nat \ {0})]
  <2>1. channel[p] \in Seq(Nat \ {0})
    BY DEF WellTyped, TypeOK
  <2>2. RemoveAt(channel[p], i) \in Seq(Nat \ {0})
    BY <2>1, RemoveAtType
  <2> QED  BY <2>2, <1>6 DEF WellTyped, TypeOK
<1>9. opened' \in [Party -> Seq(Nat)] /\ \A r \in Party : Len(opened'[r]) = Len(opened[r])
  <2>1. CASE ~step.ok
    BY <2>1, <1>6 DEF WellTyped, TypeOK
  <2>2. CASE step.ok
    <3>1. opened[p] \in Seq(Nat) /\ m \in DOMAIN opened[p]
      BY <1>1, <1>2 DEF WellTyped, TypeOK
    <3>2. opened' = [opened EXCEPT ![p] = [opened[p] EXCEPT ![m] = opened[p][m] + 1]]
      BY <2>2, <1>6
    <3>3. [opened[p] EXCEPT ![m] = opened[p][m] + 1] \in Seq(Nat)
      BY <3>1
    <3>4. Len([opened[p] EXCEPT ![m] = opened[p][m] + 1]) = Len(opened[p])
      BY <3>1
    <3> QED  BY <3>2, <3>3, <3>4 DEF WellTyped, TypeOK
  <2> QED  BY <2>1, <2>2
<1>10. rejected' \in [Party -> SUBSET Nat]
  BY <1>2, <1>6 DEF WellTyped, TypeOK
<1>11. TypeOK'
  BY <1>6, <1>7, <1>8, <1>9, <1>10 DEF WellTyped, TypeOK
<1>12. InTransitWasSent'
  <2>1. channel[p] \in Seq(1 .. Len(log[Peer(p)]))
    BY DEF WellTyped, InTransitWasSent
  <2>2. RemoveAt(channel[p], i) \in Seq(1 .. Len(log[Peer(p)]))
    BY <2>1, RemoveAtType
  <2> QED  BY <2>2, <1>6 DEF WellTyped, TypeOK, InTransitWasSent
<1> QED  BY <1>7, <1>11, <1>12 DEF WellTyped, AlwaysRestorable

(* The network only takes positions away or repeats them.                  *)
LEMMA NetworkWellTyped ==
  ASSUME WellTyped, NEW p \in Party, NEW i \in DOMAIN channel[p],
         Lose(p, i) \/ Duplicate(p, i)
  PROVE  WellTyped'
<1>1. UNCHANGED <<session, serial, log, opened, rejected>>
  BY DEF Lose, Duplicate
<1>2. PICK c : /\ channel' = [channel EXCEPT ![p] = c]
               /\ c = RemoveAt(channel[p], i) \/ c = InsertAt(channel[p], i + 1, channel[p][i])
  BY DEF Lose, Duplicate
<1>3. \A S : channel[p] \in Seq(S) => c \in Seq(S)
  BY <1>2, RemoveAtType, InsertAtType
<1>4. channel' \in [Party -> Seq(Nat \ {0})]
  BY <1>2, <1>3 DEF WellTyped, TypeOK
<1>5. lost' \in [Party -> Nat] /\ duplicated' \in [Party -> Nat]
  <2>1. lost \in [Party -> Nat] /\ duplicated \in [Party -> Nat]
    BY DEF WellTyped, TypeOK
  <2>2. CASE Lose(p, i)
    BY <2>1, <2>2 DEF Lose
  <2>3. CASE Duplicate(p, i)
    BY <2>1, <2>3 DEF Duplicate
  <2> QED  BY <2>2, <2>3
<1>6. InTransitWasSent'
  BY <1>1, <1>2, <1>3 DEF WellTyped, TypeOK, InTransitWasSent
<1>7. TypeOK'
  BY <1>1, <1>4, <1>5 DEF WellTyped, TypeOK
<1> QED  BY <1>1, <1>6, <1>7 DEF WellTyped, AlwaysRestorable

LEMMA NextWellTyped == WellTyped /\ [Next]_vars => WellTyped'
<1> SUFFICES ASSUME WellTyped, [Next]_vars PROVE WellTyped'
  OBVIOUS
<1>1. ASSUME NEW p \in Party, Send(p) PROVE WellTyped'
  BY <1>1, SendWellTyped
<1>2. ASSUME NEW p \in Party, NEW i \in DOMAIN channel[p], Receive(p, i) PROVE WellTyped'
  BY <1>2, ReceiveWellTyped
<1>3. ASSUME NEW p \in Party, NEW i \in DOMAIN channel[p], Lose(p, i) \/ Duplicate(p, i)
      PROVE  WellTyped'
  BY <1>3, NetworkWellTyped
<1>4. CASE UNCHANGED vars
  BY <1>4 DEF vars, WellTyped, TypeOK, AlwaysRestorable, InTransitWasSent
<1> QED
  BY <1>1, <1>2, <1>3, <1>4
  DEF Next

LEMMA AlwaysWellTyped == Spec => []WellTyped
BY InitWellTyped, NextWellTyped, PTL DEF Spec

(* Whatever the network does, every variable keeps its type: in particular *)
(* encrypt and decrypt always leave a session.                             *)
THEOREM TypeCorrect == Spec => []TypeOK
<1>1. WellTyped => TypeOK
  BY DEF WellTyped
<1> QED  BY <1>1, AlwaysWellTyped, PTL

(* A session that was saved can always be restored: no sequence of         *)
(* encrypts and decrypts, failed ones included, overfills the map.         *)
THEOREM SessionsStayRestorable == Spec => []AlwaysRestorable
<1>1. WellTyped => AlwaysRestorable
  BY DEF WellTyped
<1> QED  BY <1>1, AlwaysWellTyped, PTL

-----------------------------------------------------------------------------
(* Part two: message keys.                                                 *)

(* The ratchet keys an end has generated so far.                           *)
Generated(p) == {p} \X (0 .. serial[p] - 1)

(* The chains an end has sealed messages with or will seal the next with:  *)
(* their ratchet keys and their roots.                                     *)
Chains(p) ==
  {<<log[p][i].key, log[p][i].mk.root>> : i \in DOMAIN log[p]}
    \cup (IF session[p].sendCK = None THEN {}
          ELSE {<<session[p].local, session[p].sendCK.root>>})

(* A session's ratchet keys were generated by their owners.                *)
KeysWereGenerated ==
  \A p \in Party : session[p].local \in Generated(p) /\ session[p].remote \in Generated(Peer(p))

(* A chain starts where its key meets a ratchet key of the peer.           *)
ChainsArePaired ==
  \A p \in Party : \A c \in Chains(p) :
    c[1] \in Generated(p) /\ \E r \in Generated(Peer(p)) : Last(c[2]) = {c[1], r}

(* The two ends never start chains from the same two keys.                 *)
ChainsNeverMeet ==
  \A p \in Party : \A c \in Chains(p), d \in Chains(Peer(p)) : Last(c[2]) # Last(d[2])

(* Within a chain the message number is the age of the chain key.          *)
ChainsAreCounted ==
  \A p \in Party :
    /\ session[p].sendCK # None => session[p].sendCK.n = session[p].sent
    /\ \A i \in DOMAIN log[p] :
         /\ log[p][i].mk.n = log[p][i].n
         /\ log[p][i].key = session[p].local /\ session[p].sendCK # None
              => log[p][i].n < session[p].sent

(* An end numbers the messages of one ratchet key without repetition.      *)
NumbersAreDistinct ==
  \A p \in Party : \A i, j \in DOMAIN log[p] :
    log[p][i].key = log[p][j].key /\ log[p][i].n = log[p][j].n => i = j

KeysAreFresh ==
  /\ WellTyped
  /\ KeysWereGenerated /\ ChainsArePaired /\ ChainsNeverMeet
  /\ ChainsAreCounted /\ NumbersAreDistinct

(* The first chain starts where the two keys of the bootstrap meet.        *)
LEMMA LastOfRoot ==
  ASSUME NEW root \in RootKey, NEW a \in RatchetKey, NEW b \in RatchetKey
  PROVE  Last(FirstChainKey(DeriveRootKey(root, DiffieHellman(a, b))).root) = {a, b}
<1>1. root \in Seq(DHOutput) /\ {a, b} \in DHOutput
  BY DEF RootKey, DHOutput
<1>2. Last(Append(root, {a, b})) = {a, b}
  BY <1>1 DEF Last
<1> QED  BY <1>2 DEF FirstChainKey, DeriveRootKey, DiffieHellman

LEMMA InitKeysAreFresh == Init => KeysAreFresh
<1> SUFFICES ASSUME Init PROVE KeysAreFresh
  OBVIOUS
<1> DEFINE a == <<Initiator, 0>>
           b == <<Responder, 0>>
           i == session[Initiator]
           r == session[Responder]
<1>1. WellTyped
  BY InitWellTyped
<1>2. /\ Initiator \in Party /\ Responder \in Party /\ Party = {Initiator, Responder}
      /\ Peer(Initiator) = Responder /\ Peer(Responder) = Initiator
      /\ Initiator # Responder
  BY PartyAssumption, PeerFacts
<1>3. i = BootstrapInitiator(a, b) /\ r = BootstrapResponder(b, a)
  BY <1>2 DEF Init
<1>4. a \in RatchetKey /\ b \in RatchetKey
  BY <1>2 DEF RatchetKey
<1>5. a \in Generated(Initiator) /\ b \in Generated(Responder)
  BY <1>2 DEF Init, Generated
<1>6. /\ i.local = a /\ i.remote = b /\ r.local = b /\ r.remote = a
      /\ r.sendCK = None /\ i.sent = 0
      /\ i.sendCK = FirstChainKey(DeriveRootKey(<<>>, DiffieHellman(a, b)))
  BY <1>3 DEF BootstrapInitiator, BootstrapResponder, BootstrapRoot
<1> HIDE DEF a, b, i, r
<1>7. Last(i.sendCK.root) = {a, b}
  <2>1. <<>> \in RootKey
    BY DEF RootKey
  <2> QED  BY <1>4, <1>6, <2>1, LastOfRoot
<1>8. i.sendCK.n = 0
  BY <1>6 DEF FirstChainKey
<1>9. \A p \in Party : log[p] = <<>>
  BY DEF Init
<1>10. Chains(Initiator) \subseteq {<<a, i.sendCK.root>>} /\ Chains(Responder) = {}
  <2>1. \A p \in Party : {<<log[p][k].key, log[p][k].mk.root>> : k \in DOMAIN log[p]} = {}
    BY <1>9
  <2>2. Chains(Initiator) \subseteq {<<a, i.sendCK.root>>}
    BY <1>2, <1>6, <2>1 DEF Chains, i
  <2>3. Chains(Responder) = {}
    BY <1>2, <1>6, <2>1 DEF Chains, r
  <2> QED  BY <2>2, <2>3
<1>11. KeysWereGenerated
  BY <1>2, <1>5, <1>6 DEF KeysWereGenerated, i, r
<1>12. ChainsArePaired
  BY <1>2, <1>5, <1>7, <1>10 DEF ChainsArePaired
<1>13. ChainsNeverMeet
  BY <1>2, <1>10 DEF ChainsNeverMeet
<1>14. ChainsAreCounted
  BY <1>2, <1>6, <1>8, <1>9 DEF ChainsAreCounted, i, r
<1>15. NumbersAreDistinct
  BY <1>9 DEF NumbersAreDistinct
<1> QED  BY <1>1, <1>11, <1>12, <1>13, <1>14, <1>15 DEF KeysAreFresh

(* encrypt: the message belongs to the chain that is open, or opens a chain*)
(* whose ratchet key nobody has seen.                                      *)
LEMMA SendKeysAreFresh ==
  ASSUME KeysAreFresh, NEW p \in Party, Send(p)
  PROVE  KeysAreFresh'
<1> DEFINE s   == session[p]
           key == <<p, serial[p]>>
           t   == EnsureSendingChain(s, key)
           u   == Encrypt(s, key).session
           e   == Encrypt(s, key).envelope
           c   == <<t.local, t.sendCK.root>>
           q   == Peer(p)
<1>1. WellTyped /\ WellTyped'
  BY SendWellTyped DEF KeysAreFresh
<1>2. /\ IsSession(s) /\ Restorable(s) /\ key \in RatchetKey
      /\ DOMAIN session = Party /\ serial \in [Party -> Nat]
      /\ log \in [Party -> Seq(Envelope)]
  BY <1>1 DEF WellTyped, TypeOK, AlwaysRestorable, RatchetKey
<1>3. q \in Party /\ q # p /\ Peer(q) = p /\ \A r \in Party : r = p \/ r = q
  BY PeerFacts
<1>4. /\ IsSession(t) /\ t.remote = s.remote /\ t.sendCK # None
      /\ s.sendCK # None => t = s
      /\ s.sendCK = None =>
           /\ t.local = key /\ t.sent = 0
           /\ t.sendCK = FirstChainKey(DeriveRootKey(s.root, DiffieHellman(key, s.remote)))
  BY <1>2, EnsureSendingChainSound
<1>5. /\ IsSession(u) /\ e \in Envelope
      /\ e.key = t.local /\ e.n = t.sent /\ e.mk = t.sendCK
      /\ u.local = t.local /\ u.remote = t.remote /\ u.sent = t.sent + 1
      /\ u.sendCK = NextChainKey(t.sendCK) /\ u.sendCK # None
  BY <1>2, EncryptSound
<1>6. /\ session' = [session EXCEPT ![p] = u]
      /\ log' = [log EXCEPT ![p] = Append(@, e)]
      /\ serial' = [serial EXCEPT ![p] = IF s.sendCK = None THEN @ + 1 ELSE @]
  BY DEF Send
<1> HIDE DEF t, u, e
<1>7. /\ u.sendCK.root = t.sendCK.root /\ u.sendCK.n = t.sendCK.n + 1
      /\ t.sendCK.n \in Nat /\ t.sent \in Nat
  <2>1. t.sendCK \in ChainKey /\ t.sent \in Nat
    BY <1>4 DEF IsSession
  <2> QED  BY <1>5, <2>1 DEF NextChainKey, Advanced, ChainKey
<1>8. /\ session'[p] = u /\ session'[q] = session[q]
      /\ log'[p] = Append(log[p], e) /\ log'[q] = log[q]
      /\ serial'[q] = serial[q]
      /\ serial'[p] = IF s.sendCK = None THEN serial[p] + 1 ELSE serial[p]
      /\ serial[p] \in Nat /\ serial[q] \in Nat /\ log[p] \in Seq(Envelope)
  BY <1>2, <1>3, <1>6
<1>9. Generated(p) \subseteq Generated(p)' /\ Generated(q)' = Generated(q)
  BY <1>8 DEF Generated
<1>10. s.sendCK = None => key \notin Generated(p) /\ key \in Generated(p)'
  BY <1>8 DEF Generated
<1>11. s.local \in Generated(p) /\ s.remote \in Generated(q)
  BY DEF KeysAreFresh, KeysWereGenerated
<1>12. /\ \A i \in DOMAIN log[p] : log'[p][i] = log[p][i] /\ i \in DOMAIN log'[p]
       /\ DOMAIN log'[p] = DOMAIN log[p] \cup {Len(log[p]) + 1}
       /\ log'[p][Len(log[p]) + 1] = e
  BY <1>8
<1>13. Chains(p)' \subseteq Chains(p) \cup {c} /\ Chains(q)' = Chains(q)
  <2>1. ASSUME NEW d \in Chains(p)' PROVE d \in Chains(p) \cup {c}
    <3>1. CASE \E i \in DOMAIN log'[p] : d = <<log'[p][i].key, log'[p][i].mk.root>>
      BY <3>1, <1>5, <1>12 DEF Chains
    <3>2. CASE d = <<session'[p].local, session'[p].sendCK.root>>
      BY <3>2, <1>5, <1>7, <1>8
    <3> QED  BY <2>1, <3>1, <3>2 DEF Chains
  <2>2. Chains(q)' = Chains(q)
    BY <1>8 DEF Chains
  <2> QED  BY <2>1, <2>2
<1>14. \/ s.sendCK # None /\ c \in Chains(p)
       \/ s.sendCK = None /\ c[1] = key /\ Last(c[2]) = {key, s.remote}
  <2>1. CASE s.sendCK # None
    BY <2>1, <1>4 DEF Chains
  <2>2. CASE s.sendCK = None
    <3>1. s.root \in RootKey /\ s.remote \in RatchetKey
      BY <1>2 DEF IsSession
    <3> HIDE DEF key, s
    <3>2. Last(FirstChainKey(DeriveRootKey(s.root, DiffieHellman(key, s.remote))).root)
            = {key, s.remote}
      BY <1>2, <3>1, LastOfRoot
    <3>3. Last(t.sendCK.root) = {key, s.remote}
      BY <2>2, <1>4, <3>2
    <3> QED  BY <2>2, <1>4, <3>3
  <2> QED  BY <2>1, <2>2
<1> HIDE DEF c, q
<1>15. KeysWereGenerated'
  <2>1. u.local \in Generated(p)' /\ u.remote \in Generated(q)'
    BY <1>4, <1>5, <1>9, <1>10, <1>11
  <2>2. session'[q].local \in Generated(q)' /\ session'[q].remote \in Generated(p)'
    BY <1>3, <1>8, <1>9 DEF KeysAreFresh, KeysWereGenerated
  <2> QED  BY <2>1, <2>2, <1>3, <1>8 DEF KeysWereGenerated, q
<1>16. ChainsArePaired'
  <2> SUFFICES ASSUME NEW x \in Party, NEW d \in Chains(x)'
               PROVE  /\ d[1] \in Generated(x)'
                      /\ \E r \in Generated(Peer(x))' : Last(d[2]) = {d[1], r}
    BY DEF ChainsArePaired
  <2>1. CASE d \in Chains(x)
    <3>1. d[1] \in Generated(x) /\ \E r \in Generated(Peer(x)) : Last(d[2]) = {d[1], r}
      BY <2>1 DEF KeysAreFresh, ChainsArePaired
    <3> QED  BY <3>1, <1>3, <1>9 DEF q
  <2>2. CASE d \notin Chains(x)
    <3>1. x = p /\ d = c /\ s.sendCK = None
      BY <2>2, <1>3, <1>13, <1>14
    <3> QED  BY <3>1, <1>9, <1>10, <1>11, <1>14 DEF q
  <2> QED  BY <2>1, <2>2
<1>17. ChainsNeverMeet'
  <2>1. ASSUME NEW d \in Chains(q) PROVE s.sendCK = None => Last(c[2]) # Last(d[2])
    <3>1. PICK r \in Generated(p) : Last(d[2]) = {d[1], r}
      BY <1>3 DEF KeysAreFresh, ChainsArePaired
    <3>2. d[1] \in Generated(q)
      BY <1>3 DEF KeysAreFresh, ChainsArePaired
    <3>3. s.sendCK = None => key # r /\ key # d[1]
      BY <3>1, <3>2, <1>3, <1>10 DEF Generated
    <3> QED  BY <3>1, <3>3, <1>14
  <2>2. ASSUME NEW a \in Chains(p), NEW d \in Chains(q) PROVE Last(a[2]) # Last(d[2])
    BY DEF KeysAreFresh, ChainsNeverMeet, q
  <2>3. ASSUME NEW a \in Chains(p)', NEW d \in Chains(q)' PROVE Last(a[2]) # Last(d[2])
    BY <2>1, <2>2, <1>13, <1>14
  <2> QED  BY <2>3, <1>3 DEF ChainsNeverMeet, q
<1>18. \A i \in DOMAIN log[p] : log[p][i].key = t.local => log[p][i].n < t.sent
  <2> SUFFICES ASSUME NEW i \in DOMAIN log[p], log[p][i].key = t.local
               PROVE  log[p][i].n < t.sent
    OBVIOUS
  <2>1. CASE s.sendCK # None
    BY <2>1, <1>4 DEF KeysAreFresh, ChainsAreCounted
  <2>2. CASE s.sendCK = None
    <3>1. <<log[p][i].key, log[p][i].mk.root>> \in Chains(p)
      BY DEF Chains
    <3>2. log[p][i].key \in Generated(p)
      BY <3>1 DEF KeysAreFresh, ChainsArePaired
    <3> QED  BY <2>2, <3>2, <1>4, <1>10
  <2> QED  BY <2>1, <2>2
<1>19. t.sendCK.n = t.sent
  BY <1>4 DEF KeysAreFresh, ChainsAreCounted, FirstChainKey
<1>20. \A i \in DOMAIN log[p] : log[p][i].n \in Nat /\ log[p][i].mk.n = log[p][i].n
  <2>1. \A i \in DOMAIN log[p] : log[p][i] \in Envelope
    BY <1>8
  <2>2. \A i \in DOMAIN log[p] : log[p][i].n \in Nat
    BY <2>1 DEF Envelope
  <2> QED  BY <2>2 DEF KeysAreFresh, ChainsAreCounted
<1>21. ChainsAreCounted'
  <2>1. u.sendCK.n = u.sent
    BY <1>5, <1>7, <1>19
  <2>2. ASSUME NEW i \in DOMAIN log'[p]
        PROVE  /\ log'[p][i].mk.n = log'[p][i].n
               /\ log'[p][i].key = u.local => log'[p][i].n < u.sent
    <3>1. CASE i \in DOMAIN log[p]
      BY <3>1, <1>5, <1>7, <1>12, <1>18, <1>20
    <3>2. CASE i = Len(log[p]) + 1
      BY <3>2, <1>5, <1>7, <1>12, <1>19
    <3> QED  BY <3>1, <3>2, <1>12
  <2>3. /\ session'[q].sendCK # None => session'[q].sendCK.n = session'[q].sent
        /\ \A i \in DOMAIN log'[q] :
             /\ log'[q][i].mk.n = log'[q][i].n
             /\ log'[q][i].key = session'[q].local /\ session'[q].sendCK # None
                  => log'[q][i].n < session'[q].sent
    BY <1>3, <1>8 DEF KeysAreFresh, ChainsAreCounted
  <2>4. ASSUME NEW x \in Party
        PROVE  /\ session'[x].sendCK # None => session'[x].sendCK.n = session'[x].sent
               /\ \A i \in DOMAIN log'[x] :
                    /\ log'[x][i].mk.n = log'[x][i].n
                    /\ log'[x][i].key = session'[x].local /\ session'[x].sendCK # None
                         => log'[x][i].n < session'[x].sent
    <3>1. CASE x = p
      BY <3>1, <2>1, <2>2, <1>8
    <3>2. CASE x = q
      BY <3>2, <2>3
    <3> QED  BY <3>1, <3>2, <1>3
  <2> QED  BY <2>4 DEF ChainsAreCounted
<1>22. NumbersAreDistinct'
  <2>1. ASSUME NEW i \in DOMAIN log'[p], NEW j \in DOMAIN log'[p],
               log'[p][i].key = log'[p][j].key, log'[p][i].n = log'[p][j].n
        PROVE  i = j
    <3>1. CASE i \in DOMAIN log[p] /\ j \in DOMAIN log[p]
      BY <2>1, <3>1, <1>12 DEF KeysAreFresh, NumbersAreDistinct
    <3>2. CASE i \in DOMAIN log[p] /\ j = Len(log[p]) + 1
      BY <2>1, <3>2, <1>5, <1>7, <1>12, <1>18, <1>20
    <3>3. CASE i = Len(log[p]) + 1 /\ j \in DOMAIN log[p]
      BY <2>1, <3>3, <1>5, <1>7, <1>12, <1>18, <1>20
    <3> QED  BY <3>1, <3>2, <3>3, <1>12
  <2>2. ASSUME NEW i \in DOMAIN log'[q], NEW j \in DOMAIN log'[q],
               log'[q][i].key = log'[q][j].key, log'[q][i].n = log'[q][j].n
        PROVE  i = j
    BY <2>2, <1>3, <1>8 DEF KeysAreFresh, NumbersAreDistinct
  <2> QED  BY <2>1, <2>2, <1>3 DEF NumbersAreDistinct
<1> QED  BY <1>1, <1>15, <1>16, <1>17, <1>21, <1>22 DEF KeysAreFresh

(* decrypt only closes the sending chain, and only learns a key the peer   *)
(* has put in a header.                                                    *)
LEMMA ReceiveKeysAreFresh ==
  ASSUME KeysAreFresh, NEW p \in Party, NEW i \in DOMAIN channel[p], Receive(p, i)
  PROVE  KeysAreFresh'
<1> DEFINE q == Peer(p)
           m == channel[p][i]
           e == log[q][m]
           u == Decrypt(session[p], e).session
<1>1. WellTyped /\ WellTyped'
  BY ReceiveWellTyped DEF KeysAreFresh
<1>2. q \in Party /\ q # p /\ Peer(q) = p /\ \A r \in Party : r = p \/ r = q
  BY PeerFacts
<1>3. m \in DOMAIN log[q] /\ e \in Envelope
  <2>1. channel[p] \in Seq(1 .. Len(log[q])) /\ log[q] \in Seq(Envelope)
    BY <1>1, <1>2 DEF WellTyped, TypeOK, InTransitWasSent
  <2> QED  BY <2>1
<1>4. IsSession(session[p]) /\ Restorable(session[p]) /\ DOMAIN session = Party
  BY <1>1 DEF WellTyped, TypeOK, AlwaysRestorable
<1>5. KeepsSending(session[p], u) \/ ClosesSending(session[p], u, e.key)
  BY <1>3, <1>4, DecryptSound
<1>6. session' = [session EXCEPT ![p] = u] /\ log' = log /\ serial' = serial
  BY DEF Receive
<1> HIDE DEF u
<1>7. session'[p] = u /\ session'[q] = session[q]
  BY <1>2, <1>4, <1>6
<1>8. e.key \in Generated(q)
  <2>1. <<e.key, e.mk.root>> \in Chains(q)
    BY <1>3 DEF Chains
  <2> QED  BY <2>1, <1>2 DEF KeysAreFresh, ChainsArePaired
<1>9. \A x : Generated(x)' = Generated(x)
  BY <1>6 DEF Generated
<1>10. Chains(p)' \subseteq Chains(p) /\ Chains(q)' = Chains(q)
  <2>1. CASE u.sendCK = None
    BY <2>1, <1>6, <1>7 DEF Chains
  <2>2. CASE u.sendCK # None
    BY <2>2, <1>5, <1>6, <1>7 DEF Chains, KeepsSending, ClosesSending
  <2> QED  BY <2>1, <2>2
<1>11. /\ u.local = session[p].local
       /\ u.remote \in {session[p].remote, e.key}
       /\ u.sendCK # None => u.sendCK = session[p].sendCK /\ u.sent = session[p].sent
  BY <1>5 DEF KeepsSending, ClosesSending
<1> HIDE DEF q, m, e
<1>12. KeysWereGenerated'
  <2>1. u.local \in Generated(p)' /\ u.remote \in Generated(q)'
    BY <1>8, <1>9, <1>11 DEF KeysAreFresh, KeysWereGenerated, q
  <2>2. session'[q].local \in Generated(q)' /\ session'[q].remote \in Generated(p)'
    BY <1>2, <1>7, <1>9 DEF KeysAreFresh, KeysWereGenerated
  <2> QED  BY <2>1, <2>2, <1>2, <1>7 DEF KeysWereGenerated, q
<1>13. ChainsArePaired'
  <2> SUFFICES ASSUME NEW x \in Party, NEW d \in Chains(x)'
               PROVE  /\ d[1] \in Generated(x)'
                      /\ \E r \in Generated(Peer(x))' : Last(d[2]) = {d[1], r}
    BY DEF ChainsArePaired
  <2>1. d \in Chains(x)
    BY <1>2, <1>10
  <2>2. d[1] \in Generated(x) /\ \E r \in Generated(Peer(x)) : Last(d[2]) = {d[1], r}
    BY <2>1 DEF KeysAreFresh, ChainsArePaired
  <2> QED  BY <2>2, <1>9
<1>14. ChainsNeverMeet'
  <2> SUFFICES ASSUME NEW x \in Party, NEW c \in Chains(x)', NEW d \in Chains(Peer(x))'
               PROVE  Last(c[2]) # Last(d[2])
    BY DEF ChainsNeverMeet
  <2>1. c \in Chains(x) /\ d \in Chains(Peer(x))
    BY <1>2, <1>10 DEF q
  <2> QED  BY <2>1 DEF KeysAreFresh, ChainsNeverMeet
<1>15. ChainsAreCounted'
  BY <1>2, <1>6, <1>7, <1>11 DEF KeysAreFresh, ChainsAreCounted
<1>16. NumbersAreDistinct'
  BY <1>6 DEF KeysAreFresh, NumbersAreDistinct
<1> QED  BY <1>1, <1>12, <1>13, <1>14, <1>15, <1>16 DEF KeysAreFresh

LEMMA NextKeysAreFresh == KeysAreFresh /\ [Next]_vars => KeysAreFresh'
<1> SUFFICES ASSUME KeysAreFresh, [Next]_vars PROVE KeysAreFresh'
  OBVIOUS
<1>1. ASSUME NEW p \in Party, Send(p) PROVE KeysAreFresh'
  BY <1>1, SendKeysAreFresh
<1>2. ASSUME NEW p \in Party, NEW i \in DOMAIN channel[p], Receive(p, i) PROVE KeysAreFresh'
  BY <1>2, ReceiveKeysAreFresh
<1>3. ASSUME UNCHANGED <<session, serial, log>> PROVE KeysAreFresh'
  <2>1. WellTyped'
    BY NextWellTyped DEF KeysAreFresh
  <2>2. \A x : Generated(x)' = Generated(x) /\ Chains(x)' = Chains(x)
    BY <1>3 DEF Generated, Chains
  <2>3. KeysWereGenerated' /\ ChainsArePaired' /\ ChainsNeverMeet'
    BY <1>3, <2>2 DEF KeysAreFresh, KeysWereGenerated, ChainsArePaired, ChainsNeverMeet
  <2>4. ChainsAreCounted' /\ NumbersAreDistinct'
    BY <1>3 DEF KeysAreFresh, ChainsAreCounted, NumbersAreDistinct
  <2> QED  BY <2>1, <2>3, <2>4 DEF KeysAreFresh
<1>4. ASSUME NEW p \in Party, NEW i \in DOMAIN channel[p], Lose(p, i) \/ Duplicate(p, i)
      PROVE  KeysAreFresh'
  BY <1>3, <1>4 DEF Lose, Duplicate
<1>5. CASE UNCHANGED vars
  BY <1>3, <1>5 DEF vars
<1> QED
  BY <1>1, <1>2, <1>4, <1>5
  DEF Next

(* Messages with one key have one root and one number; one root has one    *)
(* ratchet key and one sender; one sender numbers a ratchet key's messages *)
(* without repetition.                                                     *)
LEMMA FreshKeysNeverReused == KeysAreFresh => MessageKeyNeverReused
<1> SUFFICES ASSUME KeysAreFresh,
                    NEW p \in Party, NEW q \in Party,
                    NEW i \in DOMAIN log[p], NEW j \in DOMAIN log[q],
                    log[p][i].mk = log[q][j].mk
             PROVE  p = q /\ i = j
  BY DEF MessageKeyNeverReused
<1> DEFINE c == <<log[p][i].key, log[p][i].mk.root>>
           d == <<log[q][j].key, log[q][j].mk.root>>
<1>1. c \in Chains(p) /\ d \in Chains(q) /\ c[2] = d[2]
  BY DEF Chains
<1>2. p = q
  BY <1>1, PeerFacts DEF KeysAreFresh, ChainsNeverMeet
<1>3. PICK r \in Generated(Peer(p)) : Last(c[2]) = {c[1], r}
  BY <1>1 DEF KeysAreFresh, ChainsArePaired
<1>4. PICK x \in Generated(Peer(p)) : Last(d[2]) = {d[1], x}
  BY <1>1, <1>2 DEF KeysAreFresh, ChainsArePaired
<1>5. c[1] \in Generated(p) /\ d[1] \in Generated(p)
  BY <1>1, <1>2 DEF KeysAreFresh, ChainsArePaired
<1>6. c[1] # x /\ d[1] # r
  BY <1>3, <1>4, <1>5, PeerFacts DEF Generated
<1> HIDE DEF c, d
<1>7. c[1] = d[1]
  BY <1>1, <1>3, <1>4, <1>6
<1>8. log[p][i].key = log[q][j].key
  BY <1>7 DEF c, d
<1>9. log[p][i].n = log[q][j].n
  BY DEF KeysAreFresh, ChainsAreCounted
<1> QED  BY <1>2, <1>8, <1>9 DEF KeysAreFresh, NumbersAreDistinct

(* No two messages are ever sealed under one key, for any limit and any    *)
(* number of messages, whatever is lost, copied or reordered, and after    *)
(* any number of failed decrypts.                                          *)
THEOREM KeysNeverReused == Spec => []MessageKeyNeverReused
<1>1. Spec => []KeysAreFresh
  BY InitKeysAreFresh, NextKeysAreFresh, PTL DEF Spec
<1> QED  BY <1>1, FreshKeysNeverReused, PTL

-----------------------------------------------------------------------------
(* Part three: the previous chain's length.                                *)

(* apply_remote_ratchet resets the counter before ensure_sending_chain     *)
(* copies it, so a sending chain is always opened with a count of zero.    *)
NoPriorLength ==
  \A p \in Party :
    /\ session[p].sendCK = None => session[p].sent = 0
    /\ session[p].sendCK # None => session[p].prevLen = 0
    /\ \A i \in DOMAIN log[p] : log[p][i].pn = 0

LEMMA InitNoPriorLength == Init => NoPriorLength
<1> SUFFICES ASSUME Init, NEW p \in Party
             PROVE  /\ session[p].sendCK = None => session[p].sent = 0
                    /\ session[p].sendCK # None => session[p].prevLen = 0
                    /\ \A i \in DOMAIN log[p] : log[p][i].pn = 0
  BY DEF NoPriorLength
<1>1. log[p] = <<>>
  BY DEF Init
<1>2. session[p].sent = 0 /\ session[p].prevLen = 0
  BY DEF Init, BootstrapInitiator, BootstrapResponder
<1> QED  BY <1>1, <1>2

LEMMA NextNoPriorLength == WellTyped /\ NoPriorLength /\ [Next]_vars => NoPriorLength'
<1> SUFFICES ASSUME WellTyped, NoPriorLength, [Next]_vars PROVE NoPriorLength'
  OBVIOUS
<1>1. ASSUME NEW p \in Party, Send(p) PROVE NoPriorLength'
  <2> DEFINE s == session[p]
             key == <<p, serial[p]>>
             t == EnsureSendingChain(s, key)
             u == Encrypt(s, key).session
             e == Encrypt(s, key).envelope
  <2>1. /\ IsSession(s) /\ Restorable(s) /\ key \in RatchetKey
        /\ DOMAIN session = Party /\ log \in [Party -> Seq(Envelope)]
    BY DEF WellTyped, TypeOK, AlwaysRestorable, RatchetKey
  <2>2. /\ s.sendCK # None => t = s
        /\ s.sendCK = None => t.prevLen = s.sent
    BY <2>1, EnsureSendingChainSound
  <2>3. t.prevLen = 0
    BY <2>2 DEF NoPriorLength
  <2>4. e.pn = t.prevLen /\ u.prevLen = t.prevLen /\ u.sendCK # None /\ e \in Envelope
    BY <2>1, EncryptSound
  <2>5. session' = [session EXCEPT ![p] = u] /\ log' = [log EXCEPT ![p] = Append(@, e)]
    BY <1>1 DEF Send
  <2> HIDE DEF t, u, e
  <2>6. session'[p] = u /\ log'[p] = Append(log[p], e)
    BY <2>1, <2>5
  <2>7. \A i \in DOMAIN log'[p] : log'[p][i] = e \/ (i \in DOMAIN log[p] /\ log'[p][i] = log[p][i])
    BY <2>1, <2>6
  <2>8. \A q \in Party : q # p => session'[q] = session[q] /\ log'[q] = log[q]
    BY <2>1, <2>5
  <2> QED  BY <2>3, <2>4, <2>6, <2>7, <2>8 DEF NoPriorLength
<1>2. ASSUME NEW p \in Party, NEW i \in DOMAIN channel[p], Receive(p, i) PROVE NoPriorLength'
  <2> DEFINE e == log[Peer(p)][channel[p][i]]
             u == Decrypt(session[p], e).session
  <2>1. IsSession(session[p]) /\ Restorable(session[p]) /\ DOMAIN session = Party
    BY DEF WellTyped, TypeOK, AlwaysRestorable
  <2>2. e \in Envelope
    <3>1. channel[p] \in Seq(1 .. Len(log[Peer(p)])) /\ log[Peer(p)] \in Seq(Envelope)
      BY PeerFacts DEF WellTyped, TypeOK, InTransitWasSent
    <3> QED  BY <3>1
  <2>3. KeepsSending(session[p], u) \/ ClosesSending(session[p], u, e.key)
    BY <2>1, <2>2, DecryptSound
  <2>4. session' = [session EXCEPT ![p] = u] /\ log' = log
    BY <1>2 DEF Receive
  <2> HIDE DEF u, e
  <2> QED  BY <2>1, <2>3, <2>4 DEF NoPriorLength, KeepsSending, ClosesSending
<1>3. CASE UNCHANGED <<session, log>>
  BY <1>3 DEF NoPriorLength
<1> QED
  BY <1>1, <1>2, <1>3
  DEF Next, Lose, Duplicate, vars

(* In no conversation does any header carry a prior chain length: the field*)
(* is zero in every envelope, so apply_remote_ratchet never puts aside the *)
(* keys of messages that are still missing from the chain it leaves.       *)
THEOREM PriorChainLengthIsZero ==
  Spec => [](\A p \in Party : \A i \in DOMAIN log[p] : log[p][i].pn = 0)
<1>1. NoPriorLength => \A p \in Party : \A i \in DOMAIN log[p] : log[p][i].pn = 0
  BY DEF NoPriorLength
<1>2. Spec => []NoPriorLength
  BY InitNoPriorLength, NextNoPriorLength, AlwaysWellTyped, PTL DEF Spec
<1> QED  BY <1>1, <1>2, PTL

-----------------------------------------------------------------------------
(* Part four: opened messages.                                             *)

(* What was opened cannot be derived, nor reached by a later ratchet step, *)
(* whose root is longer than any the session had.                          *)
KeysAreConsumed ==
  /\ \A p \in Party : Receiving(session[p])
  /\ \A p \in Party : \A m \in DOMAIN opened[p] : opened[p][m] > 0 =>
       LET mk == log[Peer(p)][m].mk IN
       ~CanDerive(session[p], mk) /\ Len(mk.root) <= Len(session[p].root)
  /\ \A p \in Party : \A m \in DOMAIN opened[p] : opened[p][m] \in {0, 1}

LEMMA InitKeysAreConsumed == Init => KeysAreConsumed
<1> SUFFICES ASSUME Init PROVE KeysAreConsumed
  OBVIOUS
<1>1. \A p \in Party : opened[p] = <<>>
  BY DEF Init
<1>2. ASSUME NEW p \in Party PROVE Receiving(session[p])
  <2> DEFINE s == session[p]
  <2>1. IsSession(s) /\ DOMAIN s.skipped = {}
    BY InitWellTyped DEF WellTyped, TypeOK, Init, BootstrapInitiator, BootstrapResponder
  <2>2. s.recvCK # None => s.recvCK.root = s.root
    BY DEF Init, BootstrapInitiator, BootstrapResponder, FirstChainKey
  <2> HIDE DEF s
  <2> QED  BY <2>1, <2>2, KeyLengths DEF Receiving, s
<1> QED  BY <1>1, <1>2 DEF KeysAreConsumed

(* The messages of an envelope on the way, and the envelope itself.        *)
LEMMA ReceivedEnvelope ==
  ASSUME WellTyped, NEW p \in Party, NEW i \in DOMAIN channel[p]
  PROVE  LET m == channel[p][i] IN
         /\ m \in DOMAIN opened[p] /\ m \in 1 .. Len(log[Peer(p)])
         /\ log[Peer(p)][m] \in Envelope
<1> DEFINE m == channel[p][i]
<1>1. channel[p] \in Seq(1 .. Len(log[Peer(p)])) /\ log[Peer(p)] \in Seq(Envelope)
  BY PeerFacts DEF WellTyped, TypeOK, InTransitWasSent
<1>2. m \in 1 .. Len(log[Peer(p)])
  BY <1>1
<1> HIDE DEF m
<1>3. opened[p] \in Seq(Nat) /\ Len(opened[p]) = Len(log[Peer(p)])
  BY DEF WellTyped, TypeOK
<1>4. m \in DOMAIN opened[p]
  BY <1>2, <1>3
<1>5. log[Peer(p)][m] \in Envelope
  BY <1>1, <1>2
<1> QED  BY <1>2, <1>4, <1>5 DEF m

(* A message that decrypt opens was not opened before.                     *)
LEMMA OpensOnce ==
  ASSUME WellTyped, KeysAreConsumed, NEW p \in Party, NEW i \in DOMAIN channel[p],
         Decrypt(session[p], log[Peer(p)][channel[p][i]]).ok
  PROVE  opened[p][channel[p][i]] = 0
<1> DEFINE m == channel[p][i]
           e == log[Peer(p)][m]
           s == session[p]
<1>1. m \in DOMAIN opened[p] /\ e \in Envelope
  BY ReceivedEnvelope
<1>2. IsSession(s) /\ Restorable(s) /\ Receiving(s)
  BY DEF WellTyped, TypeOK, AlwaysRestorable, KeysAreConsumed
<1>3. CanDerive(s, e.mk) \/ Len(e.mk.root) > Len(s.root)
  BY <1>1, <1>2, DecryptForgets
<1>4. Len(s.root) \in Nat /\ Len(e.mk.root) \in Nat
  BY <1>1, <1>2, KeyLengths DEF Envelope
<1> HIDE DEF m, e, s
<1>5. ~(opened[p][m] > 0)
  <2> SUFFICES ASSUME opened[p][m] > 0 PROVE FALSE
    OBVIOUS
  <2>1. ~CanDerive(s, e.mk) /\ Len(e.mk.root) <= Len(s.root)
    BY <1>1 DEF KeysAreConsumed, e, s
  <2> QED  BY <1>3, <1>4, <2>1
<1>6. opened[p][m] \in {0, 1}
  BY <1>1 DEF KeysAreConsumed
<1> QED  BY <1>5, <1>6 DEF m

LEMMA SendKeysAreConsumed ==
  ASSUME WellTyped, KeysAreConsumed, NEW p \in Party, Send(p)
  PROVE  KeysAreConsumed'
<1> DEFINE s    == session[p]
           key  == <<p, serial[p]>>
           u    == Encrypt(s, key).session
           e    == Encrypt(s, key).envelope
           q    == Peer(p)
<1>1. /\ IsSession(s) /\ Restorable(s) /\ Receiving(s) /\ key \in RatchetKey
      /\ DOMAIN session = Party
  BY DEF WellTyped, TypeOK, AlwaysRestorable, KeysAreConsumed, RatchetKey
<1>2. Receiving(u) /\ Forgets(s, u) /\ e \in Envelope
  BY <1>1, EncryptForgets, EncryptSound
<1>3. q \in Party /\ q # p /\ Peer(q) = p /\ \A r \in Party : r = p \/ r = q
  BY PeerFacts
<1>4. /\ session' = [session EXCEPT ![p] = u]
      /\ log' = [log EXCEPT ![p] = Append(@, e)]
      /\ opened' = [opened EXCEPT ![q] = Append(@, 0)]
  BY DEF Send
<1> HIDE DEF u, e, q, s, key
<1>5. session'[p] = u /\ session'[q] = session[q]
  BY <1>1, <1>3, <1>4
<1>6. log'[q] = log[q] /\ log'[p] = Append(log[p], e)
  BY <1>3, <1>4 DEF WellTyped, TypeOK
<1>7. opened'[p] = opened[p] /\ opened'[q] = Append(opened[q], 0)
  BY <1>3, <1>4 DEF WellTyped, TypeOK
<1>8. /\ opened[q] \in Seq(Nat) /\ Len(opened[q]) = Len(log[p]) /\ log[p] \in Seq(Envelope)
      /\ opened[p] \in Seq(Nat) /\ Len(opened[p]) = Len(log[q]) /\ log[q] \in Seq(Envelope)
  BY <1>3 DEF WellTyped, TypeOK, q
<1>9. ASSUME NEW m \in DOMAIN opened'[q]
      PROVE  /\ opened'[q][m] \in {0, 1}
             /\ opened'[q][m] > 0 => LET mk == log'[p][m].mk IN
                  ~CanDerive(session[q], mk) /\ Len(mk.root) <= Len(session[q].root)
  <2>1. CASE m \in DOMAIN opened[q]
    <3>1. opened'[q][m] = opened[q][m] /\ log'[p][m] = log[p][m]
      BY <1>6, <1>7, <1>8, <2>1
    <3> QED  BY <1>3, <2>1, <3>1 DEF KeysAreConsumed
  <2>2. CASE m = Len(opened[q]) + 1
    BY <1>7, <1>8, <2>2
  <2> QED  BY <1>7, <1>8, <2>1, <2>2
<1>10. ASSUME NEW m \in DOMAIN opened[p], opened[p][m] > 0
       PROVE  LET mk == log[q][m].mk IN
              ~CanDerive(u, mk) /\ Len(mk.root) <= Len(u.root)
  <2> DEFINE mk == log[q][m].mk
  <2>0. log[q][m] \in Envelope
    BY <1>8
  <2>1. mk \in ChainKey
    BY <2>0 DEF Envelope
  <2>2. ~CanDerive(s, mk) /\ Len(mk.root) <= Len(s.root)
    BY <1>10 DEF KeysAreConsumed, q, s
  <2> HIDE DEF mk
  <2>3. Len(mk.root) \in Nat /\ Len(s.root) \in Nat
    BY <1>1, <2>1, KeyLengths
  <2>4. ~CanDerive(u, mk)
    BY <1>2, <2>1, <2>2, <2>3 DEF Forgets
  <2>5. IsSession(u)
    BY <1>1, EncryptSound DEF u
  <2>6. Len(u.root) \in Nat /\ Len(s.root) <= Len(u.root)
    BY <1>2, <2>5, KeyLengths DEF Forgets
  <2>7. Len(mk.root) <= Len(u.root)
    BY <2>2, <2>3, <2>6
  <2> QED  BY <2>4, <2>7 DEF mk
<1>11. /\ Receiving(session[q]) 
       /\ \A m \in DOMAIN opened[p] : opened[p][m] \in {0, 1}
  BY <1>3 DEF KeysAreConsumed
<1>12. ASSUME NEW x \in Party
       PROVE  /\ Receiving(session'[x])
              /\ \A m \in DOMAIN opened'[x] :
                   /\ opened'[x][m] \in {0, 1}
                   /\ opened'[x][m] > 0 => LET mk == log'[Peer(x)][m].mk IN
                        ~CanDerive(session'[x], mk) /\ Len(mk.root) <= Len(session'[x].root)
  <2>1. CASE x = p
    BY <1>2, <1>5, <1>6, <1>7, <1>10, <1>11, <2>1 DEF q
  <2>2. CASE x = q
    BY <1>3, <1>5, <1>9, <1>11, <2>2
  <2> QED  BY <1>3, <2>1, <2>2
<1> QED  BY <1>12 DEF KeysAreConsumed

LEMMA ReceiveKeysAreConsumed ==
  ASSUME WellTyped, KeysAreConsumed, NEW p \in Party, NEW i \in DOMAIN channel[p], Receive(p, i)
  PROVE  KeysAreConsumed'
<1> DEFINE m    == channel[p][i]
           q    == Peer(p)
           e    == log[q][m]
           s    == session[p]
           step == Decrypt(s, e)
           t    == step.session
<1>1. m \in DOMAIN opened[p] /\ e \in Envelope
  BY ReceivedEnvelope
<1>2. IsSession(s) /\ Restorable(s) /\ Receiving(s) /\ DOMAIN session = Party
  BY DEF WellTyped, TypeOK, AlwaysRestorable, KeysAreConsumed
<1>3. /\ IsSession(t) /\ Receiving(t) /\ Forgets(s, t)
      /\ step.ok => ~CanDerive(t, e.mk) /\ Len(e.mk.root) <= Len(t.root)
  BY <1>1, <1>2, DecryptSound, DecryptForgets
<1>4. step.ok => opened[p][m] = 0
  BY OpensOnce
<1>5. /\ session' = [session EXCEPT ![p] = t]
      /\ opened' = IF step.ok THEN [opened EXCEPT ![p][m] = @ + 1] ELSE opened
      /\ log' = log
  BY DEF Receive
<1>6. q \in Party /\ q # p
  BY PeerFacts
<1>7. opened[p] \in Seq(Nat) /\ Len(opened[p]) = Len(log[q]) /\ log[q] \in Seq(Envelope)
  BY <1>6 DEF WellTyped, TypeOK
<1> HIDE DEF step, t, e, s, m
<1>8. session'[p] = t /\ \A x \in Party : x # p => session'[x] = session[x] /\ opened'[x] = opened[x]
  BY <1>2, <1>5 DEF WellTyped, TypeOK
<1>9. /\ DOMAIN opened'[p] = DOMAIN opened[p]
      /\ \A k \in DOMAIN opened[p] : opened'[p][k] = IF step.ok /\ k = m THEN 1 ELSE opened[p][k]
  <2>1. CASE step.ok
    <3>1. opened' = [opened EXCEPT ![p] = [opened[p] EXCEPT ![m] = opened[p][m] + 1]]
      BY <1>5, <2>1
    <3>2. opened'[p] = [opened[p] EXCEPT ![m] = opened[p][m] + 1]
      BY <3>1 DEF WellTyped, TypeOK
    <3>3. opened[p][m] + 1 = 1
      BY <1>4, <2>1
    <3> QED  BY <1>1, <1>7, <2>1, <3>2, <3>3
  <2>2. CASE ~step.ok
    BY <1>5, <2>2
  <2> QED  BY <2>1, <2>2
<1>10. ASSUME NEW k \in DOMAIN opened[p], opened[p][k] > 0
       PROVE  LET mk == log[q][k].mk IN
              ~CanDerive(t, mk) /\ Len(mk.root) <= Len(t.root)
  <2> DEFINE mk == log[q][k].mk
  <2>0. log[q][k] \in Envelope
    BY <1>7
  <2>1. mk \in ChainKey
    BY <2>0 DEF Envelope
  <2>2. ~CanDerive(s, mk) /\ Len(mk.root) <= Len(s.root)
    BY <1>10 DEF KeysAreConsumed, s
  <2> HIDE DEF mk
  <2>3. /\ Len(mk.root) \in Nat /\ Len(s.root) \in Nat /\ Len(t.root) \in Nat
        /\ Len(s.root) <= Len(t.root)
    BY <1>2, <1>3, <2>1, KeyLengths DEF Forgets
  <2>4. ~CanDerive(t, mk)
    BY <1>3, <2>1, <2>2, <2>3 DEF Forgets
  <2> QED  BY <2>2, <2>3, <2>4 DEF mk
<1>11. ASSUME NEW k \in DOMAIN opened'[p]
       PROVE  /\ opened'[p][k] \in {0, 1}
              /\ opened'[p][k] > 0 => LET mk == log[q][k].mk IN
                   ~CanDerive(t, mk) /\ Len(mk.root) <= Len(t.root)
  <2>1. CASE step.ok /\ k = m
    BY <1>3, <1>9, <2>1 DEF e
  <2>2. CASE ~(step.ok /\ k = m)
    <3>1. opened'[p][k] = opened[p][k] /\ k \in DOMAIN opened[p]
      BY <1>9, <2>2
    <3>2. opened[p][k] \in {0, 1}
      BY <3>1 DEF KeysAreConsumed
    <3> QED  BY <1>10, <3>1, <3>2
  <2> QED  BY <2>1, <2>2
<1>12. ASSUME NEW x \in Party
       PROVE  /\ Receiving(session'[x])
              /\ \A k \in DOMAIN opened'[x] :
                   /\ opened'[x][k] \in {0, 1}
                   /\ opened'[x][k] > 0 => LET mk == log'[Peer(x)][k].mk IN
                        ~CanDerive(session'[x], mk) /\ Len(mk.root) <= Len(session'[x].root)
  <2>1. CASE x = p
    BY <1>3, <1>5, <1>8, <1>11, <2>1
  <2>2. CASE x # p
    BY <1>5, <1>8, <2>2 DEF KeysAreConsumed
  <2> QED  BY <2>1, <2>2
<1> QED  BY <1>12 DEF KeysAreConsumed

LEMMA NextKeysAreConsumed == WellTyped /\ KeysAreConsumed /\ [Next]_vars => KeysAreConsumed'
<1> SUFFICES ASSUME WellTyped, KeysAreConsumed, [Next]_vars PROVE KeysAreConsumed'
  OBVIOUS
<1>1. ASSUME NEW p \in Party, Send(p) PROVE KeysAreConsumed'
  BY <1>1, SendKeysAreConsumed
<1>2. ASSUME NEW p \in Party, NEW i \in DOMAIN channel[p], Receive(p, i) PROVE KeysAreConsumed'
  BY <1>2, ReceiveKeysAreConsumed
<1>3. CASE UNCHANGED <<session, log, opened>>
  BY <1>3 DEF KeysAreConsumed
<1> QED  BY <1>1, <1>2, <1>3 DEF Next, Lose, Duplicate, vars

LEMMA AlwaysConsumed == Spec => [](WellTyped /\ KeysAreConsumed)
BY InitWellTyped, NextWellTyped, InitKeysAreConsumed, NextKeysAreConsumed, PTL DEF Spec

(* Once a message was opened, nothing its receiver holds derives its key   *)
(* again, after whatever messages and failed decrypts follow.              *)
THEOREM OpenedKeysStayGone == Spec => []OpenedKeysAreGone
<1>1. KeysAreConsumed => OpenedKeysAreGone
  BY DEF KeysAreConsumed, OpenedKeysAreGone
<1> QED  BY <1>1, AlwaysConsumed, PTL

(* Every step of the conversation is one of the abstract delivery, or none *)
(* that it sees.                                                           *)
LEMMA DeliveryStep ==
  WellTyped /\ KeysAreConsumed /\ [Next]_vars => [Delivery!Next]_(Delivery!deliveryVars)
<1> DEFINE sent == [p \in Party |-> Len(log[p])]
<1> SUFFICES ASSUME WellTyped, KeysAreConsumed, [Next]_vars
             PROVE  Delivery!Next \/ UNCHANGED <<sent, opened>>
  BY DEF Delivery!deliveryVars
<1>1. \A p : Delivery!Counterpart(p) = Peer(p)
  BY DEF Delivery!Counterpart, Peer
<1>2. ASSUME NEW p \in Party, Send(p) PROVE Delivery!Next
  <2> DEFINE e == Encrypt(session[p], <<p, serial[p]>>).envelope
  <2>1. log' = [log EXCEPT ![p] = Append(@, e)] /\ opened' = [opened EXCEPT ![Peer(p)] = Append(@, 0)]
    BY <1>2 DEF Send
  <2>2. IsSession(session[p]) /\ Restorable(session[p]) /\ <<p, serial[p]>> \in RatchetKey
    BY DEF WellTyped, TypeOK, AlwaysRestorable, RatchetKey
  <2>3. e \in Envelope
    BY <2>2, EncryptSound
  <2> HIDE DEF e
  <2>4. Len(log'[p]) = Len(log[p]) + 1 /\ \A r \in Party : r # p => log'[r] = log[r]
    BY <2>1, <2>3 DEF WellTyped, TypeOK
  <2>5. sent' = [sent EXCEPT ![p] = @ + 1]
    BY <2>4
  <2> QED  BY <1>1, <2>1, <2>5 DEF Delivery!Next, Delivery!Send
<1>3. ASSUME NEW p \in Party, NEW i \in DOMAIN channel[p], Receive(p, i)
      PROVE  Delivery!Next \/ UNCHANGED <<sent, opened>>
  <2> DEFINE m    == channel[p][i]
             step == Decrypt(session[p], log[Peer(p)][m])
  <2>1. /\ opened' = IF step.ok THEN [opened EXCEPT ![p][m] = @ + 1] ELSE opened
        /\ log' = log
    BY <1>3 DEF Receive
  <2>2. UNCHANGED sent
    BY <2>1
  <2>3. m \in 1 .. Len(log[Peer(p)]) /\ m \in DOMAIN opened[p] /\ Peer(p) \in Party
    BY ReceivedEnvelope, PeerFacts
  <2>4. CASE step.ok
    <3>1. opened[p][m] = 0
      BY <2>4, OpensOnce
    <3>2. opened' = [opened EXCEPT ![p][m] = 1]
      BY <2>1, <2>4, <3>1
    <3>3. m \in 1 .. sent[Peer(p)]
      BY <2>3
    <3> HIDE DEF m, sent
    <3>4. Delivery!Open(p, m)
      BY <1>1, <2>2, <3>1, <3>2, <3>3 DEF Delivery!Open, sent
    <3> QED  BY <1>1, <3>3, <3>4 DEF Delivery!Next, sent
  <2>5. CASE ~step.ok
    BY <2>1, <2>2, <2>5
  <2> QED  BY <2>4, <2>5
<1>4. CASE UNCHANGED <<log, opened>>
  BY <1>4
<1> QED  BY <1>2, <1>3, <1>4 DEF Next, Lose, Duplicate, vars

(* The two sessions keep the abstract promise over any network: an end     *)
(* opens only what its peer sent, and each message once, however often its *)
(* envelope is delivered.                                                  *)
THEOREM DeliveryImplemented == Spec => ImplementsDelivery
<1>1. Init => Delivery!Init
  BY DEF Init, Delivery!Init
<1>2. Init => WellTyped /\ KeysAreConsumed
  BY InitWellTyped, InitKeysAreConsumed
<1> QED  BY <1>1, AlwaysConsumed, DeliveryStep, PTL DEF Spec, ImplementsDelivery, Delivery!Spec

-----------------------------------------------------------------------------
(* Part five: the two ends' roots.                                         *)

(* What a prefix is, element by element.                                   *)
LEMMA PrefixElements ==
  ASSUME NEW S, NEW a \in Seq(S), NEW b \in Seq(S)
  PROVE  IsPrefix(a, b) <=> Len(a) <= Len(b) /\ \A i \in 1 .. Len(a) : a[i] = b[i]
<1>1. SubSeq(a, 1, Len(a)) = a
  OBVIOUS
<1>2. ASSUME Len(a) <= Len(b)
      PROVE  /\ SubSeq(b, 1, Len(a)) \in Seq(S) /\ Len(SubSeq(b, 1, Len(a))) = Len(a)
             /\ \A i \in 1 .. Len(a) : SubSeq(b, 1, Len(a))[i] = b[i]
  BY <1>2
<1>3. ASSUME Len(a) <= Len(b)
      PROVE  a = SubSeq(b, 1, Len(a)) <=> \A i \in 1 .. Len(a) : a[i] = b[i]
  <2> DEFINE c == SubSeq(b, 1, Len(a))
  <2>1. c \in Seq(S) /\ Len(c) = Len(a) /\ \A i \in 1 .. Len(a) : c[i] = b[i]
    BY <1>2, <1>3
  <2> HIDE DEF c
  <2>2. (\A i \in 1 .. Len(a) : a[i] = c[i]) => a = c
    BY <2>1
  <2> QED  BY <2>1, <2>2 DEF c
<1> QED  BY <1>1, <1>3 DEF IsPrefix

LEMMA PrefixFacts ==
  /\ \A a \in Seq(DHOutput) : IsPrefix(a, a)
  /\ \A a, b \in Seq(DHOutput) : \A x \in DHOutput :
       IsPrefix(a, b) => IsPrefix(a, Append(b, x))
  /\ \A a, b \in Seq(DHOutput) : IsPrefix(a, b) /\ Len(a) = Len(b) => a = b
<1>1. ASSUME NEW a \in Seq(DHOutput) PROVE IsPrefix(a, a)
  BY PrefixElements
<1>2. ASSUME NEW a \in Seq(DHOutput), NEW b \in Seq(DHOutput), NEW x \in DHOutput,
             IsPrefix(a, b)
      PROVE  IsPrefix(a, Append(b, x))
  <2> DEFINE c == Append(b, x)
  <2>1. Len(a) <= Len(b) /\ \A i \in 1 .. Len(a) : a[i] = b[i]
    BY <1>2, PrefixElements
  <2>2. /\ c \in Seq(DHOutput) /\ Len(c) = Len(b) + 1 /\ Len(b) \in Nat /\ Len(a) \in Nat
        /\ \A i \in 1 .. Len(b) : c[i] = b[i]
    OBVIOUS
  <2> HIDE DEF c
  <2>3. Len(a) <= Len(c) /\ \A i \in 1 .. Len(a) : a[i] = c[i]
    BY <2>1, <2>2
  <2>4. IsPrefix(a, c)
    BY <2>2, <2>3, PrefixElements
  <2> QED  BY <2>4 DEF c
<1>3. ASSUME NEW a \in Seq(DHOutput), NEW b \in Seq(DHOutput), IsPrefix(a, b), Len(a) = Len(b)
      PROVE  a = b
  <2>1. \A i \in 1 .. Len(a) : a[i] = b[i]
    BY <1>3, PrefixElements
  <2> QED  BY <1>3, <2>1
<1> QED  BY <1>1, <1>2, <1>3

(* An end's root continues the root of every chain it sealed with.         *)
RootsGrow ==
  \A p \in Party :
    /\ \A i \in DOMAIN log[p] : IsPrefix(log[p][i].mk.root, session[p].root)
    /\ session[p].sendCK # None => IsPrefix(session[p].sendCK.root, session[p].root)

(* p has taken one ratchet step that its peer has not.                     *)
Ahead(p) == \E d \in DHOutput : session[p].root = Append(session[Peer(p)].root, d)

(* Until an end refuses a message: the roots are the same and one end holds*)
(* a sending chain, or both hold one and one of them is a step ahead.      *)
InStep ==
  (\A p \in Party : rejected[p] = {}) =>
    \/ /\ \A p \in Party : session[p].root = session[Peer(p)].root
       /\ \E p \in Party : session[p].sendCK # None
    \/ /\ \A p \in Party : session[p].sendCK # None
       /\ \E p \in Party : Ahead(p)

Lockstep == RootsGrow /\ InStep

LEMMA RootType ==
  ASSUME WellTyped
  PROVE  /\ \A p \in Party : session[p].root \in Seq(DHOutput) /\ Len(session[p].root) \in Nat
         /\ \A p \in Party : \A i \in DOMAIN log[p] : log[p][i].mk.root \in Seq(DHOutput)
<1>1. \A p \in Party : session[p].root \in Seq(DHOutput)
  BY DEF WellTyped, TypeOK, IsSession, RootKey
<1>2. ASSUME NEW p \in Party, NEW i \in DOMAIN log[p]
      PROVE  log[p][i].mk.root \in Seq(DHOutput)
  <2>1. log[p] \in Seq(Envelope)
    BY DEF WellTyped, TypeOK
  <2>2. log[p][i] \in Envelope
    BY <2>1
  <2> QED  BY <2>2 DEF Envelope, ChainKey, RootKey
<1> QED  BY <1>1, <1>2

LEMMA InitLockstep == Init => Lockstep
<1> SUFFICES ASSUME Init PROVE Lockstep
  OBVIOUS
<1>1. WellTyped
  BY InitWellTyped
<1>2. \A p \in Party : log[p] = <<>>
  BY DEF Init
<1>3. Initiator \in Party /\ Peer(Initiator) = Responder /\ Peer(Responder) = Initiator
      /\ Party = {Initiator, Responder}
  BY PartyAssumption, PeerFacts
<1>4. /\ session[Initiator] = BootstrapInitiator(<<Initiator, 0>>, <<Responder, 0>>)
      /\ session[Responder] = BootstrapResponder(<<Responder, 0>>, <<Initiator, 0>>)
  BY <1>3, PartyAssumption DEF Init
<1>5. session[Initiator].root = session[Responder].root
  <2>1. DiffieHellman(<<Initiator, 0>>, <<Responder, 0>>)
          = DiffieHellman(<<Responder, 0>>, <<Initiator, 0>>)
    BY DEF DiffieHellman
  <2>2. /\ session[Initiator].root = BootstrapRoot(<<Initiator, 0>>, <<Responder, 0>>)
        /\ session[Responder].root = BootstrapRoot(<<Responder, 0>>, <<Initiator, 0>>)
    BY <1>4 DEF BootstrapInitiator, BootstrapResponder
  <2> QED  BY <2>1, <2>2 DEF BootstrapRoot
<1>6. /\ session[Initiator].sendCK = FirstChainKey(session[Initiator].root)
      /\ session[Responder].sendCK = None
  BY <1>4 DEF BootstrapInitiator, BootstrapResponder
<1>7. session[Initiator].sendCK # None
      /\ session[Initiator].sendCK.root = session[Initiator].root
  <2>1. session[Initiator].root \in RootKey
    BY <1>1, <1>3, RootType DEF RootKey
  <2> QED  BY <1>6, <2>1, ChainKeyType, NoneAssumption DEF FirstChainKey
<1>8. RootsGrow
  BY <1>1, <1>2, <1>3, <1>6, <1>7, PrefixFacts, RootType DEF RootsGrow
<1>9. InStep
  BY <1>3, <1>5, <1>7 DEF InStep
<1> QED  BY <1>8, <1>9 DEF Lockstep

(* encrypt: with the roots the same, the end that opens a chain is ahead.  *)
LEMMA SendLockstep ==
  ASSUME WellTyped, Lockstep, NEW p \in Party, Send(p), KeysAreConsumed
  PROVE  Lockstep'
<1> DEFINE s    == session[p]
           key  == <<p, serial[p]>>
           u    == Encrypt(s, key).session
           e    == Encrypt(s, key).envelope
           q    == Peer(p)
           d    == DiffieHellman(key, s.remote)
<1>1. /\ IsSession(s) /\ Restorable(s) /\ Receiving(s) /\ key \in RatchetKey
      /\ DOMAIN session = Party
  BY DEF WellTyped, TypeOK, AlwaysRestorable, KeysAreConsumed, RatchetKey
<1>2. /\ u.sendCK # None /\ u.sendCK.root = e.mk.root
      /\ s.sendCK # None => u.root = s.root /\ e.mk.root = s.sendCK.root
      /\ s.sendCK = None => u.root = Append(s.root, d) /\ e.mk.root = Append(s.root, d)
      /\ e \in Envelope
  BY <1>1, EncryptForgets, EncryptSound DEF DeriveRootKey
<1>3. q \in Party /\ q # p /\ Peer(q) = p /\ \A r \in Party : r = p \/ r = q
  BY PeerFacts
<1>4. /\ session' = [session EXCEPT ![p] = u] /\ log' = [log EXCEPT ![p] = Append(@, e)]
      /\ rejected' = rejected
  BY DEF Send
<1>5. d \in DHOutput
  BY <1>1 DEF DiffieHellman, DHOutput, IsSession
<1> HIDE DEF u, e, q, s, d, key
<1>6. session'[p] = u /\ session'[q] = session[q]
  BY <1>1, <1>3, <1>4
<1>7. log'[q] = log[q] /\ log'[p] = Append(log[p], e) /\ log[p] \in Seq(Envelope)
  BY <1>3, <1>4 DEF WellTyped, TypeOK
<1>8. s.root \in Seq(DHOutput) /\ Append(s.root, d) \in Seq(DHOutput)
  BY <1>5, RootType DEF s
<1>9. ASSUME NEW a \in Seq(DHOutput), IsPrefix(a, s.root) PROVE IsPrefix(a, u.root)
  <2>1. IsPrefix(a, Append(s.root, d))
    BY <1>5, <1>8, <1>9, PrefixFacts
  <2> QED  BY <1>2, <1>9, <2>1
<1>10. IsPrefix(e.mk.root, u.root)
  <2>1. CASE s.sendCK = None
    BY <1>2, <1>5, <1>8, <2>1, PrefixFacts
  <2>2. CASE s.sendCK # None
    BY <1>2, <2>2 DEF Lockstep, RootsGrow, s
  <2> QED  BY <2>1, <2>2
<1>11. RootsGrow'
  <2>1. ASSUME NEW i \in DOMAIN log'[p] PROVE IsPrefix(log'[p][i].mk.root, u.root)
    <3>1. CASE i \in DOMAIN log[p]
      <4>1. log'[p][i] = log[p][i] /\ log[p][i].mk.root \in Seq(DHOutput)
        BY <1>7, <3>1, RootType
      <4>2. IsPrefix(log[p][i].mk.root, s.root)
        BY <3>1 DEF Lockstep, RootsGrow, s
      <4> QED  BY <1>9, <4>1, <4>2
    <3>2. CASE i = Len(log[p]) + 1
      BY <1>7, <1>10, <1>2, <3>2
    <3> QED  BY <1>7, <3>1, <3>2, <1>2
  <2>2. /\ \A i \in DOMAIN log'[q] : IsPrefix(log'[q][i].mk.root, session'[q].root)
        /\ session'[q].sendCK # None => IsPrefix(session'[q].sendCK.root, session'[q].root)
    BY <1>3, <1>6, <1>7 DEF Lockstep, RootsGrow
  <2>3. IsPrefix(session'[p].sendCK.root, session'[p].root)
    BY <1>2, <1>6, <1>10
  <2> QED  BY <1>3, <1>6, <2>1, <2>2, <2>3 DEF RootsGrow
<1>12. InStep'
  <2> SUFFICES ASSUME \A x \in Party : rejected[x] = {}
               PROVE  \/ /\ session'[p].root = session'[q].root
                         /\ session'[p].sendCK # None
                      \/ /\ session'[p].sendCK # None /\ session'[q].sendCK # None
                         /\ \E d2 \in DHOutput : \/ session'[p].root = Append(session'[q].root, d2)
                                                 \/ session'[q].root = Append(session'[p].root, d2)
    BY <1>3, <1>4 DEF InStep, Ahead, q
  <2>1. \/ s.root = session[q].root /\ (s.sendCK # None \/ session[q].sendCK # None)
        \/ /\ s.sendCK # None /\ session[q].sendCK # None
           /\ \E d2 \in DHOutput : \/ s.root = Append(session[q].root, d2)
                                   \/ session[q].root = Append(s.root, d2)
    BY <1>3 DEF Lockstep, InStep, Ahead, q, s
  <2>2. CASE s.sendCK # None
    BY <1>2, <1>6, <2>1, <2>2
  <2>3. CASE s.sendCK = None
    BY <1>2, <1>5, <1>6, <2>1, <2>3
  <2> QED  BY <2>2, <2>3
<1> QED  BY <1>11, <1>12 DEF Lockstep

(* decrypt: the end that follows a ratchet key catches up with its peer.   *)
LEMMA ReceiveLockstep ==
  ASSUME WellTyped, Lockstep, KeysAreConsumed,
         NEW p \in Party, NEW i \in DOMAIN channel[p], Receive(p, i)
  PROVE  Lockstep'
<1> DEFINE m    == channel[p][i]
           q    == Peer(p)
           e    == log[q][m]
           s    == session[p]
           step == Decrypt(s, e)
           t    == step.session
           d    == DiffieHellman(s.local, e.key)
<1>1. m \in DOMAIN log[q] /\ e \in Envelope /\ q \in Party /\ q # p /\ Peer(q) = p
      /\ \A r \in Party : r = p \/ r = q
  <2>1. log[q] \in Seq(Envelope)
    BY PeerFacts DEF WellTyped, TypeOK
  <2> QED  BY <2>1, ReceivedEnvelope, PeerFacts
<1>2. IsSession(s) /\ Restorable(s) /\ Receiving(s) /\ DOMAIN session = Party
  BY DEF WellTyped, TypeOK, AlwaysRestorable, KeysAreConsumed
<1>3. /\ KeepsSending(s, t) \/ ClosesSending(s, t, e.key)
      /\ step.ok => \/ KeepsSending(s, t)
                    \/ /\ ClosesSending(s, t, e.key) /\ t.root = e.mk.root
                       /\ t.root = Append(s.root, d)
  BY <1>1, <1>2, DecryptSound, DecryptForgets DEF DeriveRootKey
<1>4. /\ session' = [session EXCEPT ![p] = t] /\ log' = log
      /\ rejected' = IF step.ok THEN rejected ELSE [rejected EXCEPT ![p] = @ \cup {m}]
  BY DEF Receive
<1>5. d \in DHOutput
  BY <1>1, <1>2 DEF DiffieHellman, DHOutput, IsSession, Envelope
<1>6. t.root = s.root \/ \E x \in DHOutput : t.root = Append(s.root, x)
  BY <1>1, <1>2, DecryptGrowsRoot
<1> HIDE DEF step, t, e, s, m, q, d
<1>7. session'[p] = t /\ session'[q] = session[q]
  BY <1>1, <1>2, <1>4
<1>8. s.root \in Seq(DHOutput) /\ session[q].root \in Seq(DHOutput)
      /\ e.mk.root \in Seq(DHOutput)
  BY <1>1, RootType DEF s, e
<1>9. RootsGrow'
  <2>1. ASSUME NEW a \in Seq(DHOutput), IsPrefix(a, s.root) PROVE IsPrefix(a, t.root)
    <3>1. CASE t.root = s.root
      BY <2>1, <3>1
    <3>2. ASSUME NEW x \in DHOutput, t.root = Append(s.root, x) PROVE IsPrefix(a, t.root)
      <4>1. IsPrefix(a, Append(s.root, x))
        BY <1>8, <2>1, PrefixFacts
      <4> QED  BY <3>2, <4>1
    <3> QED  BY <1>6, <3>1, <3>2
  <2>2. \A j \in DOMAIN log[p] : IsPrefix(log[p][j].mk.root, t.root)
    BY <2>1, RootType DEF Lockstep, RootsGrow, s
  <2>3. t.sendCK # None => IsPrefix(t.sendCK.root, t.root)
    BY <1>3 DEF Lockstep, RootsGrow, s, KeepsSending, ClosesSending
  <2>4. /\ \A j \in DOMAIN log[q] : IsPrefix(log[q][j].mk.root, session[q].root)
        /\ session[q].sendCK # None => IsPrefix(session[q].sendCK.root, session[q].root)
    BY <1>1 DEF Lockstep, RootsGrow
  <2> QED  BY <1>1, <1>4, <1>7, <2>2, <2>3, <2>4 DEF RootsGrow
<1>10. InStep'
  <2> SUFFICES ASSUME \A x \in Party : rejected'[x] = {}
               PROVE  \/ /\ t.root = session[q].root
                         /\ t.sendCK # None \/ session[q].sendCK # None
                      \/ /\ t.sendCK # None /\ session[q].sendCK # None
                         /\ \E x \in DHOutput : \/ t.root = Append(session[q].root, x)
                                                \/ session[q].root = Append(t.root, x)
    BY <1>1, <1>7 DEF InStep, Ahead, q
  <2>1. step.ok /\ rejected' = rejected
    <3>1. ~step.ok => m \in rejected'[p]
      BY <1>4 DEF WellTyped, TypeOK
    <3> QED  BY <1>4, <3>1
  <2>2. \/ s.root = session[q].root /\ (s.sendCK # None \/ session[q].sendCK # None)
        \/ /\ s.sendCK # None /\ session[q].sendCK # None
           /\ \E x \in DHOutput : \/ s.root = Append(session[q].root, x)
                                  \/ session[q].root = Append(s.root, x)
    BY <1>1, <2>1 DEF Lockstep, InStep, Ahead, q, s
  <2>3. CASE KeepsSending(s, t)
    BY <2>2, <2>3 DEF KeepsSending
  <2>4. CASE ClosesSending(s, t, e.key) /\ t.root = e.mk.root /\ t.root = Append(s.root, d)
    <3>1. IsPrefix(t.root, session[q].root)
      BY <1>1, <2>4 DEF Lockstep, RootsGrow, e
    <3>2. t.root \in Seq(DHOutput) /\ Len(t.root) = Len(s.root) + 1 /\ Len(s.root) \in Nat
      BY <1>5, <1>8, <2>4
    <3>3. Len(t.root) <= Len(session[q].root)
      BY <1>8, <3>1, <3>2, PrefixElements
    <3>4. ~(s.root = session[q].root) /\ ~\E x \in DHOutput : s.root = Append(session[q].root, x)
      BY <1>8, <3>2, <3>3
    <3>5. session[q].sendCK # None /\ \E x \in DHOutput : session[q].root = Append(s.root, x)
      BY <2>2, <3>4
    <3>6. Len(session[q].root) = Len(t.root)
      BY <1>8, <3>2, <3>5
    <3>7. t.root = session[q].root
      BY <1>5, <1>8, <3>1, <3>2, <3>6, PrefixFacts
    <3> QED  BY <3>5, <3>7
  <2> QED  BY <1>3, <2>1, <2>3, <2>4
<1> QED  BY <1>9, <1>10 DEF Lockstep

LEMMA NextLockstep == WellTyped /\ KeysAreConsumed /\ Lockstep /\ [Next]_vars => Lockstep'
<1> SUFFICES ASSUME WellTyped, KeysAreConsumed, Lockstep, [Next]_vars PROVE Lockstep'
  OBVIOUS
<1>1. ASSUME NEW p \in Party, Send(p) PROVE Lockstep'
  BY <1>1, SendLockstep
<1>2. ASSUME NEW p \in Party, NEW i \in DOMAIN channel[p], Receive(p, i) PROVE Lockstep'
  BY <1>2, ReceiveLockstep
<1>3. CASE UNCHANGED <<session, log, rejected>>
  BY <1>3 DEF Lockstep, RootsGrow, InStep, Ahead
<1> QED  BY <1>1, <1>2, <1>3 DEF Next, Lose, Duplicate, vars

(* While neither end refuses a message, their roots are one sequence of    *)
(* ratchet steps, and neither end is more than one step ahead.             *)
THEOREM RootsStayInLockstep == Spec => []RootsInLockstep
<1>1. WellTyped /\ Lockstep => RootsInLockstep
  <2> DEFINE a == session[Initiator].root
             b == session[Responder].root
  <2> SUFFICES ASSUME WellTyped, Lockstep, \A p \in Party : rejected[p] = {}
               PROVE  (IsPrefix(a, b) \/ IsPrefix(b, a)) /\ Len(a) - Len(b) \in -1 .. 1
    BY DEF RootsInLockstep
  <2>1. a \in Seq(DHOutput) /\ b \in Seq(DHOutput)
    BY RootType, PartyAssumption
  <2>2. Peer(Initiator) = Responder /\ Peer(Responder) = Initiator
    BY PeerFacts, PartyAssumption
  <2>3. a = b \/ \E d \in DHOutput : a = Append(b, d) \/ b = Append(a, d)
    BY <2>2, PartyAssumption DEF Lockstep, InStep, Ahead
  <2> HIDE DEF a, b
  <2>4. IsPrefix(a, a) /\ IsPrefix(b, b)
    BY <2>1, PrefixFacts
  <2>5. IsPrefix(a, b) \/ IsPrefix(b, a)
    <3>1. ASSUME NEW c \in Seq(DHOutput), NEW d \in DHOutput PROVE IsPrefix(c, Append(c, d))
      <4>1. IsPrefix(c, c)
        BY PrefixFacts
      <4> QED  BY <4>1, PrefixFacts
    <3> QED  BY <2>1, <2>3, <2>4, <3>1
  <2>6. Len(a) \in Nat /\ Len(b) \in Nat
        /\ (Len(a) = Len(b) \/ Len(a) = Len(b) + 1 \/ Len(b) = Len(a) + 1)
    BY <2>1, <2>3
  <2>7. Len(a) - Len(b) \in -1 .. 1
    BY <2>6
  <2> QED  BY <2>5, <2>7
<1>2. Init => WellTyped /\ KeysAreConsumed /\ Lockstep
  BY InitWellTyped, InitKeysAreConsumed, InitLockstep
<1> QED  BY <1>1, <1>2, AlwaysConsumed, NextLockstep, PTL DEF Spec

-----------------------------------------------------------------------------
(* Part six: why a message is refused.                                     *)

(* What end q has sent: chains follow each other, each is numbered without *)
(* a gap, has one root, and ages with its numbers.                         *)
InOrder(q, sent) ==
  /\ \A i \in DOMAIN sent : sent[i].key \in {q} \X Nat /\ sent[i].mk.n = sent[i].n
  /\ \A i, j \in DOMAIN sent : i < j =>
       \/ sent[i].key[2] < sent[j].key[2]
       \/ sent[i].key = sent[j].key /\ sent[i].n < sent[j].n
  /\ \A i \in DOMAIN sent : \A n \in 0 .. sent[i].n - 1 :
       \E j \in DOMAIN sent : sent[j].key = sent[i].key /\ sent[j].n = n
  /\ \A i, j \in DOMAIN sent : sent[i].key = sent[j].key => sent[i].mk.root = sent[j].mk.root

(* The chain that session s seals with next goes on from what was sent.    *)
Continues(s, sent) ==
  /\ \A i \in DOMAIN sent : sent[i].key[2] <= s.local[2]
  /\ s.sendCK # None =>
       /\ \A i \in DOMAIN sent : sent[i].key = s.local => sent[i].mk.root = s.sendCK.root
       /\ \A n \in 0 .. s.sent - 1 : \E j \in DOMAIN sent : sent[j].key = s.local /\ sent[j].n = n

(* The responder draws a new key before it seals anything.                 *)
PreKeySealsNothing == \A c \in Chains(Responder) : c[1] # <<Responder, 0>>

SentInOrder ==
  /\ \A p \in Party : InOrder(p, log[p]) /\ Continues(session[p], log[p])
  /\ PreKeySealsNothing

(* The number of a message in its peer's chains, and whether session s has *)
(* come past it.                                                           *)
Id(e) == <<e.key, e.n>>

Past(s, id) ==
  \/ id[1][2] < s.remote[2]
  \/ id[1] = s.remote /\ id[2] < s.recvd

(* Of what was sent, session s is past what is done and what it put aside, *)
(* and it put aside all of its chain that it is past and that is not done. *)
KeepsCount(s, sent, done) ==
  /\ \A m \in done : Past(s, Id(sent[m]))
  /\ \A id \in DOMAIN s.skipped :
       Past(s, id) /\ \E m \in DOMAIN sent \ done : Id(sent[m]) = id /\ s.skipped[id] = sent[m].mk
  /\ \A m \in DOMAIN sent \ done :
       sent[m].key = s.remote /\ sent[m].n < s.recvd => Id(sent[m]) \in DOMAIN s.skipped
  /\ s.recvd > 0 => \E m \in DOMAIN sent : sent[m].key = s.remote /\ sent[m].n + 1 = s.recvd

(* The messages that end p opened.                                         *)
Done(p) == {m \in DOMAIN opened[p] : opened[p][m] > 0}

(* The receiving chain of p is the one its peer seals with under the key   *)
(* that p follows, which p knows from a message it opened or from the start*)
Follows(p) ==
  LET s == session[p]
      q == Peer(p)
  IN /\ s.recvCK = None => s.remote = <<Responder, 0>> /\ q = Responder
     /\ s.recvCK # None =>
          /\ s.recvCK.n = s.recvd
          /\ \A c \in Chains(q) : c[1] = s.remote => c[2] = s.recvCK.root
     /\ s.remote = <<q, 0>> \/ \E m \in Done(p) : log[q][m].key = s.remote

(* End q took the last ratchet step, and its peer has followed it, or has  *)
(* not: then it knows the chain before the one that q is on.               *)
Leads(q) ==
  LET s == session[q]
      t == session[Peer(q)]
  IN /\ s.sendCK # None /\ s.remote = t.local
     /\ \/ t.sendCK = None /\ t.root = s.root /\ t.remote = s.local
        \/ /\ t.sendCK # None
           /\ s.root = DeriveRootKey(t.root, DiffieHellman(s.local, s.remote))
           /\ s.sendCK.root = s.root
           /\ t.remote[2] < s.local[2]
           /\ \A i \in DOMAIN log[q] : log[q][i].key # s.local => log[q][i].key[2] <= t.remote[2]

Quiet == \A p \in Party : rejected[p] = {}

Understanding ==
  Quiet => /\ \A p \in Party : KeepsCount(session[p], log[Peer(p)], Done(p)) /\ Follows(p)
           /\ \E q \in Party : Leads(q)

(* Messages are told apart by their numbers in their chains.               *)
LEMMA IdsAreDistinct ==
  ASSUME NEW q, NEW sent, InOrder(q, sent), DOMAIN sent \subseteq Nat,
         NEW i \in DOMAIN sent, NEW j \in DOMAIN sent, Id(sent[i]) = Id(sent[j]),
         \A k \in DOMAIN sent : sent[k].n \in Nat
  PROVE  i = j
<1>1. sent[i].key = sent[j].key /\ sent[i].n = sent[j].n /\ sent[i].key[2] \in Nat
  BY DEF Id, InOrder
<1>2. ~(i < j)
  BY <1>1 DEF InOrder
<1>3. ~(j < i)
  BY <1>1 DEF InOrder
<1> QED  BY <1>2, <1>3

(* One more message is ahead of every session.                             *)
LEMMA MoreKeepsCount ==
  ASSUME NEW q, NEW s, s.recvd \in Nat, NEW sent, NEW done \in SUBSET DOMAIN sent, KeepsCount(s, sent, done),
         NEW more, NEW k \in Nat, NEW e \in Envelope, InOrder(q, more),
         DOMAIN sent = 1 .. k - 1, DOMAIN more = 1 .. k,
         more[k] = e, \A i \in DOMAIN sent : more[i] = sent[i] /\ sent[i].n \in Nat
  PROVE  KeepsCount(s, more, done)
<1>1. \A i \in DOMAIN sent : more[i] = sent[i] /\ i \in DOMAIN more /\ i < k
  OBVIOUS
<1>2. ASSUME e.key = s.remote, e.n < s.recvd PROVE FALSE
  <2>1. s.recvd > 0 /\ e.n \in Nat
    BY <1>2 DEF Envelope
  <2>2. PICK m \in DOMAIN sent : sent[m].key = s.remote /\ sent[m].n + 1 = s.recvd
    BY <2>1 DEF KeepsCount
  <2>3. more[m].key = more[k].key /\ more[m].key[2] \in Nat /\ k \in DOMAIN more
    BY <1>1, <1>2, <2>2 DEF InOrder
  <2>4. sent[m].n < e.n
    BY <1>1, <2>3 DEF InOrder
  <2> QED  BY <1>1, <1>2, <2>1, <2>2, <2>4
<1>3. \A m \in done : Past(s, Id(more[m]))
  BY <1>1 DEF KeepsCount
<1>4. ASSUME NEW id \in DOMAIN s.skipped
      PROVE  Past(s, id) /\ \E m \in DOMAIN more \ done :
                               Id(more[m]) = id /\ s.skipped[id] = more[m].mk
  <2>1. PICK m \in DOMAIN sent \ done : Id(sent[m]) = id /\ s.skipped[id] = sent[m].mk
    BY <1>4 DEF KeepsCount
  <2>2. Past(s, id)
    BY <1>4 DEF KeepsCount
  <2> QED  BY <1>1, <2>1, <2>2
<1>5. ASSUME NEW m \in DOMAIN more \ done, more[m].key = s.remote, more[m].n < s.recvd
      PROVE  Id(more[m]) \in DOMAIN s.skipped
  <2>1. m \in DOMAIN sent
    BY <1>2, <1>5
  <2>2. more[m] = sent[m]
    BY <1>1, <2>1
  <2> QED  BY <1>5, <2>1, <2>2 DEF KeepsCount
<1>6. s.recvd > 0 => \E m \in DOMAIN more : more[m].key = s.remote /\ more[m].n + 1 = s.recvd
  BY <1>1 DEF KeepsCount
<1> QED  BY <1>3, <1>4, <1>5, <1>6 DEF KeepsCount

(* What session t, which opened message m, passed it put aside.            *)
LEMMA OpeningKeepsCount ==
  ASSUME NEW q, NEW s, IsSession(s), NEW t, IsSession(t),
         NEW sent, InOrder(q, sent), DOMAIN sent \subseteq Nat,
         \A i \in DOMAIN sent : sent[i] \in Envelope,
         s.remote \in {q} \X Nat,
         NEW done \in SUBSET DOMAIN sent, KeepsCount(s, sent, done),
         NEW m \in DOMAIN sent \ done,
         OpenedAside(s, t, sent[m]) \/ OpenedInChain(s, t, sent[m]),
         t.remote # s.remote => s.remote[2] < t.remote[2]
  PROVE  KeepsCount(t, sent, done \cup {m})
<1> DEFINE e    == sent[m]
           D    == DOMAIN s.skipped
           from == IF s.remote = e.key THEN s.recvd ELSE 0
           P    == {e.key} \X (from .. e.n - 1)
<1>1. /\ \A i \in DOMAIN sent : /\ sent[i].n \in Nat /\ sent[i].mk \in ChainKey
                                /\ sent[i].key \in {q} \X Nat /\ sent[i].key[2] \in Nat
                                /\ sent[i].mk.n = sent[i].n
      /\ s.recvd \in Nat /\ t.recvd \in Nat /\ s.remote[2] \in Nat
  BY DEF Envelope, IsSession, InOrder
<1>2. \A i, j \in DOMAIN sent : Id(sent[i]) = Id(sent[j]) => i = j
  BY <1>1, IdsAreDistinct
<1>3. CASE OpenedAside(s, t, e)
  <2>1. /\ t.remote = s.remote /\ t.recvd = s.recvd /\ Id(e) \in D
        /\ DOMAIN t.skipped = D \ {Id(e)}
        /\ \A id \in DOMAIN t.skipped : t.skipped[id] = s.skipped[id]
    BY <1>3 DEF OpenedAside, Id
  <2>2. \A id : Past(t, id) <=> Past(s, id)
    BY <2>1 DEF Past
  <2> HIDE DEF D, e
  <2>3. \A i \in done \cup {m} : Past(t, Id(sent[i]))
    BY <2>1, <2>2 DEF KeepsCount, D, e
  <2>4. ASSUME NEW id \in DOMAIN t.skipped
        PROVE  Past(t, id) /\ \E i \in DOMAIN sent \ (done \cup {m}) :
                                 Id(sent[i]) = id /\ t.skipped[id] = sent[i].mk
    <3>1. id \in D /\ id # Id(e)
      BY <2>1, <2>4
    <3>2. PICK i \in DOMAIN sent \ done : Id(sent[i]) = id /\ s.skipped[id] = sent[i].mk
      BY <3>1 DEF KeepsCount, D
    <3>3. i # m /\ Past(s, id)
      BY <3>1, <3>2 DEF KeepsCount, D, e
    <3> QED  BY <2>1, <2>2, <2>4, <3>2, <3>3
  <2>5. ASSUME NEW i \in DOMAIN sent \ (done \cup {m}), sent[i].key = t.remote, sent[i].n < t.recvd
        PROVE  Id(sent[i]) \in DOMAIN t.skipped
    <3>1. Id(sent[i]) \in D
      BY <2>1, <2>5 DEF KeepsCount, D
    <3>2. Id(sent[i]) # Id(e)
      BY <1>2, <2>5 DEF e
    <3> QED  BY <2>1, <3>1, <3>2
  <2>6. t.recvd > 0 => \E i \in DOMAIN sent : sent[i].key = t.remote /\ sent[i].n + 1 = t.recvd
    BY <2>1 DEF KeepsCount
  <2> QED  BY <2>3, <2>4, <2>5, <2>6 DEF KeepsCount
<1>4. CASE OpenedInChain(s, t, e)
  <2>1. /\ from <= e.n /\ t.remote = e.key /\ t.recvd = e.n + 1
        /\ DOMAIN t.skipped = D \cup P
        /\ \A id \in P : t.skipped[id].root = e.mk.root /\ t.skipped[id].n = id[2]
        /\ \A id \in D \ P : t.skipped[id] = s.skipped[id]
    BY <1>4 DEF OpenedInChain
  <2>2. from \in Nat /\ e.n \in Nat /\ e.key \in {q} \X Nat /\ e.key[2] \in Nat
    BY <1>1
  <2>3. \/ s.remote = e.key /\ from = s.recvd
        \/ s.remote[2] < e.key[2]
    BY <2>1
  <2>4. ASSUME NEW id, id[1] = e.key, id[2] \in Nat, from <= id[2] PROVE ~Past(s, id)
    <3>1. CASE s.remote = e.key /\ from = s.recvd
      BY <1>1, <2>2, <2>4, <3>1 DEF Past
    <3>2. CASE s.remote[2] < e.key[2]
      BY <1>1, <2>2, <2>4, <3>2 DEF Past
    <3> QED  BY <2>3, <3>1, <3>2
  <2> HIDE DEF e, from, D
  <2>5. ASSUME NEW i \in DOMAIN sent, Past(s, Id(sent[i])) PROVE Past(t, Id(sent[i]))
    <3>1. Id(sent[i])[1] = sent[i].key /\ Id(sent[i])[2] = sent[i].n
      BY DEF Id
    <3>2. CASE sent[i].key[2] < s.remote[2]
      BY <1>1, <2>1, <2>2, <2>3, <3>1, <3>2 DEF Past
    <3>3. CASE sent[i].key = s.remote /\ sent[i].n < s.recvd
      BY <1>1, <2>1, <2>2, <2>3, <3>1, <3>3 DEF Past
    <3> QED  BY <2>5, <3>1, <3>2, <3>3 DEF Past
  <2>6. ~Past(s, Id(e)) /\ Past(t, Id(e))
    <3>1. Id(e)[1] = e.key /\ Id(e)[2] = e.n
      BY DEF Id
    <3> QED  BY <2>1, <2>2, <2>4, <3>1 DEF Past
  <2>7. \A i \in done \cup {m} : Past(t, Id(sent[i]))
    BY <2>5, <2>6 DEF KeepsCount, e
  <2>8. ASSUME NEW id \in P
        PROVE  Past(t, id) /\ \E i \in DOMAIN sent \ (done \cup {m}) :
                                 Id(sent[i]) = id /\ t.skipped[id] = sent[i].mk
    <3>1. id = <<e.key, id[2]>> /\ id[1] = e.key /\ id[2] \in Nat /\ from <= id[2] /\ id[2] < e.n
          /\ id[2] \in 0 .. e.n - 1
      BY <2>2
    <3>2. PICK i \in DOMAIN sent : sent[i].key = e.key /\ sent[i].n = id[2]
      BY <3>1 DEF InOrder, e
    <3>3. Id(sent[i]) = id
      BY <3>1, <3>2 DEF Id
    <3>4. i \notin done /\ i # m
      BY <2>4, <3>1, <3>2, <3>3 DEF KeepsCount, e
    <3>5. sent[i].mk.root = e.mk.root /\ sent[i].mk.n = id[2]
      BY <1>1, <3>2 DEF InOrder, e
    <3>6. t.skipped[id] \in ChainKey
      BY <2>1 DEF IsSession
    <3>7. t.skipped[id] = sent[i].mk
      BY <1>1, <2>1, <3>5, <3>6 DEF ChainKey
    <3>8. Past(t, id)
      BY <2>1, <2>2, <3>1 DEF Past
    <3> QED  BY <3>3, <3>4, <3>7, <3>8
  <2>9. ASSUME NEW id \in D \ P
        PROVE  Past(t, id) /\ \E i \in DOMAIN sent \ (done \cup {m}) :
                                 Id(sent[i]) = id /\ t.skipped[id] = sent[i].mk
    <3>1. PICK i \in DOMAIN sent \ done : Id(sent[i]) = id /\ s.skipped[id] = sent[i].mk
      BY <2>9 DEF KeepsCount, D
    <3>2. Past(s, id)
      BY <2>9 DEF KeepsCount, D
    <3>3. i # m
      BY <2>6, <3>1, <3>2 DEF e
    <3> QED  BY <2>1, <2>5, <2>9, <3>1, <3>2, <3>3
  <2>10. ASSUME NEW i \in DOMAIN sent \ (done \cup {m}), sent[i].key = t.remote, sent[i].n < t.recvd
         PROVE  Id(sent[i]) \in DOMAIN t.skipped
    <3>1. sent[i].key = e.key /\ sent[i].n \in Nat /\ sent[i].n < e.n + 1
      BY <1>1, <2>1, <2>10
    <3>2. sent[i].n # e.n
      BY <1>2, <2>10, <3>1 DEF Id, e
    <3>3. CASE from <= sent[i].n
      <4>1. sent[i].n \in from .. e.n - 1
        BY <2>2, <3>1, <3>2, <3>3
      <4> QED  BY <2>1, <3>1, <4>1 DEF Id
    <3>4. CASE ~(from <= sent[i].n)
      <4>1. s.remote = e.key /\ sent[i].n < s.recvd
        BY <1>1, <2>2, <3>1, <3>4 DEF from
      <4>2. Id(sent[i]) \in D
        BY <2>10, <3>1, <4>1 DEF KeepsCount, D
      <4> QED  BY <2>1, <4>2
    <3> QED  BY <3>3, <3>4
  <2>11. \E i \in DOMAIN sent : sent[i].key = t.remote /\ sent[i].n + 1 = t.recvd
    BY <2>1 DEF e
  <2> QED  BY <2>1, <2>7, <2>8, <2>9, <2>10, <2>11 DEF KeepsCount
<1> QED  BY <1>3, <1>4

(* A message that is not done, of the chain that s is on, of the next one  *)
(* or put aside, opens if what s was sent before it and has not opened fits*)
(* the window: s puts aside only such messages.                            *)
LEMMA CountedOpens ==
  ASSUME NEW q, NEW s, IsSession(s), Restorable(s), s.recvCK # None => s.recvCK.n = s.recvd,
         s.remote \in {q} \X Nat,
         NEW sent, InOrder(q, sent), NEW l \in Nat, DOMAIN sent = 1 .. l,
         \A i \in DOMAIN sent : sent[i] \in Envelope /\ sent[i].pn = 0,
         NEW done \in SUBSET DOMAIN sent, KeepsCount(s, sent, done),
         NEW m \in DOMAIN sent \ done,
         Cardinality((1 .. m - 1) \ done) <= MaxSkipped,
         \/ Id(sent[m]) \in DOMAIN s.skipped
         \/ /\ s.remote = sent[m].key
            /\ s.recvCK # None /\ s.recvCK.root = sent[m].mk.root
         \/ /\ s.remote[2] < sent[m].key[2]
            /\ sent[m].mk.root = DeriveRootKey(s.root, DiffieHellman(s.local, sent[m].key))
  PROVE  Decrypt(s, sent[m]).ok
<1> DEFINE e    == sent[m]
           D    == DOMAIN s.skipped
           from == IF s.remote = e.key THEN s.recvd ELSE 0
           P    == {e.key} \X (from .. e.n - 1)
           U    == (1 .. m - 1) \ done
<1>1. /\ \A i \in DOMAIN sent : /\ sent[i].n \in Nat /\ sent[i].mk \in ChainKey
                                /\ sent[i].key \in {q} \X Nat /\ sent[i].key[2] \in Nat
                                /\ sent[i].mk.n = sent[i].n
      /\ s.recvd \in Nat /\ s.remote[2] \in Nat /\ DOMAIN sent \subseteq Nat /\ m \in Nat
  BY DEF Envelope, IsSession, InOrder
<1>2. \A i, j \in DOMAIN sent : Id(sent[i]) = Id(sent[j]) => i = j
  BY <1>1, IdsAreDistinct
<1>3. e \in Envelope /\ e.pn = 0 /\ e.mk.n = e.n /\ e.n \in Nat
      /\ e.key \in {q} \X Nat /\ e.key[2] \in Nat
  BY <1>1
<1>4. CASE Id(e) \in D
  <2>1. PICK i \in DOMAIN sent \ done : Id(sent[i]) = Id(e) /\ s.skipped[Id(e)] = sent[i].mk
    BY <1>4 DEF KeepsCount
  <2>2. i = m
    BY <1>2, <2>1
  <2>3. s.skipped[<<e.key, e.n>>] = e.mk
    BY <2>1, <2>2 DEF Id
  <2> QED  BY <1>4, <2>3 DEF Decrypt, OpenWithSkipped, Id
<1>5. CASE Id(e) \notin D
  <2>1. \/ s.remote = e.key /\ s.recvCK # None /\ s.recvCK.root = e.mk.root
        \/ /\ s.remote[2] < e.key[2] /\ s.remote # e.key
           /\ e.mk.root = DeriveRootKey(s.root, DiffieHellman(s.local, e.key))
    BY <1>1, <1>3, <1>5
  <2>2. s.remote = e.key => s.recvd <= e.n
    <3> SUFFICES ASSUME s.remote = e.key, e.n < s.recvd PROVE FALSE
      BY <1>1, <1>3
    <3>1. Id(e) \in D
      BY DEF KeepsCount
    <3> QED  BY <1>5, <3>1
  <2>3. from \in Nat /\ from <= e.n /\ (s.remote = e.key => from = s.recvd)
        /\ (s.remote # e.key => from = 0)
    BY <1>1, <1>3, <2>2
  <2> HIDE DEF e, from, D
  <2>4. ASSUME NEW i \in DOMAIN sent,
               \/ sent[i].key[2] < e.key[2]
               \/ sent[i].key = e.key /\ sent[i].n < e.n
        PROVE  i < m
    <3>1. i # m /\ ~(m < i)
      BY <1>1, <1>3, <2>4 DEF InOrder, e
    <3> QED  BY <1>1, <3>1
  <2>5. ASSUME NEW id \in D
        PROVE  /\ \E i \in U : Id(sent[i]) = id
               /\ id \notin P
    <3>1. PICK i \in DOMAIN sent \ done : Id(sent[i]) = id
      BY <2>5 DEF KeepsCount, D
    <3>2. Past(s, id) /\ id[1] = sent[i].key /\ id[2] = sent[i].n
      BY <2>5, <3>1 DEF KeepsCount, D, Id
    <3>3. \/ sent[i].key[2] < e.key[2]
          \/ sent[i].key = e.key /\ sent[i].n < from
      BY <1>1, <1>3, <2>1, <2>3, <3>2 DEF Past
    <3>4. i < m
      BY <1>1, <1>3, <2>3, <2>4, <3>3
    <3>5. i \in U
      BY <1>1, <3>1, <3>4
    <3>6. id \notin P
      BY <1>1, <1>3, <2>3, <3>2, <3>3
    <3> QED  BY <3>1, <3>5, <3>6
  <2>6. ASSUME NEW id \in P PROVE \E i \in U : Id(sent[i]) = id
    <3>1. id = <<e.key, id[2]>> /\ id[2] \in Nat /\ from <= id[2] /\ id[2] < e.n
          /\ id[2] \in 0 .. e.n - 1
      BY <1>3, <2>3
    <3>2. PICK i \in DOMAIN sent : sent[i].key = e.key /\ sent[i].n = id[2]
      BY <3>1 DEF InOrder, e
    <3>3. Id(sent[i]) = id /\ i < m
      BY <2>4, <3>1, <3>2 DEF Id
    <3>4. i \notin done
      <4> SUFFICES ASSUME i \in done PROVE FALSE
        OBVIOUS
      <4>1. Past(s, Id(sent[i]))
        BY DEF KeepsCount
      <4>2. \/ e.key[2] < s.remote[2]
            \/ e.key = s.remote /\ id[2] < s.recvd
        BY <3>1, <3>3, <4>1 DEF Past
      <4> QED  BY <1>1, <1>3, <2>1, <2>3, <3>1, <4>2
    <3> QED  BY <1>1, <3>3, <3>4
  <2>7. IsFiniteSet(D) /\ IsFiniteSet(P) /\ IsFiniteSet(U)
        /\ Cardinality(P) = e.n - from /\ Cardinality(D) \in Nat
    <3>0. IsFiniteSet(D)
      BY DEF IsSession, D
    <3>1. IsFiniteSet(1 .. m - 1)
      <4>1. 1 \in Int /\ m - 1 \in Int
        BY <1>1
      <4> QED  BY <4>1, FS_Interval
    <3>2. IsFiniteSet(U)
      BY <3>1, FS_Subset
    <3>3. from \in Int /\ e.n - 1 \in Int
      BY <1>3, <2>3
    <3>4. IsFiniteSet(from .. e.n - 1)
          /\ Cardinality(from .. e.n - 1) = IF from > e.n - 1 THEN 0 ELSE (e.n - 1) - from + 1
      BY <3>3, FS_Interval
    <3>5. Cardinality(from .. e.n - 1) = e.n - from
      BY <1>3, <2>3, <3>4
    <3>6. IsFiniteSet({e.key}) /\ Cardinality({e.key}) = 1
      BY FS_Singleton
    <3> DEFINE N == from .. e.n - 1
               c == e.n - from
    <3> HIDE DEF N
    <3>7. IsFiniteSet(N) /\ Cardinality(N) = c
      BY <3>4, <3>5 DEF N
    <3>8. IsFiniteSet({e.key} \X N) /\ Cardinality({e.key} \X N) = Cardinality({e.key}) * Cardinality(N)
      BY <3>6, <3>7, FS_Product
    <3>9. IsFiniteSet(P) /\ Cardinality(P) = c
      BY <1>3, <2>3, <3>6, <3>7, <3>8 DEF N
    <3> QED  BY <3>0, <3>2, <3>9, FS_CardinalityType
  <2>8. IsFiniteSet(D \cup P) /\ Cardinality(D \cup P) = Cardinality(D) + (e.n - from)
    <3>1. D \cap P = {}
      BY <2>5
    <3>2. Cardinality(D \cap P) = 0
      BY <3>1, FS_EmptySet
    <3>3. IsFiniteSet(D \cup P)
          /\ Cardinality(D \cup P) = Cardinality(D) + Cardinality(P) - Cardinality(D \cap P)
      BY <2>7, FS_Union
    <3> QED  BY <1>3, <2>3, <2>7, <3>2, <3>3
  <2>9. Cardinality(D \cup P) <= MaxSkipped
    <3> DEFINE V == {i \in U : Id(sent[i]) \in D \cup P}
               f == [i \in V |-> Id(sent[i])]
    <3>1. IsFiniteSet(V) /\ Cardinality(V) <= Cardinality(U)
      BY <2>7, FS_Subset
    <3>2. f \in Surjection(V, D \cup P)
      <4>1. f \in [V -> D \cup P]
        OBVIOUS
      <4>2. \A id \in D \cup P : \E i \in V : f[i] = id
        BY <2>5, <2>6
      <4> QED  BY <4>1, <4>2 DEF Surjection
    <3>3. Cardinality(D \cup P) <= Cardinality(V)
      BY <3>1, <3>2, FS_Surjection
    <3>4. /\ Cardinality(D \cup P) \in Nat /\ Cardinality(V) \in Nat /\ Cardinality(U) \in Nat
      BY <2>7, <2>8, <3>1, FS_CardinalityType
    <3> QED  BY <3>1, <3>3, <3>4, MaxSkippedAssumption
  <2>10. Cardinality(D) + (e.n - from) <= MaxSkipped
    BY <2>8, <2>9
  <2>11. <<e.key, e.n>> \notin DOMAIN s.skipped
    BY <1>5 DEF Id, D
  <2>12. Decrypt(s, e).ok
    <3>1. CASE s.remote = e.key
      BY <1>3, <2>1, <2>3, <2>10, <2>11, <3>1, DecryptOpens DEF D
    <3>2. CASE s.remote # e.key
      BY <1>3, <2>1, <2>3, <2>10, <2>11, <3>2, DecryptOpens DEF D
    <3> QED  BY <3>1, <3>2
  <2> QED  BY <2>12 DEF e
<1> QED  BY <1>4, <1>5

(* encrypt by p leaves session u and sends e: on the chain that s had, or  *)
(* on one that starts with a new key.                                      *)
Sends(p, u, e) ==
  LET s == session[p]
      q == Peer(p)
  IN /\ IsSession(u) /\ e \in Envelope
     /\ session'[p] = u /\ session'[q] = session[q]
     /\ log[p] \in Seq(Envelope) /\ log'[p] = Append(log[p], e) /\ log'[q] = log[q]
     /\ u.local = e.key /\ u.sent = e.n + 1 /\ e.mk.n = e.n
     /\ u.sendCK # None /\ u.sendCK.root = e.mk.root
     /\ u.remote = s.remote /\ u.recvCK = s.recvCK
     /\ u.recvd = s.recvd /\ u.skipped = s.skipped
     /\ \/ /\ s.sendCK # None /\ u.root = s.root /\ u.sendCK.root = s.sendCK.root
           /\ e.key = s.local /\ e.n = s.sent
        \/ /\ s.sendCK = None /\ u.root = DeriveRootKey(s.root, DiffieHellman(e.key, s.remote))
           /\ e.key = <<p, serial[p]>> /\ e.n = 0 /\ e.mk.root = u.root

LEMMA SendEffect ==
  ASSUME KeysAreFresh, NEW p \in Party, Send(p)
  PROVE  \E u, e : Sends(p, u, e)
<1> DEFINE s   == session[p]
           q   == Peer(p)
           key == <<p, serial[p]>>
           t   == EnsureSendingChain(s, key)
           u   == Encrypt(s, key).session
           e   == Encrypt(s, key).envelope
<1>1. /\ WellTyped /\ IsSession(s) /\ Restorable(s) /\ key \in RatchetKey
      /\ DOMAIN session = Party /\ log \in [Party -> Seq(Envelope)]
  BY DEF KeysAreFresh, WellTyped, TypeOK, AlwaysRestorable, RatchetKey
<1>2. q \in Party /\ q # p
  BY PeerFacts
<1>3. /\ IsSession(t) /\ t.remote = s.remote /\ t.sendCK # None
      /\ s.sendCK # None => t = s
      /\ s.sendCK = None =>
           /\ t.local = key /\ t.sent = 0
           /\ t.sendCK = FirstChainKey(DeriveRootKey(s.root, DiffieHellman(key, s.remote)))
  BY <1>1, EnsureSendingChainSound
<1>4. /\ IsSession(u) /\ e \in Envelope
      /\ e.key = t.local /\ e.n = t.sent /\ e.mk = t.sendCK
      /\ u.local = t.local /\ u.sent = t.sent + 1
      /\ u.sendCK = NextChainKey(t.sendCK) /\ u.sendCK # None
  BY <1>1, EncryptSound
<1>5. u.remote = s.remote /\ u.recvCK = s.recvCK /\ u.recvd = s.recvd /\ u.skipped = s.skipped
  BY <1>1, EncryptKeepsReceiving
<1>6. u.root = t.root
  <2>1. u = [t EXCEPT !.sendCK = NextChainKey(@), !.sent = @ + 1]
    BY DEF Encrypt
  <2> HIDE DEF t, u
  <2> QED  BY <1>3, <2>1 DEF IsSession
<1>7. s.sendCK = None => t.root = DeriveRootKey(s.root, DiffieHellman(key, s.remote))
  BY <1>1 DEF EnsureSendingChain, IsSession
<1>8. session' = [session EXCEPT ![p] = u] /\ log' = [log EXCEPT ![p] = Append(@, e)]
  BY DEF Send
<1> HIDE DEF t, u, e, s, q, key
<1>9. /\ session'[p] = u /\ session'[q] = session[q]
      /\ log'[p] = Append(log[p], e) /\ log'[q] = log[q] /\ log[p] \in Seq(Envelope)
  BY <1>1, <1>2, <1>8
<1>10. u.sendCK.root = t.sendCK.root
  <2>1. t.sendCK \in ChainKey
    BY <1>3 DEF IsSession
  <2> QED  BY <1>4, <2>1 DEF NextChainKey, Advanced, ChainKey
<1>11. e.mk.n = e.n
  <2>1. CASE s.sendCK # None
    BY <1>3, <1>4, <2>1 DEF KeysAreFresh, ChainsAreCounted, s
  <2>2. CASE s.sendCK = None
    BY <1>3, <1>4, <2>2 DEF FirstChainKey
  <2> QED  BY <2>1, <2>2
<1>12. \/ /\ s.sendCK # None /\ u.root = s.root
          /\ e.key = s.local /\ e.n = s.sent /\ u.sendCK.root = s.sendCK.root
       \/ /\ s.sendCK = None /\ u.root = DeriveRootKey(s.root, DiffieHellman(e.key, s.remote))
          /\ e.key = key /\ e.n = 0 /\ e.mk.root = u.root
  <2>1. CASE s.sendCK # None
    BY <1>3, <1>4, <1>6, <1>10, <2>1
  <2>2. CASE s.sendCK = None
    BY <1>3, <1>4, <1>6, <1>7, <2>2 DEF FirstChainKey
  <2> QED  BY <2>1, <2>2
<1>13. Sends(p, u, e)
  BY <1>4, <1>5, <1>9, <1>10, <1>11, <1>12 DEF Sends, s, q, key
<1> QED  BY <1>13

(* decrypt by p of message m leaves session t; if it does not refuse it, it *)
(* had not opened it before, and keeps its sending chain or follows to the *)
(* message's root.                                                         *)
Receives(p, m, t) ==
  LET s == session[p]
      q == Peer(p)
      e == log[q][m]
  IN /\ m \in DOMAIN log[q] /\ e \in Envelope /\ t = Decrypt(s, e).session
     /\ IsSession(t) /\ session'[p] = t /\ session'[q] = session[q]
     /\ UNCHANGED <<log, serial>>
     /\ KeepsSending(s, t) \/ ClosesSending(s, t, e.key)
     /\ rejected'[p] = {} =>
          /\ Decrypt(s, e).ok /\ rejected' = rejected
          /\ m \in DOMAIN opened[p] /\ opened[p][m] = 0 /\ opened' = [opened EXCEPT ![p][m] = 1]
          /\ \/ KeepsSending(s, t)
             \/ /\ ClosesSending(s, t, e.key) /\ t.root = e.mk.root
                /\ t.root = DeriveRootKey(s.root, DiffieHellman(s.local, e.key))

LEMMA ReceiveEffect ==
  ASSUME KeysAreFresh, KeysAreConsumed, NEW p \in Party, NEW i \in DOMAIN channel[p], Receive(p, i)
  PROVE  \E t : Receives(p, channel[p][i], t)
<1> DEFINE m    == channel[p][i]
           q    == Peer(p)
           e    == log[q][m]
           s    == session[p]
           step == Decrypt(s, e)
           t    == step.session
<1>0. WellTyped /\ q \in Party /\ q # p
  BY PeerFacts DEF KeysAreFresh
<1>1. m \in DOMAIN log[q] /\ e \in Envelope /\ m \in DOMAIN opened[p]
  <2>1. log[q] \in Seq(Envelope)
    BY <1>0 DEF WellTyped, TypeOK
  <2> QED  BY <1>0, <2>1, ReceivedEnvelope
<1>2. IsSession(s) /\ Restorable(s) /\ Receiving(s) /\ DOMAIN session = Party
  BY <1>0 DEF WellTyped, TypeOK, AlwaysRestorable, KeysAreConsumed
<1>3. /\ IsSession(t)
      /\ KeepsSending(s, t) \/ ClosesSending(s, t, e.key)
      /\ step.ok => \/ KeepsSending(s, t)
                    \/ /\ ClosesSending(s, t, e.key) /\ t.root = e.mk.root
                       /\ t.root = DeriveRootKey(s.root, DiffieHellman(s.local, e.key))
  BY <1>1, <1>2, DecryptSound, DecryptForgets
<1>4. /\ session' = [session EXCEPT ![p] = t] /\ UNCHANGED <<log, serial>>
      /\ rejected' = IF step.ok THEN rejected ELSE [rejected EXCEPT ![p] = @ \cup {m}]
      /\ step.ok => opened' = [opened EXCEPT ![p][m] = @ + 1]
  BY DEF Receive
<1>5. step.ok => opened[p][m] = 0
  BY <1>0, OpensOnce
<1> HIDE DEF step, t, e, s, m, q
<1>6. session'[p] = t /\ session'[q] = session[q]
  BY <1>0, <1>2, <1>4
<1>7. rejected'[p] = {} => step.ok
  BY <1>0, <1>4 DEF WellTyped, TypeOK
<1>8. step.ok => opened' = [opened EXCEPT ![p][m] = 1]
  BY <1>4, <1>5
<1>9. Receives(p, m, t)
  BY <1>1, <1>3, <1>4, <1>5, <1>6, <1>7, <1>8 DEF Receives, step, t, e, s, q
<1> QED  BY <1>9 DEF m

(* One more message, of the chain that the last ones are of or of a new.   *)
LEMMA MoreInOrder ==
  ASSUME NEW q, NEW sent \in Seq(Envelope), InOrder(q, sent),
         NEW e \in Envelope, e.key \in {q} \X Nat, e.mk.n = e.n,
         \A i \in DOMAIN sent : /\ sent[i].key[2] <= e.key[2]
                                /\ sent[i].key = e.key => sent[i].n < e.n /\ sent[i].mk.root = e.mk.root,
         \A n \in 0 .. e.n - 1 : \E j \in DOMAIN sent : sent[j].key = e.key /\ sent[j].n = n
  PROVE  InOrder(q, Append(sent, e))
<1> DEFINE more == Append(sent, e)
           k    == Len(sent) + 1
<1>1. /\ DOMAIN more = 1 .. k /\ DOMAIN sent = 1 .. k - 1 /\ k \in Nat
      /\ more[k] = e /\ \A i \in DOMAIN sent : more[i] = sent[i] /\ i \in DOMAIN more /\ i < k
      /\ \A i \in DOMAIN more : i \in DOMAIN sent \/ i = k
  OBVIOUS
<1> HIDE DEF more, k
<1>2. ASSUME NEW i \in DOMAIN more PROVE more[i].key \in {q} \X Nat /\ more[i].mk.n = more[i].n
  <2>1. CASE i \in DOMAIN sent
    BY <1>1, <2>1 DEF InOrder
  <2> QED  BY <1>1, <2>1
<1>3. ASSUME NEW i \in DOMAIN more, NEW j \in DOMAIN more, i < j
      PROVE  \/ more[i].key[2] < more[j].key[2]
             \/ more[i].key = more[j].key /\ more[i].n < more[j].n
  <2>1. i \in DOMAIN sent /\ i \in Nat /\ j \in Nat
    BY <1>1, <1>3
  <2>2. CASE j \in DOMAIN sent
    BY <1>1, <1>3, <2>1, <2>2 DEF InOrder
  <2>3. CASE j = k
    <3>1. sent[i].key \in {q} \X Nat
      BY <2>1 DEF InOrder
    <3>2. sent[i].key[2] < e.key[2] \/ sent[i].key = e.key
      BY <2>1, <3>1
    <3> QED  BY <1>1, <2>1, <2>3, <3>2
  <2> QED  BY <1>1, <2>2, <2>3
<1>4. ASSUME NEW i \in DOMAIN more, NEW n \in 0 .. more[i].n - 1
      PROVE  \E j \in DOMAIN more : more[j].key = more[i].key /\ more[j].n = n
  <2>1. \E j \in DOMAIN sent : sent[j].key = more[i].key /\ sent[j].n = n
    <3>1. CASE i \in DOMAIN sent
      BY <1>1, <1>4, <3>1 DEF InOrder
    <3> QED  BY <1>1, <1>4, <3>1
  <2> QED  BY <1>1, <2>1
<1>5. ASSUME NEW i \in DOMAIN more, NEW j \in DOMAIN more, more[i].key = more[j].key
      PROVE  more[i].mk.root = more[j].mk.root
  <2>1. CASE i \in DOMAIN sent /\ j \in DOMAIN sent
    BY <1>1, <1>5, <2>1 DEF InOrder
  <2>2. CASE i = k \/ j = k
    BY <1>1, <1>5, <2>2
  <2> QED  BY <1>1, <2>1, <2>2
<1> QED  BY <1>2, <1>3, <1>4, <1>5 DEF InOrder, more

LEMMA InitSentInOrder == Init => SentInOrder
<1> SUFFICES ASSUME Init PROVE SentInOrder
  OBVIOUS
<1>1. \A p \in Party : log[p] = <<>> /\ session[p].sent = 0
  BY DEF Init, BootstrapInitiator, BootstrapResponder
<1>2. \A p \in Party : InOrder(p, log[p]) /\ Continues(session[p], log[p])
  BY <1>1 DEF InOrder, Continues
<1>3. Responder \in Party /\ session[Responder].sendCK = None
  BY PartyAssumption DEF Init, BootstrapResponder
<1>4. Chains(Responder) = {}
  BY <1>1, <1>3 DEF Chains
<1> QED  BY <1>2, <1>4 DEF SentInOrder, PreKeySealsNothing

LEMMA SendSentInOrder ==
  ASSUME KeysAreFresh, SentInOrder, NEW p \in Party, Send(p)
  PROVE  SentInOrder'
<1> DEFINE s == session[p]
           q == Peer(p)
<1>0. PICK u, e : Sends(p, u, e)
  BY SendEffect
<1>1. /\ IsSession(u) /\ e \in Envelope
      /\ session'[p] = u /\ session'[q] = session[q]
      /\ log[p] \in Seq(Envelope) /\ log'[p] = Append(log[p], e) /\ log'[q] = log[q]
      /\ u.local = e.key /\ u.sent = e.n + 1 /\ e.mk.n = e.n
      /\ u.sendCK # None /\ u.sendCK.root = e.mk.root
      /\ \/ /\ s.sendCK # None /\ e.key = s.local /\ e.n = s.sent /\ e.mk.root = s.sendCK.root
         \/ s.sendCK = None /\ e.key = <<p, serial[p]>> /\ e.n = 0
  BY <1>0 DEF Sends
<1>2. q \in Party /\ q # p /\ \A r \in Party : r = p \/ r = q
  BY PeerFacts
<1>3. /\ serial[p] \in Nat /\ IsSession(s)
      /\ s.local \in Generated(p)
      /\ \A i \in DOMAIN log[p] : log[p][i].key \in Generated(p)
  <2>1. \A i \in DOMAIN log[p] : <<log[p][i].key, log[p][i].mk.root>> \in Chains(p)
    BY DEF Chains
  <2> QED  BY <2>1 DEF KeysAreFresh, WellTyped, TypeOK, KeysWereGenerated, ChainsArePaired
<1>4. \A key \in Generated(p) : key \in {p} \X Nat /\ key[2] \in Nat /\ key[2] < serial[p]
  BY <1>3 DEF Generated
<1>5. e.n \in Nat /\ e.key \in {p} \X Nat
  BY <1>1, <1>3, <1>4 DEF Envelope
<1>6. ASSUME NEW i \in DOMAIN log[p]
      PROVE  /\ log[p][i].key[2] <= e.key[2]
             /\ log[p][i].key = e.key => log[p][i].n < e.n /\ log[p][i].mk.root = e.mk.root
  <2>1. CASE s.sendCK # None
    <3>1. log[p][i].key[2] <= s.local[2]
      BY DEF SentInOrder, Continues
    <3>2. log[p][i].key = s.local => log[p][i].mk.root = s.sendCK.root
      BY <2>1 DEF SentInOrder, Continues
    <3>3. log[p][i].key = s.local => log[p][i].n < s.sent
      BY <2>1 DEF KeysAreFresh, ChainsAreCounted
    <3> QED  BY <1>1, <2>1, <3>1, <3>2, <3>3
  <2>2. CASE s.sendCK = None
    <3>1. e.key[2] = serial[p] /\ log[p][i].key[2] \in Nat /\ log[p][i].key[2] < serial[p]
      BY <1>1, <1>3, <1>4, <2>2
    <3> QED  BY <1>3, <3>1
  <2> QED  BY <2>1, <2>2
<1>7. \A n \in 0 .. e.n - 1 : \E j \in DOMAIN log[p] : log[p][j].key = e.key /\ log[p][j].n = n
  <2>1. CASE s.sendCK # None
    BY <1>1, <2>1 DEF SentInOrder, Continues
  <2>2. CASE s.sendCK = None
    BY <1>1, <2>2
  <2> QED  BY <2>1, <2>2
<1>8. InOrder(p, log'[p])
  <2>1. InOrder(p, log[p])
    BY DEF SentInOrder
  <2> QED  BY <1>1, <1>5, <1>6, <1>7, <2>1, MoreInOrder
<1> DEFINE more == log'[p]
           k    == Len(log[p]) + 1
<1>9. /\ more[k] = e /\ k \in DOMAIN more
      /\ \A i \in DOMAIN log[p] : more[i] = log[p][i] /\ i \in DOMAIN more
      /\ \A i \in DOMAIN more : i \in DOMAIN log[p] \/ i = k
  BY <1>1
<1> HIDE DEF more, k, s
<1>10. Continues(u, more)
  <2>1. ASSUME NEW i \in DOMAIN more
        PROVE  more[i].key[2] <= u.local[2] /\ (more[i].key = u.local => more[i].mk.root = u.sendCK.root)
    <3>1. e.key[2] \in Nat
      BY <1>5
    <3>2. CASE i \in DOMAIN log[p]
      BY <1>1, <1>6, <1>9, <3>2
    <3>3. CASE i = k
      BY <1>1, <1>9, <3>1, <3>3
    <3> QED  BY <1>9, <3>2, <3>3
  <2>2. ASSUME NEW n \in 0 .. u.sent - 1
        PROVE  \E j \in DOMAIN more : more[j].key = u.local /\ more[j].n = n
    <3>1. CASE n = e.n
      BY <1>1, <1>9, <3>1
    <3>2. CASE n # e.n
      <4>1. n \in 0 .. e.n - 1
        BY <1>1, <1>5, <3>2
      <4> QED  BY <1>1, <1>7, <1>9, <4>1
    <3> QED  BY <3>1, <3>2
  <2> QED  BY <2>1, <2>2 DEF Continues
<1>11. InOrder(q, log'[q]) /\ Continues(session'[q], log'[q])
  BY <1>1, <1>2 DEF SentInOrder
<1>12. PreKeySealsNothing'
  <2> SUFFICES ASSUME NEW c \in Chains(Responder)' PROVE c[1] # <<Responder, 0>>
    BY DEF PreKeySealsNothing
  <2>0. Responder \in Party
    BY PartyAssumption
  <2>1. CASE Responder = q
    <3>1. Chains(Responder)' = Chains(Responder)
      BY <1>1, <2>1 DEF Chains
    <3> QED  BY <3>1 DEF SentInOrder, PreKeySealsNothing
  <2>2. CASE Responder = p
    <3>1. c \in Chains(p) \/ c[1] = e.key
      <4>1. CASE \E i \in DOMAIN more : c = <<more[i].key, more[i].mk.root>>
        <5>1. PICK i \in DOMAIN more : c = <<more[i].key, more[i].mk.root>>
          BY <4>1
        <5> QED  BY <1>9, <5>1 DEF Chains
      <4>2. CASE c = <<u.local, u.sendCK.root>>
        BY <1>1, <4>2
      <4> QED  BY <1>1, <2>2, <4>1, <4>2 DEF Chains, more
    <3>2. e.key # <<Responder, 0>>
      <4>1. CASE s.sendCK # None
        <5>1. <<s.local, s.sendCK.root>> \in Chains(p)
          BY <4>1 DEF Chains, s
        <5> QED  BY <1>1, <2>2, <4>1, <5>1 DEF SentInOrder, PreKeySealsNothing
      <4>2. CASE s.sendCK = None
        <5>1. serial[p] > 0
          BY <1>3 DEF Generated
        <5> QED  BY <1>1, <1>3, <4>2, <5>1
      <4> QED  BY <4>1, <4>2
    <3> QED  BY <2>2, <3>1, <3>2 DEF SentInOrder, PreKeySealsNothing
  <2> QED  BY <1>2, <2>0, <2>1, <2>2
<1> QED  BY <1>1, <1>2, <1>8, <1>10, <1>11, <1>12 DEF SentInOrder, more

LEMMA ReceiveSentInOrder ==
  ASSUME KeysAreFresh, KeysAreConsumed, SentInOrder,
         NEW p \in Party, NEW i \in DOMAIN channel[p], Receive(p, i)
  PROVE  SentInOrder'
<1> DEFINE s == session[p]
           q == Peer(p)
           m == channel[p][i]
<1>0. PICK t : Receives(p, m, t)
  BY ReceiveEffect
<1>1. /\ session'[p] = t /\ session'[q] = session[q] /\ UNCHANGED log
      /\ KeepsSending(s, t) \/ ClosesSending(s, t, log[q][m].key)
  BY <1>0 DEF Receives
<1>2. q \in Party /\ q # p /\ \A r \in Party : r = p \/ r = q
  BY PeerFacts
<1>3. t.local = s.local /\ (t.sendCK # None => t.sendCK = s.sendCK /\ t.sent = s.sent)
  BY <1>1 DEF KeepsSending, ClosesSending
<1>4. Continues(t, log[p])
  BY <1>3 DEF SentInOrder, Continues
<1>5. \A x \in Party : Chains(x)' \subseteq Chains(x)
  BY <1>1, <1>2, <1>3 DEF Chains
<1>6. PreKeySealsNothing'
  BY <1>5, PartyAssumption DEF SentInOrder, PreKeySealsNothing
<1> QED  BY <1>1, <1>2, <1>4, <1>6 DEF SentInOrder

LEMMA NextSentInOrder == KeysAreFresh /\ KeysAreConsumed /\ SentInOrder /\ [Next]_vars => SentInOrder'
<1> SUFFICES ASSUME KeysAreFresh, KeysAreConsumed, SentInOrder, [Next]_vars PROVE SentInOrder'
  OBVIOUS
<1>1. CASE UNCHANGED <<session, log>>
  BY <1>1 DEF SentInOrder, PreKeySealsNothing, Chains
<1> QED  BY <1>1, SendSentInOrder, ReceiveSentInOrder DEF Next, Lose, Duplicate, vars

(* What the two ends hold in common at the start.                          *)
LEMMA InitUnderstanding == Init => Understanding
<1> SUFFICES ASSUME Init PROVE Understanding
  OBVIOUS
<1> DEFINE a == <<Initiator, 0>>
           b == <<Responder, 0>>
           i == session[Initiator]
           r == session[Responder]
           root == BootstrapRoot(a, b)
<1>1. /\ Initiator \in Party /\ Responder \in Party /\ Party = {Initiator, Responder}
      /\ Peer(Initiator) = Responder /\ Peer(Responder) = Initiator
      /\ Initiator # Responder /\ a \in RatchetKey /\ b \in RatchetKey
  BY PartyAssumption, PeerFacts DEF RatchetKey
<1>2. i = BootstrapInitiator(a, b) /\ r = BootstrapResponder(b, a)
  BY <1>1 DEF Init
<1>3. BootstrapRoot(b, a) = root
  BY DEF BootstrapRoot, DiffieHellman
<1>4. FirstChainKey(root) # None /\ FirstChainKey(root).n = 0 /\ FirstChainKey(root).root = root
  <2>1. <<>> \in RootKey
    BY DEF RootKey
  <2>2. root \in RootKey
    BY <1>1, <2>1, DeriveRootKeyType DEF BootstrapRoot
  <2> QED  BY <2>2, ChainKeyType, NoneAssumption DEF FirstChainKey
<1> HIDE DEF root
<1>5. /\ i.local = a /\ i.remote = b /\ r.local = b /\ r.remote = a
      /\ i.root = root /\ r.root = root
      /\ i.sendCK = FirstChainKey(root) /\ i.recvCK = None
      /\ r.sendCK = None /\ r.recvCK = FirstChainKey(root)
      /\ i.recvd = 0 /\ r.recvd = 0 /\ i.skipped = <<>> /\ r.skipped = <<>>
  BY <1>2, <1>3 DEF BootstrapInitiator, BootstrapResponder, root
<1> HIDE DEF a, b, i, r
<1>6. \A p \in Party : log[p] = <<>> /\ Done(p) = {}
  BY DEF Init, Done
<1>7. Chains(Initiator) \subseteq {<<a, root>>}
  BY <1>1, <1>4, <1>5, <1>6 DEF Chains, i
<1>8. \A p \in Party : KeepsCount(session[p], log[Peer(p)], Done(p))
  <2>1. DOMAIN <<>> = {}
    OBVIOUS
  <2> QED  BY <1>1, <1>5, <1>6, <2>1 DEF KeepsCount, i, r
<1>9. Follows(Initiator)
  BY <1>1, <1>5 DEF Follows, i, b
<1>10. Follows(Responder)
  BY <1>1, <1>4, <1>5, <1>7 DEF Follows, r, a
<1>11. Leads(Initiator)
  BY <1>1, <1>4, <1>5 DEF Leads, i, r
<1> QED  BY <1>1, <1>8, <1>9, <1>10, <1>11 DEF Understanding

(* What an end has sent is known by its owner and its numbers.             *)
LEMMA LogFacts ==
  ASSUME KeysAreFresh, SentInOrder, NEW p \in Party
  PROVE  /\ log[p] \in Seq(Envelope) /\ DOMAIN log[p] = 1 .. Len(log[p]) /\ Len(log[p]) \in Nat
         /\ InOrder(p, log[p]) /\ Continues(session[p], log[p])
         /\ \A i \in DOMAIN log[p] : /\ log[p][i] \in Envelope /\ log[p][i].n \in Nat
                                     /\ log[p][i].key \in Generated(p)
         /\ IsSession(session[p]) /\ Restorable(session[p])
         /\ session[p].local \in Generated(p) /\ session[p].remote \in Generated(Peer(p))
         /\ serial[p] \in Nat /\ Generated(p) \subseteq {p} \X Nat
         /\ \A key \in Generated(p) : key[2] < serial[p]
         /\ Done(p) \subseteq DOMAIN log[Peer(p)]
<1>1. log[p] \in Seq(Envelope) /\ serial[p] \in Nat
  BY DEF KeysAreFresh, WellTyped, TypeOK
<1>2. \A i \in DOMAIN log[p] : log[p][i] \in Envelope
  BY <1>1
<1>3. \A i \in DOMAIN log[p] : log[p][i].key \in Generated(p)
  <2>1. \A i \in DOMAIN log[p] : <<log[p][i].key, log[p][i].mk.root>> \in Chains(p)
    BY DEF Chains
  <2> QED  BY <2>1 DEF KeysAreFresh, ChainsArePaired
<1>4. Done(p) \subseteq DOMAIN log[Peer(p)]
  <2>1. opened[p] \in Seq(Nat) /\ Len(opened[p]) = Len(log[Peer(p)]) /\ log[Peer(p)] \in Seq(Envelope)
    BY PeerFacts DEF KeysAreFresh, WellTyped, TypeOK
  <2> QED  BY <2>1 DEF Done
<1> QED  BY <1>1, <1>2, <1>3, <1>4
         DEF KeysAreFresh, WellTyped, TypeOK, AlwaysRestorable, KeysWereGenerated, SentInOrder,
             Generated, Envelope

(* encrypt: the end that opens a chain leads.                              *)
LEMMA SendUnderstanding ==
  ASSUME KeysAreFresh, SentInOrder, SentInOrder', Understanding, NEW p \in Party, Send(p)
  PROVE  Understanding'
<1> DEFINE s == session[p]
           q == Peer(p)
           r == session[q]
<1> SUFFICES ASSUME Quiet'
             PROVE  /\ \A x \in Party : KeepsCount(session[x], log[Peer(x)], Done(x))' /\ Follows(x)'
                    /\ \E x \in Party : Leads(x)'
  BY DEF Understanding
<1>0. PICK u, e : Sends(p, u, e)
  BY SendEffect
<1>1. /\ IsSession(u) /\ e \in Envelope
      /\ session'[p] = u /\ session'[q] = r
      /\ log'[p] = Append(log[p], e) /\ log'[q] = log[q]
      /\ u.local = e.key /\ u.sendCK # None /\ u.sendCK.root = e.mk.root
      /\ u.remote = s.remote /\ u.recvCK = s.recvCK
      /\ u.recvd = s.recvd /\ u.skipped = s.skipped
      /\ \/ /\ s.sendCK # None /\ u.root = s.root /\ u.sendCK.root = s.sendCK.root
            /\ e.key = s.local
         \/ /\ s.sendCK = None /\ u.root = DeriveRootKey(s.root, DiffieHellman(e.key, s.remote))
            /\ e.key = <<p, serial[p]>> /\ e.mk.root = u.root
  BY <1>0 DEF Sends
<1>2. q \in Party /\ q # p /\ Peer(q) = p /\ \A x \in Party : x = p \/ x = q
  BY PeerFacts
<1>3. /\ \A x \in Party : KeepsCount(session[x], log[Peer(x)], Done(x)) /\ Follows(x)
      /\ \E x \in Party : Leads(x)
  BY DEF Understanding, Quiet, Send
<1>4. /\ log[p] \in Seq(Envelope) /\ DOMAIN log[p] = 1 .. Len(log[p]) /\ Len(log[p]) \in Nat
      /\ \A i \in DOMAIN log[p] : log[p][i].n \in Nat /\ log[p][i].key[2] <= s.local[2]
      /\ r.remote \in Generated(p) /\ IsSession(r) /\ serial[p] \in Nat
      /\ \A key \in Generated(p) : key[2] < serial[p] /\ key # <<p, serial[p]>>
      /\ Done(q) \subseteq DOMAIN log[p]
  <2>1. \A key \in Generated(p) : key # <<p, serial[p]>>
    BY <1>2, LogFacts DEF Generated
  <2>2. \A i \in DOMAIN log[p] : log[p][i].key[2] <= s.local[2]
    BY DEF SentInOrder, Continues
  <2> QED  BY <1>2, <2>1, <2>2, LogFacts
<1>5. Done(p)' = Done(p) /\ Done(q)' = Done(q)
  <2>1. opened' = [opened EXCEPT ![q] = Append(@, 0)] /\ opened \in [Party -> Seq(Nat)]
    BY DEF Send, KeysAreFresh, WellTyped, TypeOK
  <2>2. opened'[p] = opened[p] /\ opened'[q] = Append(opened[q], 0) /\ opened[q] \in Seq(Nat)
    BY <1>2, <2>1
  <2>3. /\ \A i \in DOMAIN opened[q] : opened'[q][i] = opened[q][i] /\ i \in DOMAIN opened'[q]
        /\ \A i \in DOMAIN opened'[q] : i \in DOMAIN opened[q] \/ opened'[q][i] = 0
    BY <2>2
  <2> QED  BY <2>2, <2>3 DEF Done
<1> DEFINE k    == Len(log[p]) + 1
           more == log'[p]
<1>6. /\ k \in Nat /\ DOMAIN log[p] = 1 .. k - 1 /\ DOMAIN more = 1 .. k /\ more[k] = e
      /\ \A i \in DOMAIN log[p] : more[i] = log[p][i] /\ i \in DOMAIN more
      /\ \A i \in DOMAIN more : i \in DOMAIN log[p] \/ i = k
  BY <1>1, <1>4
<1>7. InOrder(p, more)
  BY DEF SentInOrder
<1> HIDE DEF s, q, r, k, more
<1>8. KeepsCount(session'[p], log'[q], Done(p)')
  <2>1. KeepsCount(s, log[q], Done(p))
    BY <1>3 DEF s, q
  <2>2. KeepsCount(u, log[q], Done(p))
    BY <1>1, <2>1 DEF KeepsCount, Past
  <2> QED  BY <1>1, <1>5, <2>2
<1>9. KeepsCount(session'[q], log'[p], Done(q)')
  <2> DEFINE sent == log[p]
             done == Done(q)
  <2>1. KeepsCount(r, sent, done)
    BY <1>2, <1>3 DEF r
  <2>2. r.recvd \in Nat /\ done \in SUBSET DOMAIN sent
    BY <1>4 DEF IsSession
  <2>3. DOMAIN sent = 1 .. k - 1 /\ \A i \in DOMAIN sent : more[i] = sent[i] /\ sent[i].n \in Nat
    BY <1>4, <1>6
  <2> HIDE DEF sent, done
  <2>4. KeepsCount(r, more, done)
    BY <1>1, <1>6, <1>7, <2>1, <2>2, <2>3, MoreKeepsCount
  <2> QED  BY <1>1, <1>5, <2>4 DEF done, more
<1>10. Chains(q)' = Chains(q)
  BY <1>1 DEF Chains, r
<1>11. Chains(p)' \subseteq Chains(p) \cup {<<e.key, e.mk.root>>}
  <2> SUFFICES ASSUME NEW c \in Chains(p)' PROVE c \in Chains(p) \/ c = <<e.key, e.mk.root>>
    OBVIOUS
  <2>1. CASE \E i \in DOMAIN more : c = <<more[i].key, more[i].mk.root>>
    <3>1. PICK i \in DOMAIN more : c = <<more[i].key, more[i].mk.root>>
      BY <2>1
    <3> QED  BY <1>6, <3>1 DEF Chains
  <2>2. CASE c = <<u.local, u.sendCK.root>>
    BY <1>1, <2>2
  <2> QED  BY <1>1, <2>1, <2>2 DEF Chains, more
<1>12. Follows(p)'
  <2>1. Follows(p) /\ session'[p].recvCK = s.recvCK /\ session'[p].recvd = s.recvd
        /\ session'[p].remote = s.remote
    BY <1>1, <1>3
  <2> QED  BY <1>1, <1>5, <1>10, <2>1 DEF Follows, s, q
<1>13. Follows(q)'
  <2>1. /\ r.recvCK = None => r.remote = <<Responder, 0>> /\ p = Responder
        /\ r.recvCK # None => /\ r.recvCK.n = r.recvd
                              /\ \A c \in Chains(p) : c[1] = r.remote => c[2] = r.recvCK.root
        /\ r.remote = <<p, 0>> \/ \E m \in Done(q) : log[p][m].key = r.remote
    BY <1>2, <1>3 DEF Follows, r
  <2>2. <<e.key, e.mk.root>> \in Chains(p) \/ e.key # r.remote
    BY <1>1, <1>4 DEF Chains, s
  <2>3. r.recvCK # None => \A c \in Chains(p)' : c[1] = r.remote => c[2] = r.recvCK.root
    BY <1>11, <2>1, <2>2
  <2>4. r.remote = <<p, 0>> \/ \E m \in Done(q)' : more[m].key = r.remote
    BY <1>4, <1>5, <1>6, <2>1
  <2> QED  BY <1>1, <1>2, <2>1, <2>3, <2>4 DEF Follows, more
<1>14. \E x \in Party : Leads(x)'
  <2>1. PICK x \in Party : Leads(x)
    BY <1>3
  <2>2. CASE s.sendCK # None
    <3>0. /\ u.root = s.root /\ u.local = s.local /\ u.remote = s.remote
          /\ u.sendCK # None /\ u.sendCK.root = s.sendCK.root /\ e.key = s.local
      BY <1>1, <2>2
    <3>1. CASE x = p
      <4>1. \A y : (\A i \in DOMAIN log[p] : log[p][i].key # s.local => log[p][i].key[2] <= y)
                      => \A i \in DOMAIN more : more[i].key # s.local => more[i].key[2] <= y
        BY <1>6, <3>0
      <4>2. /\ s.sendCK # None /\ s.remote = r.local
            /\ \/ r.sendCK = None /\ r.root = s.root /\ r.remote = s.local
               \/ /\ r.sendCK # None
                  /\ s.root = DeriveRootKey(r.root, DiffieHellman(s.local, s.remote))
                  /\ s.sendCK.root = s.root
                  /\ r.remote[2] < s.local[2]
                  /\ \A i \in DOMAIN log[p] : log[p][i].key # s.local => log[p][i].key[2] <= r.remote[2]
        BY <2>1, <3>1 DEF Leads, s, r, q
      <4>3. Leads(p)'
        BY <1>1, <3>0, <4>1, <4>2 DEF Leads, q, more
      <4> QED  BY <4>3
    <3>2. CASE x = q
      <4>1. Leads(q)'
        BY <1>1, <1>2, <2>1, <2>2, <3>0, <3>2 DEF Leads, s, r
      <4> QED  BY <1>2, <4>1
    <3> QED  BY <1>2, <3>1, <3>2
  <2>3. CASE s.sendCK = None
    <3>0. /\ u.root = DeriveRootKey(s.root, DiffieHellman(e.key, s.remote))
          /\ e.key = <<p, serial[p]>> /\ e.mk.root = u.root
      BY <1>1, <2>3
    <3>1. r.sendCK # None /\ r.remote = s.local /\ s.root = r.root /\ s.remote = r.local
      <4>1. x = q
        BY <1>2, <2>1, <2>3 DEF Leads, s
      <4> QED  BY <1>2, <2>1, <2>3, <4>1 DEF Leads, s, r
    <3>2. r.remote[2] < u.local[2]
      BY <1>1, <1>4, <3>0
    <3>3. \A i \in DOMAIN more : more[i].key # u.local => more[i].key[2] <= r.remote[2]
      BY <1>1, <1>4, <1>6, <3>1
    <3>4. Leads(p)'
      BY <1>1, <3>0, <3>1, <3>2, <3>3 DEF Leads, q, more
    <3> QED  BY <3>4
  <2> QED  BY <2>2, <2>3
<1> QED  BY <1>2, <1>8, <1>9, <1>12, <1>13, <1>14 DEF q

(* decrypt: p opens the message by a key it put aside, in its receiving    *)
(* chain, or by following the peer that leads.                             *)
LEMMA ReceiveUnderstanding ==
  ASSUME KeysAreFresh, KeysAreConsumed, NoPriorLength, RootsGrow, SentInOrder, Understanding,
         NEW p \in Party, NEW i \in DOMAIN channel[p], Receive(p, i)
  PROVE  Understanding'
<1> DEFINE s    == session[p]
           q    == Peer(p)
           r    == session[q]
           m    == channel[p][i]
           sent == log[q]
           e    == sent[m]
<1> SUFFICES ASSUME Quiet'
             PROVE  /\ \A x \in Party : KeepsCount(session[x], log[Peer(x)], Done(x))' /\ Follows(x)'
                    /\ \E x \in Party : Leads(x)'
  BY DEF Understanding
<1>0. PICK t : Receives(p, m, t)
  BY ReceiveEffect
<1>1. /\ m \in DOMAIN sent /\ e \in Envelope /\ t = Decrypt(s, e).session /\ Decrypt(s, e).ok
      /\ IsSession(t) /\ session'[p] = t /\ session'[q] = r
      /\ log' = log /\ serial' = serial /\ rejected' = rejected
      /\ m \in DOMAIN opened[p] /\ opened[p][m] = 0 /\ opened' = [opened EXCEPT ![p][m] = 1]
      /\ \/ KeepsSending(s, t)
         \/ /\ ClosesSending(s, t, e.key) /\ t.root = e.mk.root
            /\ t.root = DeriveRootKey(s.root, DiffieHellman(s.local, e.key))
  BY <1>0 DEF Receives, Quiet
<1>2. q \in Party /\ q # p /\ Peer(q) = p /\ \A x \in Party : x = p \/ x = q
  BY PeerFacts
<1>3. /\ \A x \in Party : KeepsCount(session[x], log[Peer(x)], Done(x)) /\ Follows(x)
      /\ \E x \in Party : Leads(x)
  BY <1>1 DEF Understanding, Quiet
<1>4. /\ DOMAIN sent \subseteq Nat /\ InOrder(q, sent) /\ Continues(r, sent)
      /\ \A j \in DOMAIN sent : /\ sent[j] \in Envelope /\ sent[j].key \in Generated(q)
                                /\ sent[j].pn = 0 /\ sent[j].mk.n = sent[j].n
      /\ IsSession(s) /\ Restorable(s) /\ IsSession(r)
      /\ s.local \in Generated(p) /\ s.remote \in Generated(q)
      /\ r.local \in Generated(q) /\ r.remote \in Generated(p)
      /\ Generated(q) \subseteq {q} \X Nat /\ Generated(p) \subseteq {p} \X Nat
      /\ Done(p) \subseteq DOMAIN sent
  <2>1. \A j \in DOMAIN sent : sent[j].pn = 0
    BY <1>2 DEF NoPriorLength
  <2>2. InOrder(q, sent)
    BY <1>2 DEF SentInOrder
  <2>3. \A j \in DOMAIN sent : sent[j].mk.n = sent[j].n
    BY <2>2 DEF InOrder
  <2> QED  BY <1>2, <2>1, <2>2, <2>3, LogFacts
<1>5. Done(p)' = Done(p) \cup {m} /\ Done(q)' = Done(q) /\ m \notin Done(p)
  <2>1. opened \in [Party -> Seq(Nat)]
    BY DEF KeysAreFresh, WellTyped, TypeOK
  <2>2. /\ opened'[q] = opened[q] /\ DOMAIN opened'[p] = DOMAIN opened[p] /\ opened'[p][m] = 1
        /\ \A j \in DOMAIN opened[p] : j # m => opened'[p][j] = opened[p][j]
    BY <1>1, <1>2, <2>1
  <2> HIDE DEF m
  <2> QED  BY <1>1, <2>2 DEF Done
<1>6. Chains(q)' = Chains(q)
  BY <1>1 DEF Chains, r
<1>7. Chains(p)' \subseteq Chains(p)
  <2>1. t.sendCK # None => t.local = s.local /\ t.sendCK = s.sendCK
    BY <1>1 DEF KeepsSending, ClosesSending
  <2> QED  BY <1>1, <2>1 DEF Chains
<1> HIDE DEF s, q, r, m, sent, e
<1>8. /\ s.recvCK = None => s.remote = <<Responder, 0>> /\ q = Responder
      /\ s.recvCK # None => /\ s.recvCK.n = s.recvd
                            /\ \A c \in Chains(q) : c[1] = s.remote => c[2] = s.recvCK.root
      /\ s.remote = <<q, 0>> \/ \E k \in Done(p) : sent[k].key = s.remote
  BY <1>3 DEF Follows, s, q, sent
<1>9. OpenedAside(s, t, e) \/ OpenedInChain(s, t, e)
  <2>1. e.pn = 0 /\ e.mk.n = e.n
    BY <1>1, <1>4 DEF e
  <2> QED  BY <1>1, <1>4, <1>8, <2>1, DecryptEffect
<1>10. ASSUME ClosesSending(s, t, e.key), t.root = e.mk.root,
              t.root = DeriveRootKey(s.root, DiffieHellman(s.local, e.key))
       PROVE  /\ r.sendCK # None /\ r.remote = t.local /\ t.sendCK = None /\ t.root = r.root
              /\ t.remote = r.local /\ s.remote[2] < t.remote[2]
  <2>1. /\ s.root \in Seq(DHOutput) /\ r.root \in Seq(DHOutput) /\ t.root \in Seq(DHOutput)
        /\ s.local \in RatchetKey /\ e.key \in RatchetKey
    BY <1>1, <1>4 DEF IsSession, RootKey, Envelope
  <2>2. IsPrefix(t.root, r.root)
    BY <1>1, <1>2, <1>10 DEF RootsGrow, r, e, sent
  <2>3. DiffieHellman(s.local, e.key) \in DHOutput
    BY <2>1 DEF DiffieHellman, DHOutput
  <2>4. Len(t.root) = Len(s.root) + 1 /\ Len(s.root) \in Nat /\ Len(r.root) \in Nat
    BY <1>10, <2>1, <2>3 DEF DeriveRootKey
  <2>5. Len(t.root) <= Len(r.root)
    BY <2>1, <2>2, PrefixElements
  <2>6. r.root # s.root /\ \A d : s.root # DeriveRootKey(r.root, d)
    <3>1. r.root # s.root
      BY <2>4, <2>5
    <3>2. ASSUME NEW d, s.root = DeriveRootKey(r.root, d) PROVE FALSE
      <4>1. Len(Append(r.root, d)) = Len(r.root) + 1
        BY <2>1
      <4> QED  BY <2>4, <2>5, <3>2, <4>1 DEF DeriveRootKey
    <3> QED  BY <3>1, <3>2
  <2>7. PICK x \in Party : Leads(x)
    BY <1>3
  <2>8. x = q
    <3>1. ASSUME x = p PROVE s.root = r.root \/ s.root = DeriveRootKey(r.root, DiffieHellman(s.local, s.remote))
      BY <1>2, <2>7, <3>1 DEF Leads, s, r, q
    <3> QED  BY <1>2, <2>6, <3>1
  <2>9. /\ r.sendCK # None /\ r.remote = s.local
        /\ r.root = DeriveRootKey(s.root, DiffieHellman(r.local, r.remote))
        /\ s.remote[2] < r.local[2]
    BY <1>2, <2>6, <2>7, <2>8 DEF Leads, s, r
  <2>10. DiffieHellman(r.local, r.remote) \in DHOutput
    BY <1>4 DEF IsSession, DiffieHellman, DHOutput
  <2>11. Len(r.root) = Len(s.root) + 1
    BY <2>1, <2>9, <2>10 DEF DeriveRootKey
  <2>12. t.root = r.root
    BY <2>1, <2>2, <2>4, <2>11, PrefixFacts
  <2>13. DiffieHellman(r.local, r.remote) = DiffieHellman(s.local, e.key)
    <3> DEFINE c == DiffieHellman(r.local, r.remote)
               d == DiffieHellman(s.local, e.key)
    <3>1. Append(s.root, c) = Append(s.root, d) /\ c \in DHOutput /\ d \in DHOutput
      BY <1>10, <2>3, <2>9, <2>10, <2>12 DEF DeriveRootKey
    <3> HIDE DEF c, d
    <3>2. Append(s.root, c)[Len(s.root) + 1] = c /\ Append(s.root, d)[Len(s.root) + 1] = d
      BY <2>1, <3>1
    <3>3. c = d
      BY <3>1, <3>2
    <3> QED  BY <3>3 DEF c, d
  <2>14. e.key = r.local
    <3>1. e.key \in Generated(q)
      BY <1>1, <1>4 DEF e
    <3>2. e.key # s.local
      BY <1>2, <1>4, <3>1
    <3> QED  BY <2>9, <2>13, <3>2 DEF DiffieHellman
  <2> QED  BY <1>10, <2>9, <2>12, <2>14 DEF ClosesSending
<1>11. t.remote # s.remote => s.remote[2] < t.remote[2]
  BY <1>1, <1>10 DEF KeepsSending
<1>12. KeepsCount(session'[p], log'[q], Done(p)')
  <2> DEFINE done == Done(p)
  <2>1. KeepsCount(s, sent, done)
    BY <1>2, <1>3 DEF s, sent, q
  <2>2. m \in DOMAIN sent \ done /\ done \in SUBSET DOMAIN sent
    BY <1>1, <1>4, <1>5
  <2>3. s.remote \in {q} \X Nat /\ \A j \in DOMAIN sent : sent[j] \in Envelope
    BY <1>4
  <2> HIDE DEF done
  <2>4. KeepsCount(t, sent, done \cup {m})
    BY <1>1, <1>4, <1>9, <1>11, <2>1, <2>2, <2>3, OpeningKeepsCount DEF e
  <2> QED  BY <1>1, <1>5, <2>4 DEF done, sent
<1>13. KeepsCount(session'[q], log'[p], Done(q)')
  <2>1. KeepsCount(r, log[p], Done(q))
    BY <1>2, <1>3 DEF r
  <2> QED  BY <1>1, <1>5, <2>1
<1>14. Follows(p)'
  <2>1. /\ t.recvCK = None => t.remote = <<Responder, 0>> /\ q = Responder
        /\ t.recvCK # None => /\ t.recvCK.n = t.recvd
                              /\ \A c \in Chains(q) : c[1] = t.remote => c[2] = t.recvCK.root
        /\ t.remote = <<q, 0>> \/ \E k \in Done(p) \cup {m} : sent[k].key = t.remote
    <3>1. CASE OpenedAside(s, t, e)
      BY <1>8, <3>1 DEF OpenedAside
    <3>2. CASE OpenedInChain(s, t, e)
      <4>1. t.remote = e.key /\ t.recvCK = NextChainKey(e.mk) /\ t.recvd = e.n + 1
        BY <3>2 DEF OpenedInChain
      <4>2. e.mk \in ChainKey /\ e.mk.n = e.n
        BY <1>1, <1>4 DEF Envelope, e
      <4>3. t.recvCK \in ChainKey /\ t.recvCK.n = e.n + 1 /\ t.recvCK.root = e.mk.root
        BY <4>1, <4>2 DEF NextChainKey, Advanced, ChainKey
      <4>4. ASSUME NEW c \in Chains(q), c[1] = e.key PROVE c[2] = e.mk.root
        <5>1. CASE \E j \in DOMAIN sent : c = <<sent[j].key, sent[j].mk.root>>
          BY <1>1, <1>4, <4>4, <5>1 DEF InOrder, e
        <5>2. CASE r.sendCK # None /\ c = <<r.local, r.sendCK.root>>
          BY <1>1, <1>4, <4>4, <5>2 DEF Continues, e
        <5> QED  BY <5>1, <5>2 DEF Chains, r, sent
      <4>5. \E k \in Done(p) \cup {m} : sent[k].key = t.remote
        BY <4>1 DEF e
      <4> QED  BY <4>1, <4>3, <4>4, <4>5, NoneAssumption
    <3> QED  BY <1>9, <3>1, <3>2
  <2> QED  BY <1>1, <1>5, <1>6, <2>1 DEF Follows, q, sent
<1>15. Follows(q)'
  <2>1. /\ r.recvCK = None => r.remote = <<Responder, 0>> /\ p = Responder
        /\ r.recvCK # None => /\ r.recvCK.n = r.recvd
                              /\ \A c \in Chains(p) : c[1] = r.remote => c[2] = r.recvCK.root
        /\ r.remote = <<p, 0>> \/ \E k \in Done(q) : log[p][k].key = r.remote
    BY <1>2, <1>3 DEF Follows, r
  <2> QED  BY <1>1, <1>2, <1>5, <1>7, <2>1 DEF Follows
<1>16. \E x \in Party : Leads(x)'
  <2>1. PICK x \in Party : Leads(x)
    BY <1>3
  <2>2. CASE KeepsSending(s, t)
    <3>1. /\ t.root = s.root /\ t.local = s.local /\ t.remote = s.remote /\ t.sendCK = s.sendCK
      BY <2>2 DEF KeepsSending
    <3>2. CASE x = p
      <4>1. Leads(p)'
        BY <1>1, <2>1, <3>1, <3>2 DEF Leads, s, r, q
      <4> QED  BY <4>1
    <3>3. CASE x = q
      <4>1. Leads(q)'
        BY <1>1, <1>2, <2>1, <3>1, <3>3 DEF Leads, s, r
      <4> QED  BY <1>2, <4>1
    <3> QED  BY <1>2, <3>2, <3>3
  <2>3. CASE /\ ClosesSending(s, t, e.key) /\ t.root = e.mk.root
             /\ t.root = DeriveRootKey(s.root, DiffieHellman(s.local, e.key))
    <3>1. /\ r.sendCK # None /\ r.remote = t.local /\ t.sendCK = None /\ t.root = r.root
          /\ t.remote = r.local
      BY <1>10, <2>3
    <3>2. Leads(q)'
      BY <1>1, <1>2, <3>1 DEF Leads
    <3> QED  BY <1>2, <3>2
  <2> QED  BY <1>1, <2>2, <2>3
<1> QED  BY <1>2, <1>12, <1>13, <1>14, <1>15, <1>16 DEF q

(* Everything that the argument rests on.                                  *)
Understood ==
  /\ KeysAreFresh /\ KeysAreConsumed /\ NoPriorLength /\ Lockstep
  /\ SentInOrder /\ Understanding

LEMMA NextUnderstood == Understood /\ [Next]_vars => Understood'
<1> SUFFICES ASSUME Understood, [Next]_vars PROVE Understood'
  OBVIOUS
<1>1. /\ WellTyped /\ KeysAreFresh /\ KeysAreConsumed /\ NoPriorLength /\ Lockstep /\ RootsGrow
      /\ SentInOrder /\ Understanding
  BY DEF Understood, KeysAreFresh, Lockstep
<1>2. KeysAreFresh' /\ KeysAreConsumed' /\ NoPriorLength' /\ Lockstep' /\ SentInOrder'
  BY <1>1, NextKeysAreFresh, NextKeysAreConsumed, NextNoPriorLength, NextLockstep, NextSentInOrder
<1>3. Understanding'
  <2>1. CASE UNCHANGED <<session, log, opened, rejected>>
    <3>1. \A p : Done(p)' = Done(p) /\ Chains(p)' = Chains(p)
      BY <2>1 DEF Done, Chains
    <3>2. \A p \in Party : Follows(p)' = Follows(p) /\ Leads(p)' = Leads(p)
      BY <2>1, <3>1 DEF Follows, Leads
    <3>3. Quiet' = Quiet
      BY <2>1 DEF Quiet
    <3>4. ASSUME NEW p \in Party
          PROVE  KeepsCount(session[p], log[Peer(p)], Done(p))' = KeepsCount(session[p], log[Peer(p)], Done(p))
      BY <2>1, <3>1
    <3> QED  BY <1>1, <3>2, <3>3, <3>4 DEF Understanding
  <2>2. ASSUME NEW p \in Party, Send(p) PROVE Understanding'
    BY <1>1, <1>2, <2>2, SendUnderstanding
  <2>3. ASSUME NEW p \in Party, NEW i \in DOMAIN channel[p], Receive(p, i) PROVE Understanding'
    BY <1>1, <2>3, ReceiveUnderstanding
  <2> QED  BY <2>1, <2>2, <2>3 DEF Next, Lose, Duplicate, vars
<1> QED  BY <1>2, <1>3 DEF Understood

LEMMA AlwaysUnderstood == Spec => []Understood
<1>1. Init => Understood
  BY InitKeysAreFresh, InitKeysAreConsumed, InitNoPriorLength, InitLockstep, InitSentInOrder,
     InitUnderstanding DEF Understood
<1> QED  BY <1>1, NextUnderstood, PTL DEF Spec

(* Between two ends that understand each other, a message that p has not   *)
(* opened, that no later chain overtook and before which the window holds  *)
(* all that is missing, opens.                                             *)
LEMMA UnderstoodOpens ==
  ASSUME KeysAreFresh, NoPriorLength, SentInOrder, Understanding, Quiet,
         NEW p \in Party, NEW m \in DOMAIN log[Peer(p)],
         opened[p][m] = 0, ~Overtaken(p, m), Cardinality(Unopened(p, m)) <= MaxSkipped
  PROVE  Decrypt(session[p], log[Peer(p)][m]).ok
<1> DEFINE s    == session[p]
           q    == Peer(p)
           r    == session[q]
           sent == log[q]
           e    == sent[m]
           l    == Len(sent)
           done == Done(p)
<1>1. q \in Party /\ q # p /\ Peer(q) = p /\ \A x \in Party : x = p \/ x = q
  BY PeerFacts
<1>2. KeepsCount(s, sent, done) /\ Follows(p) /\ \E x \in Party : Leads(x)
  BY DEF Understanding
<1>3. /\ l \in Nat /\ DOMAIN sent = 1 .. l /\ InOrder(q, sent) /\ Continues(r, sent)
      /\ \A i \in DOMAIN sent : /\ sent[i] \in Envelope /\ sent[i].key \in Generated(q)
                                /\ sent[i].pn = 0 /\ sent[i].n \in Nat
      /\ IsSession(s) /\ Restorable(s)
      /\ s.local \in Generated(p) /\ s.remote \in Generated(q)
      /\ Generated(q) \subseteq {q} \X Nat
      /\ done \in SUBSET DOMAIN sent
  <2>1. \A i \in DOMAIN sent : sent[i].pn = 0
    BY <1>1 DEF NoPriorLength
  <2> QED  BY <1>1, <2>1, LogFacts
<1>4. opened[p] \in Seq(Nat) /\ Len(opened[p]) = l
  BY DEF KeysAreFresh, WellTyped, TypeOK
<1>5. m \in DOMAIN sent \ done
  BY DEF Done
<1>6. Unopened(p, m) = (1 .. m - 1) \ done
  BY <1>3, <1>4, <1>5 DEF Unopened, Done
<1>7. \A k \in done : k > m => sent[k].key = e.key
  <2> SUFFICES ASSUME NEW k \in done, k > m, sent[k].key # e.key PROVE FALSE
    OBVIOUS
  <2>1. k \in m + 1 .. Len(opened[p]) /\ opened[p][k] > 0
    <3>1. k \in Nat /\ m \in Nat /\ k <= l
      BY <1>3, <1>5
    <3> QED  BY <1>4, <3>1 DEF Done
  <2> QED  BY <2>1 DEF Overtaken
<1> HIDE DEF s, q, r, sent, l, done
<1>8. e.key \in {q} \X Nat /\ s.remote \in {q} \X Nat /\ e.key[2] \in Nat /\ s.remote[2] \in Nat
  BY <1>3, <1>5
<1>9. \/ s.remote = e.key /\ s.recvCK # None /\ s.recvCK.root = e.mk.root
      \/ /\ s.remote[2] < e.key[2]
         /\ e.mk.root = DeriveRootKey(s.root, DiffieHellman(s.local, e.key))
  <2>1. CASE e.key = s.remote
    <3>1. <<e.key, e.mk.root>> \in Chains(q)
      BY <1>5 DEF Chains, sent, q
    <3>2. s.recvCK # None
      BY <1>1, <1>2, <2>1, <3>1 DEF Follows, s, q, SentInOrder, PreKeySealsNothing
    <3> QED  BY <1>2, <2>1, <3>1, <3>2 DEF Follows, s, q
  <2>2. CASE e.key # s.remote
    <3>1. s.remote = <<q, 0>> \/ \E k \in done : sent[k].key = s.remote
      BY <1>2 DEF Follows, s, q, sent, done
    <3>2. s.remote[2] < e.key[2]
      <4>1. CASE s.remote = <<q, 0>>
        BY <1>8, <2>2, <4>1
      <4>2. ASSUME NEW k \in done, sent[k].key = s.remote PROVE s.remote[2] < e.key[2]
        <5>1. k \in Nat /\ m \in Nat /\ k \in DOMAIN sent /\ m \in DOMAIN sent
          BY <1>3, <1>5
        <5>2. k < m
          BY <1>5, <1>7, <2>2, <4>2, <5>1
        <5> QED  BY <1>3, <2>2, <4>2, <5>1, <5>2 DEF InOrder
      <4> QED  BY <3>1, <4>1, <4>2
    <3>3. PICK x \in Party : Leads(x)
      BY <1>2
    <3>4. e.key[2] <= r.local[2]
      BY <1>3, <1>5 DEF Continues
    <3>5. ASSUME s.remote = r.local PROVE FALSE
      BY <1>8, <3>2, <3>4, <3>5
    <3>6. x = q
      BY <1>1, <3>3, <3>5 DEF Leads, s, r, q
    <3>7. /\ r.sendCK # None /\ r.remote = s.local
          /\ \/ s.remote = r.local
             \/ /\ r.root = DeriveRootKey(s.root, DiffieHellman(r.local, r.remote))
                /\ r.sendCK.root = r.root
                /\ \A i \in DOMAIN sent : sent[i].key # r.local => sent[i].key[2] <= s.remote[2]
      BY <1>1, <3>3, <3>6 DEF Leads, s, r, sent
    <3>8. e.key = r.local
      BY <1>5, <1>8, <3>2, <3>5, <3>7
    <3>9. e.mk.root = r.sendCK.root
      BY <1>3, <1>5, <3>7, <3>8 DEF Continues
    <3>10. DiffieHellman(r.local, r.remote) = DiffieHellman(s.local, e.key)
      BY <3>7, <3>8 DEF DiffieHellman
    <3> QED  BY <3>2, <3>5, <3>7, <3>9, <3>10
  <2> QED  BY <2>1, <2>2
<1>10. s.recvCK # None => s.recvCK.n = s.recvd
  BY <1>2 DEF Follows, s
<1>11. Decrypt(s, sent[m]).ok
  BY <1>2, <1>3, <1>5, <1>6, <1>8, <1>9, <1>10, CountedOpens
<1> QED  BY <1>11 DEF s, sent, q

(* The first message that decrypt refuses in a conversation is a copy of   *)
(* one it opened, was overtaken by the peer's next chain, or more messages *)
(* before it are missing than the window of skipped keys holds: for every  *)
(* number of messages, every window and every order of delivery.           *)
THEOREM FirstRefusalHasAReason == Spec => RejectsOnlyForAReason
<1>1. Understood /\ [Next]_vars =>
        [\A p \in Party : \A m \in rejected'[p] \ rejected[p] :
           (\A q \in Party : rejected[q] = {}) =>
             \/ opened[p][m] > 0
             \/ Overtaken(p, m)
             \/ Cardinality(Unopened(p, m)) > MaxSkipped]_vars
  <2> SUFFICES ASSUME Understood, [Next]_vars,
                      NEW p \in Party, NEW m \in rejected'[p] \ rejected[p],
                      \A q \in Party : rejected[q] = {}, ~(opened[p][m] > 0), ~Overtaken(p, m),
                      ~(Cardinality(Unopened(p, m)) > MaxSkipped)
               PROVE  FALSE
    OBVIOUS
  <2>0. /\ WellTyped /\ KeysAreFresh /\ KeysAreConsumed /\ NoPriorLength /\ SentInOrder
        /\ Understanding
    BY DEF Understood, KeysAreFresh
  <2>1. PICK i \in DOMAIN channel[p] : Receive(p, i) /\ m = channel[p][i]
    <3>1. rejected # rejected' /\ rejected \in [Party -> SUBSET Nat]
      BY <2>0 DEF WellTyped, TypeOK
    <3>2. PICK x \in Party : \E j \in DOMAIN channel[x] : Receive(x, j)
      BY <3>1 DEF Next, Send, Lose, Duplicate, vars
    <3>3. PICK j \in DOMAIN channel[x] : Receive(x, j)
      BY <3>2
    <3>4. rejected' = [rejected EXCEPT ![x] = @ \cup {channel[x][j]}]
      BY <3>1, <3>3 DEF Receive
    <3> QED  BY <3>1, <3>3, <3>4
  <2>2. PICK t : Receives(p, m, t)
    BY <2>0, <2>1, ReceiveEffect
  <2>3. m \in DOMAIN log[Peer(p)] /\ m \in DOMAIN opened[p] /\ opened[p][m] \in Nat
    <3>1. m \in DOMAIN opened[p] /\ opened[p] \in Seq(Nat)
      BY <2>0, <2>1, ReceivedEnvelope DEF WellTyped, TypeOK
    <3> QED  BY <2>2, <3>1 DEF Receives
  <2>4. ~Decrypt(session[p], log[Peer(p)][m]).ok
    BY <2>1 DEF Receive
  <2>5. Cardinality(Unopened(p, m)) \in Nat
    <3>1. 1 .. m - 1 \in SUBSET Nat /\ Unopened(p, m) \subseteq 1 .. m - 1 /\ IsFiniteSet(1 .. m - 1)
      <4>1. m \in Nat
        BY <2>0, <2>3, PeerFacts, LogFacts
      <4> QED  BY <4>1, FS_Interval DEF Unopened
    <3> QED  BY <3>1, FS_Subset, FS_CardinalityType
  <2>6. opened[p][m] = 0 /\ Cardinality(Unopened(p, m)) <= MaxSkipped
    BY <2>3, <2>5, MaxSkippedAssumption
  <2> QED  BY <2>0, <2>3, <2>4, <2>6, UnderstoodOpens DEF Quiet
<1> QED  BY <1>1, AlwaysUnderstood, PTL DEF Spec, RejectsOnlyForAReason
=============================================================================
