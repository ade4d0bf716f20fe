----------------------- MODULE DesktopRatchet_proofs -----------------------
(***************************************************************************)
(* Two desktops in conversation, for every limit, any number of messages,  *)
(* bootstraps and crashes and any order in which the app presents what     *)
(* arrives: message keys are not used twice, plaintexts are returned once  *)
(* per bootstrap, their keys are off the disk by then, and a stored session*)
(* opens what its peer sends it next.  Part one proves the types, part two *)
(* says which sessions an end holds, and each further part one invariant.  *)
(***************************************************************************)
EXTENDS DesktopRatchet, RatchetSession_proofs

(* The two parties are each other's peer.                                  *)
LEMMA PeerFacts ==
  /\ \A p \in Party : Peer(p) \in Party /\ Peer(p) # p /\ Peer(Peer(p)) = p
  /\ \A p, q \in Party : p # q => q = Peer(p)
<1>1. \A p \in Party : \E q \in Party : q # p
  BY PartyAssumption
<1>2. \A p \in Party : Peer(p) \in Party /\ Peer(p) # p
  BY <1>1 DEF Peer
<1> QED  BY <1>2, PartyAssumption

-----------------------------------------------------------------------------
(* Part one: types.                                                        *)

(* Each end has a file and a command, and results of the two kinds that     *)
(* carry something carry it.                                               *)
WellTyped == TypeOK /\ DOMAIN file = Party /\ DOMAIN next = Party

(* A session is not the missing file, and no result is the absent one.     *)
LEMMA SomethingIsNotNothing ==
  /\ \A s : IsSession(s) => s # NoSession
  /\ \A r \in Result : r # NoResult
<1>1. ASSUME NEW s, IsSession(s) PROVE s # NoSession
  <2>1. DOMAIN s = {"root", "local", "remote", "sendCK", "recvCK", "prevLen", "sent",
                    "recvd", "skipped"}
    BY <1>1 DEF IsSession
  <2>2. DOMAIN NoSession = {"session"}
    BY DEF NoSession
  <2> QED  BY <2>1, <2>2
<1>2. ASSUME NEW r \in Result PROVE r # NoResult
  BY DEF Result, NoResult
<1> QED  BY <1>1, <1>2

(* What a result of each kind carries.                                     *)
LEMMA ResultFields ==
  ASSUME NEW r \in Result \cup {NoResult}
  PROVE  /\ r.call = "initiate" => r.key \in RatchetKey
         /\ r.call = "encrypt" => r.envelope \in Envelope
         /\ r.call = "decrypt" => r.message \in Nat \ {0}
         /\ r.call = "none" <=> r = NoResult
BY DEF Result, NoResult

LEMMA InitWellTyped == Init => WellTyped
<1> SUFFICES ASSUME Init PROVE WellTyped
  OBVIOUS
<1>1. \A p \in Party : file[p] = NoSession /\ next[p] = NoSession
                       /\ result[p] = NoResult /\ step[p] = "idle"
  BY DEF Init
<1>2. /\ step \in [Party -> {"idle", "replacing", "renaming", "returning"}]
      /\ result \in [Party -> Result \cup {NoResult}]
      /\ serial \in [Party -> Nat \ {0}]
      /\ initials \subseteq RatchetKey
      /\ log \in [Party -> Seq(Envelope)]
      /\ opened \in [Party -> Seq(Nat)]
      /\ consumed \in [Party -> SUBSET (Nat \ {0})]
      /\ bootstraps \in [Party -> Nat] /\ crashes \in [Party -> Nat]
      /\ DOMAIN file = Party /\ DOMAIN next = Party
  BY DEF Init
<1>3. \A p \in Party : Len(opened[p]) = Len(log[Peer(p)])
  BY PeerFacts DEF Init
<1> QED  BY <1>1, <1>2, <1>3 DEF WellTyped, TypeOK

(* A command that has computed a session and a result keeps them until it  *)
(* has saved the session.                                                  *)
LEMMA CommandWellTyped ==
  ASSUME WellTyped, NEW p \in Party, NEW s, NEW r \in Result,
         IsSession(s), SaveThenReturn(p, s, r),
         serial' \in [Party -> Nat \ {0}], bootstraps' \in [Party -> Nat],
         UNCHANGED <<file, initials, log, opened, consumed, crashes>>
  PROVE  WellTyped'
<1>1. s # NoSession /\ r # NoResult
  BY SomethingIsNotNothing
<1>2. /\ step' = [step EXCEPT ![p] = IF file[p] = NoSession THEN "renaming" ELSE "replacing"]
      /\ next' = [next EXCEPT ![p] = s]
      /\ result' = [result EXCEPT ![p] = r]
  BY DEF SaveThenReturn
<1>3. /\ step' \in [Party -> {"idle", "replacing", "renaming", "returning"}]
      /\ result' \in [Party -> Result \cup {NoResult}]
      /\ DOMAIN next' = Party
  BY <1>2 DEF WellTyped, TypeOK
<1>4. ASSUME NEW q \in Party
      PROVE  /\ file'[q] # NoSession => IsSession(file'[q])
             /\ next'[q] # NoSession => IsSession(next'[q])
             /\ next'[q] # NoSession <=> step'[q] \in {"replacing", "renaming"}
             /\ result'[q] # NoResult <=> step'[q] # "idle"
  <2>1. CASE q = p
    BY <2>1, <1>1, <1>2 DEF WellTyped, TypeOK
  <2>2. CASE q # p
    BY <2>2, <1>2 DEF WellTyped, TypeOK
  <2> QED  BY <2>1, <2>2
<1> QED  BY <1>3, <1>4 DEF WellTyped, TypeOK

(* A stored session that was loaded is a session within the limit.         *)
LEMMA LoadedSession ==
  ASSUME WellTyped, NEW p \in Party, CanLoad(p)
  PROVE  IsSession(file[p]) /\ Restorable(file[p])
BY DEF CanLoad, WellTyped, TypeOK

(* Ratchet keys are pairs of an end and a serial number.                   *)
LEMMA KeyTypes ==
  ASSUME WellTyped
  PROVE  /\ SignedPreKey \in RatchetKey
         /\ \A p \in Party : NewKey(p) \in RatchetKey
BY PartyAssumption DEF WellTyped, TypeOK, SignedPreKey, NewKey, RatchetKey

LEMMA CommandsWellTyped ==
  ASSUME WellTyped
  PROVE  /\ BootstrapInitiatorCommand => WellTyped'
         /\ \A key \in initials : BootstrapResponderCommand(key) => WellTyped'
         /\ \A p \in Party : EncryptMessage(p) => WellTyped'
         /\ \A p \in Party : \A m \in 1 .. Len(log[Peer(p)]) : DecryptMessage(p, m) => WellTyped'
<1>0. Initiator \in Party /\ Responder \in Party
  BY PartyAssumption
<1>1. /\ serial \in [Party -> Nat \ {0}] /\ bootstraps \in [Party -> Nat]
      /\ \A p \in Party : [bootstraps EXCEPT ![p] = @ + 1] \in [Party -> Nat]
      /\ \A p \in Party : Generate(p) => serial' \in [Party -> Nat \ {0}]
  <2>1. serial \in [Party -> Nat \ {0}] /\ bootstraps \in [Party -> Nat]
    BY DEF WellTyped, TypeOK
  <2>2. ASSUME NEW p \in Party PROVE [bootstraps EXCEPT ![p] = @ + 1] \in [Party -> Nat]
    BY <2>1
  <2>3. ASSUME NEW p \in Party, Generate(p) PROVE serial' \in [Party -> Nat \ {0}]
    <3>1. serial' = [serial EXCEPT ![p] = @ + 1] /\ serial[p] + 1 \in Nat \ {0}
      BY <2>1, <2>3 DEF Generate
    <3> QED  BY <2>1, <3>1
  <2> QED  BY <2>1, <2>2, <2>3
<1>2. ASSUME BootstrapInitiatorCommand PROVE WellTyped'
  <2> DEFINE key == NewKey(Initiator)
             r   == [call |-> "initiate", key |-> key]
             s   == BootstrapInitiator(key, SignedPreKey)
  <2>1. IsSession(s)
    BY <1>0, KeyTypes, BootstrapSound
  <2>2. r \in Result
    BY <1>0, KeyTypes DEF Result
  <2>3. /\ SaveThenReturn(Initiator, s, r)
        /\ bootstraps' = [bootstraps EXCEPT ![Initiator] = @ + 1] /\ Generate(Initiator)
        /\ UNCHANGED <<file, initials, log, opened, consumed, crashes>>
    BY <1>2 DEF BootstrapInitiatorCommand
  <2> HIDE DEF s, r
  <2> QED  BY <1>0, <1>1, <2>1, <2>2, <2>3, CommandWellTyped
<1>3. ASSUME NEW key \in initials, BootstrapResponderCommand(key) PROVE WellTyped'
  <2> DEFINE r == [call |-> "respond"]
             s == BootstrapResponder(SignedPreKey, key)
  <2>1. key \in RatchetKey
    BY DEF WellTyped, TypeOK
  <2>2. IsSession(s)
    BY <2>1, KeyTypes, BootstrapSound
  <2>3. r \in Result
    BY DEF Result
  <2>4. /\ SaveThenReturn(Responder, s, r)
        /\ bootstraps' = [bootstraps EXCEPT ![Responder] = @ + 1]
        /\ UNCHANGED <<file, serial, initials, log, opened, consumed, crashes>>
    BY <1>3 DEF BootstrapResponderCommand
  <2> HIDE DEF s, r
  <2> QED  BY <1>0, <1>1, <2>2, <2>3, <2>4, CommandWellTyped
<1>4. ASSUME NEW p \in Party, EncryptMessage(p) PROVE WellTyped'
  <2> DEFINE new == Encrypt(file[p], NewKey(p))
             r   == [call |-> "encrypt", envelope |-> new.envelope]
  <2>1. CanLoad(p)
    BY <1>4 DEF EncryptMessage
  <2>2. IsSession(new.session) /\ new.envelope \in Envelope
    BY <2>1, KeyTypes, LoadedSession, EncryptSound
  <2>3. r \in Result
    BY <2>2 DEF Result
  <2>4. /\ SaveThenReturn(p, new.session, r)
        /\ serial' \in [Party -> Nat \ {0}]
        /\ UNCHANGED <<file, initials, log, opened, consumed, bootstraps, crashes>>
    BY <1>1, <1>4 DEF EncryptMessage
  <2> HIDE DEF new, r
  <2> QED  BY <1>1, <2>2, <2>3, <2>4, CommandWellTyped
<1>5. ASSUME NEW p \in Party, NEW m \in 1 .. Len(log[Peer(p)]), DecryptMessage(p, m)
      PROVE  WellTyped'
  <2> DEFINE new == Decrypt(file[p], log[Peer(p)][m])
             r   == [call |-> "decrypt", message |-> m]
  <2>1. CanLoad(p)
    BY <1>5 DEF DecryptMessage
  <2>2. log[Peer(p)][m] \in Envelope /\ m \in Nat \ {0}
    <3>1. log[Peer(p)] \in Seq(Envelope)
      BY PeerFacts DEF WellTyped, TypeOK
    <3> QED  BY <3>1
  <2>3. IsSession(new.session)
    BY <2>1, <2>2, LoadedSession, DecryptSound
  <2>4. r \in Result
    BY <2>2 DEF Result
  <2>5. /\ SaveThenReturn(p, new.session, r)
        /\ UNCHANGED <<file, serial, initials, log, opened, consumed, bootstraps, crashes>>
    BY <1>5 DEF DecryptMessage
  <2> HIDE DEF new, r
  <2> QED  BY <1>1, <2>3, <2>4, <2>5, CommandWellTyped
<1> QED  BY <1>2, <1>3, <1>4, <1>5

(* The store's remove, its rename and a crash move or drop a session.      *)
LEMMA StoreWellTyped ==
  ASSUME WellTyped, NEW p \in Party, RemoveOld(p) \/ Rename(p) \/ Crash(p)
  PROVE  WellTyped'
<1>1. CASE RemoveOld(p)
  <2>1. /\ step' = [step EXCEPT ![p] = "renaming"] /\ step[p] = "replacing"
        /\ file' = [file EXCEPT ![p] = NoSession]
        /\ UNCHANGED <<next, result, serial, initials, log, opened, consumed, bootstraps, crashes>>
    BY <1>1 DEF RemoveOld
  <2>2. step' \in [Party -> {"idle", "replacing", "renaming", "returning"}] /\ DOMAIN file' = Party
    BY <2>1 DEF WellTyped, TypeOK
  <2>3. ASSUME NEW q \in Party
        PROVE  /\ file'[q] # NoSession => IsSession(file'[q])
               /\ next'[q] # NoSession => IsSession(next'[q])
               /\ next'[q] # NoSession <=> step'[q] \in {"replacing", "renaming"}
               /\ result'[q] # NoResult <=> step'[q] # "idle"
    BY <2>1 DEF WellTyped, TypeOK
  <2> QED  BY <2>1, <2>2, <2>3 DEF WellTyped, TypeOK
<1>2. CASE Rename(p)
  <2>1. /\ step' = [step EXCEPT ![p] = "returning"] /\ step[p] = "renaming"
        /\ file' = [file EXCEPT ![p] = next[p]]
        /\ next' = [next EXCEPT ![p] = NoSession]
        /\ UNCHANGED <<result, serial, initials, log, opened, bootstraps, crashes>>
    BY <1>2 DEF Rename
  <2>2. /\ step' \in [Party -> {"idle", "replacing", "renaming", "returning"}]
        /\ DOMAIN file' = Party /\ DOMAIN next' = Party
    BY <2>1 DEF WellTyped, TypeOK
  <2>3. ASSUME NEW q \in Party
        PROVE  /\ file'[q] # NoSession => IsSession(file'[q])
               /\ next'[q] # NoSession => IsSession(next'[q])
               /\ next'[q] # NoSession <=> step'[q] \in {"replacing", "renaming"}
               /\ result'[q] # NoResult <=> step'[q] # "idle"
    BY <2>1 DEF WellTyped, TypeOK
  <2>4. consumed' \in [Party -> SUBSET (Nat \ {0})]
    <3>1. result[p] \in Result \cup {NoResult} /\ consumed \in [Party -> SUBSET (Nat \ {0})]
      BY DEF WellTyped, TypeOK
    <3>2. CASE result[p].call = "decrypt"
      <4>1. result[p].message \in Nat \ {0}
        BY <3>1, <3>2, ResultFields
      <4>2. consumed' = [consumed EXCEPT ![p] = @ \cup {result[p].message}]
        BY <1>2, <3>2 DEF Rename
      <4> QED  BY <3>1, <4>1, <4>2
    <3>3. CASE result[p].call # "decrypt"
      BY <1>2, <3>1, <3>3 DEF Rename
    <3> QED  BY <3>2, <3>3
  <2> QED  BY <2>1, <2>2, <2>3, <2>4 DEF WellTyped, TypeOK
<1>3. CASE Crash(p)
  <2>1. /\ step' = [step EXCEPT ![p] = "idle"]
        /\ next' = [next EXCEPT ![p] = NoSession]
        /\ result' = [result EXCEPT ![p] = NoResult]
        /\ crashes' = [crashes EXCEPT ![p] = @ + 1]
        /\ UNCHANGED <<file, serial, initials, log, opened, consumed, bootstraps>>
    BY <1>3 DEF Crash
  <2>2. /\ step' \in [Party -> {"idle", "replacing", "renaming", "returning"}]
        /\ result' \in [Party -> Result \cup {NoResult}]
        /\ crashes' \in [Party -> Nat] /\ DOMAIN next' = Party
    BY <2>1 DEF WellTyped, TypeOK
  <2>3. ASSUME NEW q \in Party
        PROVE  /\ file'[q] # NoSession => IsSession(file'[q])
               /\ next'[q] # NoSession => IsSession(next'[q])
               /\ next'[q] # NoSession <=> step'[q] \in {"replacing", "renaming"}
               /\ result'[q] # NoResult <=> step'[q] # "idle"
    BY <2>1 DEF WellTyped, TypeOK
  <2> QED  BY <2>1, <2>2, <2>3 DEF WellTyped, TypeOK
<1> QED  BY <1>1, <1>2, <1>3

(* One more in a sequence of counts.                                       *)
OneMore(f, m) == [f EXCEPT ![m] = f[m] + 1]

LEMMA OneMoreType ==
  ASSUME NEW f \in Seq(Nat), NEW m
  PROVE  /\ OneMore(f, m) \in Seq(Nat) /\ Len(OneMore(f, m)) = Len(f)
         /\ DOMAIN OneMore(f, m) = DOMAIN f
         /\ m \in DOMAIN f => OneMore(f, m)[m] = f[m] + 1
         /\ \A i \in DOMAIN f : i # m => OneMore(f, m)[i] = f[i]
<1>1. f \in [1 .. Len(f) -> Nat] /\ Len(f) \in Nat
  OBVIOUS
<1>2. OneMore(f, m) \in [1 .. Len(f) -> Nat]
  <2>1. \A i \in 1 .. Len(f) : OneMore(f, m)[i] \in Nat
    BY <1>1 DEF OneMore
  <2> QED  BY <1>1, <2>1 DEF OneMore
<1>3. OneMore(f, m) \in Seq(Nat) /\ Len(OneMore(f, m)) = Len(f)
  BY <1>1, <1>2
<1> QED  BY <1>1, <1>2, <1>3 DEF OneMore

(* What the log and the counts of the peer become when a result is         *)
(* returned.                                                               *)
LEMMA ReturnEffect ==
  ASSUME WellTyped, NEW p \in Party, Return(p)
  PROVE  LET q == Peer(p)
             r == result[p]
         IN /\ step[p] = "returning" /\ r \in Result /\ next[p] = NoSession
            /\ step' = [step EXCEPT ![p] = "idle"]
            /\ result' = [result EXCEPT ![p] = NoResult]
            /\ UNCHANGED <<file, next, serial, consumed, bootstraps, crashes>>
            /\ r.call = "initiate" => initials' = initials \cup {r.key}
            /\ r.call # "initiate" => initials' = initials
            /\ r.call = "encrypt" => /\ r.envelope \in Envelope
                                     /\ log' = [log EXCEPT ![p] = Append(@, r.envelope)]
                                     /\ opened' = [opened EXCEPT ![q] = Append(@, 0)]
            /\ r.call # "encrypt" => log' = log
            /\ r.call = "decrypt" =>
                 /\ r.message \in Nat \ {0}
                 /\ opened' = [opened EXCEPT ![p] = OneMore(opened[p], r.message)]
            /\ r.call \notin {"encrypt", "decrypt"} => opened' = opened
<1>1. step[p] = "returning"
  BY DEF Return
<1>2. result[p] \in Result /\ next[p] = NoSession
  BY <1>1 DEF WellTyped, TypeOK
<1>3. ASSUME result[p].call = "decrypt"
      PROVE  opened' = [opened EXCEPT ![p] = OneMore(opened[p], result[p].message)]
  BY <1>3 DEF Return, OneMore
<1>4. ASSUME result[p].call = "encrypt"
      PROVE  opened' = [opened EXCEPT ![Peer(p)] = Append(@, 0)]
  BY <1>4 DEF Return
<1>5. ASSUME result[p].call \notin {"encrypt", "decrypt"} PROVE opened' = opened
  BY <1>5 DEF Return
<1> QED  BY <1>1, <1>2, <1>3, <1>4, <1>5, ResultFields DEF Return

LEMMA ReturnWellTyped ==
  ASSUME WellTyped, NEW p \in Party, Return(p)
  PROVE  WellTyped'
<1> DEFINE q == Peer(p)
           r == result[p]
<1>1. /\ step[p] = "returning" /\ r \in Result /\ next[p] = NoSession
      /\ step' = [step EXCEPT ![p] = "idle"]
      /\ result' = [result EXCEPT ![p] = NoResult]
      /\ UNCHANGED <<file, next, serial, consumed, bootstraps, crashes>>
      /\ r.call = "initiate" => initials' = initials \cup {r.key} /\ r.key \in RatchetKey
      /\ r.call # "initiate" => initials' = initials
      /\ r.call = "encrypt" => /\ r.envelope \in Envelope
                               /\ log' = [log EXCEPT ![p] = Append(@, r.envelope)]
                               /\ opened' = [opened EXCEPT ![q] = Append(@, 0)]
      /\ r.call # "encrypt" => log' = log
      /\ r.call = "decrypt" =>
           /\ r.message \in Nat \ {0}
           /\ opened' = [opened EXCEPT ![p] = OneMore(opened[p], r.message)]
      /\ r.call \notin {"encrypt", "decrypt"} => opened' = opened
  BY ReturnEffect, ResultFields
<1>2. q \in Party /\ q # p /\ Peer(q) = p /\ \A x \in Party : x = p \/ x = q
  BY PeerFacts
<1> HIDE DEF q, r
<1>3. /\ step' \in [Party -> {"idle", "replacing", "renaming", "returning"}]
      /\ result' \in [Party -> Result \cup {NoResult}]
      /\ initials' \subseteq RatchetKey
  BY <1>1 DEF WellTyped, TypeOK
<1>4. ASSUME NEW x \in Party
      PROVE  /\ file'[x] # NoSession => IsSession(file'[x])
             /\ next'[x] # NoSession => IsSession(next'[x])
             /\ next'[x] # NoSession <=> step'[x] \in {"replacing", "renaming"}
             /\ result'[x] # NoResult <=> step'[x] # "idle"
  BY <1>1 DEF WellTyped, TypeOK
<1>5. log' \in [Party -> Seq(Envelope)]
  <2>1. log \in [Party -> Seq(Envelope)]
    BY DEF WellTyped, TypeOK
  <2>2. CASE r.call = "encrypt"
    <3>1. Append(log[p], r.envelope) \in Seq(Envelope)
      BY <1>1, <2>1, <2>2
    <3> QED  BY <1>1, <2>1, <2>2, <3>1
  <2> QED  BY <1>1, <2>1, <2>2
<1>6. opened' \in [Party -> Seq(Nat)] /\ \A x \in Party : Len(opened'[x]) = Len(log'[Peer(x)])
  <2>1. /\ opened \in [Party -> Seq(Nat)] /\ log \in [Party -> Seq(Envelope)]
        /\ \A x \in Party : Len(opened[x]) = Len(log[Peer(x)])
    BY DEF WellTyped, TypeOK
  <2>2. CASE r.call = "encrypt"
    <3>1. /\ opened'[q] = Append(opened[q], 0) /\ opened'[p] = opened[p]
          /\ log'[p] = Append(log[p], r.envelope) /\ log'[q] = log[q]
      BY <1>1, <1>2, <2>1, <2>2
    <3>2. opened' \in [Party -> Seq(Nat)]
      <4>1. Append(opened[q], 0) \in Seq(Nat)
        BY <1>2, <2>1
      <4> QED  BY <1>1, <1>2, <2>1, <2>2, <4>1
    <3>3. Len(opened'[q]) = Len(log'[p]) /\ Len(opened'[p]) = Len(log'[q])
      <4>1. /\ opened[q] \in Seq(Nat) /\ log[p] \in Seq(Envelope)
            /\ Len(opened[q]) = Len(log[p]) /\ Len(opened[p]) = Len(log[q])
        BY <1>2, <2>1 DEF q
      <4> QED  BY <1>1, <2>2, <3>1, <4>1
    <3> QED  BY <1>2, <3>2, <3>3 DEF q
  <2>3. CASE r.call = "decrypt"
    <3> DEFINE f == OneMore(opened[p], r.message)
    <3>1. opened[p] \in Seq(Nat)
      BY <2>1
    <3>2. f \in Seq(Nat) /\ Len(f) = Len(opened[p])
      BY <3>1, OneMoreType
    <3>3. opened' = [opened EXCEPT ![p] = f] /\ log' = log
      BY <1>1, <2>3
    <3> HIDE DEF f
    <3> QED  BY <2>1, <3>2, <3>3
  <2>4. CASE r.call \notin {"encrypt", "decrypt"}
    BY <1>1, <2>1, <2>4
  <2> QED  BY <2>2, <2>3, <2>4
<1> QED  BY <1>1, <1>3, <1>4, <1>5, <1>6 DEF WellTyped, TypeOK

LEMMA NextWellTyped == WellTyped /\ [Next]_vars => WellTyped'
<1> SUFFICES ASSUME WellTyped, [Next]_vars PROVE WellTyped'
  OBVIOUS
<1>1. CASE UNCHANGED vars
  BY <1>1 DEF vars, WellTyped, TypeOK
<1> QED  BY <1>1, CommandsWellTyped, StoreWellTyped, ReturnWellTyped DEF Next

LEMMA AlwaysWellTyped == Spec => []WellTyped
BY InitWellTyped, NextWellTyped, PTL DEF Spec

(* What is on disk or about to be saved is a well-formed session, the      *)
(* store saves exactly while a command has something to save, and the      *)
(* counts of plaintexts match the messages: for any limit, any bounds and  *)
(* whenever the process dies.                                              *)
THEOREM TypeCorrect == Spec => []TypeOK
<1>1. WellTyped => TypeOK
  BY DEF WellTyped
<1> QED  BY <1>1, AlwaysWellTyped, PTL

-----------------------------------------------------------------------------
(* Part two: what an end holds.                                            *)

(* The sessions an end has, on disk or about to be saved, and the one the  *)
(* running command leaves behind.                                          *)
Held(p)  == {file[p], next[p]} \ {NoSession}
Saved(p) == IF step[p] = "returning" THEN file[p] ELSE next[p]

LEMMA HeldSessions ==
  ASSUME WellTyped, NEW p \in Party
  PROVE  /\ \A s \in Held(p) : IsSession(s)
         /\ file[p] # NoSession => file[p] \in Held(p)
         /\ step[p] = "returning" => next[p] = NoSession
         /\ step[p] = "returning" => Held(p) \subseteq {Saved(p)}
         /\ result[p] \in Result \cup {NoResult}
BY DEF WellTyped, TypeOK, Held, Saved

(* A command that has loaded, worked and now saves holds one session more. *)
LEMMA CommandHolds ==
  ASSUME WellTyped, NEW p \in Party, NEW s, NEW r,
         IsSession(s), step[p] = "idle", SaveThenReturn(p, s, r), UNCHANGED file
  PROVE  /\ Held(p)' \subseteq Held(p) \cup {s} /\ Saved(p)' = s /\ result'[p] = r
         /\ \A x \in Party : x # p => /\ Held(x)' = Held(x) /\ Saved(x)' = Saved(x)
                                      /\ result'[x] = result[x]
<1>1. /\ step' = [step EXCEPT ![p] = IF file[p] = NoSession THEN "renaming" ELSE "replacing"]
      /\ next' = [next EXCEPT ![p] = s]
      /\ result' = [result EXCEPT ![p] = r]
      /\ file' = file
  BY DEF SaveThenReturn
<1>2. /\ DOMAIN step = Party /\ DOMAIN next = Party /\ DOMAIN result = Party
  BY DEF WellTyped, TypeOK
<1> QED  BY <1>1, <1>2 DEF Held, Saved

(* The store, a return and a crash only drop sessions and results.         *)
LEMMA OtherStepsHold ==
  ASSUME WellTyped, NEW p \in Party, RemoveOld(p) \/ Rename(p) \/ Return(p) \/ Crash(p)
  PROVE  \A x \in Party : /\ Held(x)' \subseteq Held(x)
                          /\ result'[x] \in {result[x], NoResult}
                          /\ result'[x] # NoResult => Saved(x)' = Saved(x)
<1>0. /\ DOMAIN step = Party /\ DOMAIN next = Party /\ DOMAIN result = Party
      /\ DOMAIN file = Party
  BY DEF WellTyped, TypeOK
<1>1. CASE RemoveOld(p)
  BY <1>0, <1>1 DEF RemoveOld, Held, Saved
<1>2. CASE Rename(p)
  BY <1>0, <1>2 DEF Rename, Held, Saved
<1>3. CASE Return(p)
  BY <1>0, <1>3 DEF Return, Held, Saved
<1>4. CASE Crash(p)
  BY <1>0, <1>4 DEF Crash, Held, Saved
<1> QED  BY <1>1, <1>2, <1>3, <1>4

-----------------------------------------------------------------------------
(* Part three: message keys.                                               *)

(* The ratchet keys an end has generated so far.                           *)
Generated(p) == {p} \X (0 .. serial[p] - 1)

(* The chains an end has sealed messages with, or would seal the next with.*)
Chains(p) ==
  {<<log[p][i].key, log[p][i].mk.root>> : i \in DOMAIN log[p]}
    \cup {<<s.local, s.sendCK.root>> : s \in {x \in Held(p) : x.sendCK # None}}

(* The keys a session is made of were generated by their owners, and so    *)
(* were those of the initial messages.                                     *)
KeysWereGenerated ==
  /\ \A p \in Party : \A s \in Held(p) :
       s.local \in Generated(p) /\ s.remote \in Generated(Peer(p))
  /\ initials \subseteq Generated(Initiator)
  /\ \A p \in Party : result[p].call = "initiate" =>
       p = Initiator /\ result[p].key \in Generated(p)

(* A chain starts where its key meets a ratchet key of the peer.           *)
ChainsArePaired ==
  \A p \in Party : \A c \in Chains(p) :
    c[1] \in Generated(p) /\ \E r \in Generated(Peer(p)) : Last(c[2]) = {c[1], r}

(* The two ends never start chains from the same two keys.                 *)
ChainsNeverMeet ==
  \A p \in Party : \A c \in Chains(p), d \in Chains(Peer(p)) : Last(c[2]) # Last(d[2])

(* Session s would number its next message beyond every released message   *)
(* of its ratchet key.                                                     *)
Counted(p, s) ==
  s.sendCK # None =>
    /\ s.sendCK.n = s.sent
    /\ \A i \in DOMAIN log[p] : log[p][i].key = s.local => log[p][i].n < s.sent

ChainsAreCounted ==
  \A p \in Party : /\ \A s \in Held(p) : Counted(p, s)
                   /\ \A i \in DOMAIN log[p] : log[p][i].mk.n = log[p][i].n

(* Envelope e was sealed by the session s that is saved before e is        *)
(* released, and nothing released has its number.                          *)
SealedBy(p, e, s) ==
  /\ s # NoSession /\ s.local = e.key /\ s.sendCK # None
  /\ s.sendCK.root = e.mk.root /\ s.sent = e.n + 1 /\ e.mk.n = e.n
  /\ \A i \in DOMAIN log[p] : log[p][i].key = e.key => log[p][i].n < e.n

EnvelopesAreSaved ==
  \A p \in Party : result[p].call = "encrypt" =>
    SealedBy(p, result[p].envelope, Saved(p))

(* An end numbers the messages of one ratchet key without repetition.      *)
NumbersAreDistinct ==
  \A p \in Party : \A i, j \in DOMAIN log[p] :
    log[p][i].key = log[p][j].key /\ log[p][i].n = log[p][j].n => i = j

KeysAreFresh ==
  /\ WellTyped
  /\ KeysWereGenerated /\ ChainsArePaired /\ ChainsNeverMeet
  /\ ChainsAreCounted /\ EnvelopesAreSaved /\ NumbersAreDistinct

(* The first chain starts where the two keys of the bootstrap meet.        *)
LEMMA LastOfRoot ==
  ASSUME NEW root \in RootKey, NEW a \in RatchetKey, NEW b \in RatchetKey
  PROVE  Last(FirstChainKey(DeriveRootKey(root, DiffieHellman(a, b))).root) = {a, b}
<1>1. root \in Seq(DHOutput) /\ {a, b} \in DHOutput
  BY DEF RootKey, DHOutput
<1>2. Last(Append(root, {a, b})) = {a, b}
  BY <1>1 DEF Last
<1> QED  BY <1>2 DEF FirstChainKey, DeriveRootKey, DiffieHellman

LEMMA InitKeysAreFresh == Init => KeysAreFresh
<1> SUFFICES ASSUME Init PROVE KeysAreFresh
  OBVIOUS
<1>1. \A p \in Party : /\ Held(p) = {} /\ log[p] = <<>> /\ result[p].call = "none"
  BY DEF Init, Held, NoResult
<1>2. \A p \in Party : Chains(p) = {}
  BY <1>1 DEF Chains
<1>3. initials = {}
  BY DEF Init
<1> QED  BY <1>1, <1>2, <1>3, InitWellTyped, PeerFacts
         DEF KeysAreFresh, KeysWereGenerated, ChainsArePaired, ChainsNeverMeet,
             ChainsAreCounted, EnvelopesAreSaved, NumbersAreDistinct

(* The chains after a command, and after any other step.                   *)
LEMMA CommandChains ==
  ASSUME WellTyped, NEW p \in Party, NEW s, NEW r,
         IsSession(s), step[p] = "idle", SaveThenReturn(p, s, r), UNCHANGED <<file, log>>
  PROVE  /\ \A d \in Chains(p)' : \/ d \in Chains(p)
                                  \/ s.sendCK # None /\ d = <<s.local, s.sendCK.root>>
         /\ Chains(Peer(p))' = Chains(Peer(p))
<1> DEFINE q == Peer(p)
<1>1. q \in Party /\ q # p
  BY PeerFacts
<1>2. Held(p)' \subseteq Held(p) \cup {s} /\ Held(q)' = Held(q)
  BY <1>1, CommandHolds
<1>3. log' = log
  OBVIOUS
<1> HIDE DEF q
<1>4. ASSUME NEW d \in Chains(p)'
      PROVE  d \in Chains(p) \/ (s.sendCK # None /\ d = <<s.local, s.sendCK.root>>)
  <2>1. CASE \E i \in DOMAIN log[p] : d = <<log[p][i].key, log[p][i].mk.root>>
    BY <2>1 DEF Chains
  <2>2. CASE \E t \in Held(p)' : t.sendCK # None /\ d = <<t.local, t.sendCK.root>>
    BY <1>2, <2>2 DEF Chains
  <2> QED  BY <1>3, <1>4, <2>1, <2>2 DEF Chains
<1>5. Chains(q)' = Chains(q)
  BY <1>2, <1>3 DEF Chains
<1> QED  BY <1>4, <1>5 DEF q

LEMMA ReleaseLogs ==
  ASSUME WellTyped, NEW p \in Party, Return(p), result[p].call = "encrypt"
  PROVE  LET k == Len(log[p]) + 1
         IN /\ log'[Peer(p)] = log[Peer(p)]
            /\ DOMAIN log'[p] = DOMAIN log[p] \cup {k} /\ k \notin DOMAIN log[p]
            /\ log'[p][k] = result[p].envelope /\ result[p].envelope \in Envelope
            /\ \A i \in DOMAIN log[p] : log'[p][i] = log[p][i]
<1> DEFINE e == result[p].envelope
<1>1. e \in Envelope /\ log' = [log EXCEPT ![p] = Append(@, e)]
  BY ReturnEffect
<1> HIDE DEF e
<1>2. log \in [Party -> Seq(Envelope)] /\ Peer(p) \in Party /\ Peer(p) # p
  BY PeerFacts DEF WellTyped, TypeOK
<1>3. /\ log'[Peer(p)] = log[Peer(p)] /\ log'[p] = Append(log[p], e)
      /\ log[p] \in Seq(Envelope)
  BY <1>1, <1>2
<1> QED  BY <1>1, <1>3 DEF e

LEMMA OtherStepsAddNoChain ==
  ASSUME KeysAreFresh, NEW p \in Party, RemoveOld(p) \/ Rename(p) \/ Return(p) \/ Crash(p)
  PROVE  \A x \in Party : Chains(x)' \subseteq Chains(x) /\ Generated(x)' = Generated(x)
<1>0. WellTyped
  BY DEF KeysAreFresh
<1>1. \A x \in Party : Held(x)' \subseteq Held(x)
  BY <1>0, OtherStepsHold
<1>2. serial' = serial
  BY DEF RemoveOld, Rename, Return, Crash
<1>3. CASE log' = log
  BY <1>1, <1>2, <1>3 DEF Chains, Generated
<1>4. CASE Return(p) /\ result[p].call = "encrypt"
  <2> DEFINE e == result[p].envelope
             s == Saved(p)
  <2>1. SealedBy(p, e, s) /\ step[p] = "returning"
    BY <1>0, <1>4, ReturnEffect DEF KeysAreFresh, EnvelopesAreSaved
  <2>2. <<e.key, e.mk.root>> \in Chains(p)
    <3>1. s \in Held(p)
      BY <2>1 DEF Held, Saved, SealedBy
    <3> HIDE DEF e, s
    <3> QED  BY <2>1, <3>1 DEF SealedBy, Chains
  <2>3. /\ log'[Peer(p)] = log[Peer(p)]
        /\ \A i \in DOMAIN log'[p] : \/ i \in DOMAIN log[p] /\ log'[p][i] = log[p][i]
                                     \/ log'[p][i] = e
    BY <1>0, <1>4, ReleaseLogs
  <2> HIDE DEF e, s
  <2>4. ASSUME NEW d \in Chains(p)' PROVE d \in Chains(p)
    <3>1. CASE \E i \in DOMAIN log'[p] : d = <<log'[p][i].key, log'[p][i].mk.root>>
      BY <3>1, <2>2, <2>3 DEF Chains
    <3>2. CASE \E t \in Held(p)' : t.sendCK # None /\ d = <<t.local, t.sendCK.root>>
      BY <3>2, <1>1 DEF Chains
    <3> QED  BY <2>4, <3>1, <3>2 DEF Chains
  <2>5. Chains(Peer(p))' \subseteq Chains(Peer(p))
    BY <1>1, <2>3, PeerFacts DEF Chains
  <2> QED  BY <1>2, <2>4, <2>5, PeerFacts DEF Generated
<1> QED  BY <1>0, <1>3, <1>4, ReturnEffect DEF RemoveOld, Rename, Crash

(* A command saves session s and then returns r.  Either s sends on a chain*)
(* the end had, or it does not send, or it opens a chain with a key that   *)
(* nobody has seen.                                                        *)
LEMMA CommandKeysAreFresh ==
  ASSUME KeysAreFresh, WellTyped', NEW p \in Party, NEW s, NEW r,
         IsSession(s), step[p] = "idle", SaveThenReturn(p, s, r),
         UNCHANGED <<file, log, initials>>,
         \/ serial' = serial
         \/ serial' = [serial EXCEPT ![p] = @ + 1],
         s.local \in Generated(p)', s.remote \in Generated(Peer(p))',
         Counted(p, s),
         s.sendCK # None =>
           \/ <<s.local, s.sendCK.root>> \in Chains(p)
           \/ /\ s.local = NewKey(p) /\ NewKey(p) \notin Generated(p)
              /\ Last(s.sendCK.root) = {NewKey(p), s.remote},
         r.call = "initiate" => p = Initiator /\ r.key \in Generated(p)',
         r.call = "encrypt" => SealedBy(p, r.envelope, s)
  PROVE  KeysAreFresh'
<1> DEFINE q == Peer(p)
           c == <<s.local, s.sendCK.root>>
<1>1. WellTyped
  BY DEF KeysAreFresh
<1>2. q \in Party /\ q # p /\ Peer(q) = p /\ \A x \in Party : x = p \/ x = q
  BY PeerFacts
<1>3. /\ Held(p)' \subseteq Held(p) \cup {s} /\ Saved(p)' = s /\ result'[p] = r
      /\ \A x \in Party : x # p => /\ Held(x)' = Held(x) /\ Saved(x)' = Saved(x)
                                   /\ result'[x] = result[x]
  BY <1>1, CommandHolds
<1>4. log' = log /\ initials' = initials
  OBVIOUS
<1>5. /\ \A x \in Party : Generated(x) \subseteq Generated(x)'
      /\ Generated(q)' = Generated(q)
  <2>1. serial \in [Party -> Nat \ {0}]
    BY <1>1 DEF WellTyped, TypeOK
  <2>2. \A x \in Party : serial[x] \in Nat /\ serial'[x] \in Nat /\ serial[x] <= serial'[x]
    BY <2>1
  <2>3. serial'[q] = serial[q]
    BY <1>2, <2>1
  <2> QED  BY <2>2, <2>3 DEF Generated
<1> HIDE DEF q, c
<1>6. /\ Chains(p)' \subseteq Chains(p) \cup (IF s.sendCK = None THEN {} ELSE {c})
      /\ Chains(q)' = Chains(q)
  BY <1>1, CommandChains DEF c, q
<1>7. s.sendCK # None => \/ c \in Chains(p)
                         \/ /\ c[1] = NewKey(p) /\ NewKey(p) \notin Generated(p)
                            /\ Last(c[2]) = {NewKey(p), s.remote}
  BY DEF c
<1>8. s.remote \in Generated(q) /\ s.local \in Generated(p)' /\ c[1] = s.local
  BY <1>5 DEF q, c
<1>9. KeysWereGenerated'
  <2>1. ASSUME NEW x \in Party, NEW t \in Held(x)'
        PROVE  t.local \in Generated(x)' /\ t.remote \in Generated(Peer(x))'
    <3>1. CASE t \in Held(x)
      BY <1>5, <3>1, PeerFacts DEF KeysAreFresh, KeysWereGenerated
    <3>2. CASE t \notin Held(x)
      BY <1>3, <3>2, <2>1
    <3> QED  BY <3>1, <3>2
  <2>2. initials' \subseteq Generated(Initiator)'
    BY <1>4, <1>5, PartyAssumption DEF KeysAreFresh, KeysWereGenerated
  <2>3. ASSUME NEW x \in Party, result'[x].call = "initiate"
        PROVE  x = Initiator /\ result'[x].key \in Generated(x)'
    BY <1>3, <1>5, <2>3 DEF KeysAreFresh, KeysWereGenerated
  <2> QED  BY <2>1, <2>2, <2>3 DEF KeysWereGenerated
<1>10. ChainsArePaired'
  <2> SUFFICES ASSUME NEW x \in Party, NEW d \in Chains(x)'
               PROVE  /\ d[1] \in Generated(x)'
                      /\ \E k \in Generated(Peer(x))' : Last(d[2]) = {d[1], k}
    BY DEF ChainsArePaired
  <2>1. CASE d \in Chains(x)
    <3>1. d[1] \in Generated(x) /\ \E k \in Generated(Peer(x)) : Last(d[2]) = {d[1], k}
      BY <2>1 DEF KeysAreFresh, ChainsArePaired
    <3> QED  BY <3>1, <1>5, PeerFacts
  <2>2. CASE d \notin Chains(x)
    <3>1. x = p /\ d = c /\ s.sendCK # None /\ c \notin Chains(p)
      BY <2>2, <1>2, <1>6
    <3> QED  BY <3>1, <1>5, <1>7, <1>8 DEF q
  <2> QED  BY <2>1, <2>2
<1>11. ChainsNeverMeet'
  <2>1. ASSUME NEW d \in Chains(q), s.sendCK # None PROVE Last(c[2]) # Last(d[2])
    <3>1. CASE c \in Chains(p)
      BY <3>1, <1>2 DEF KeysAreFresh, ChainsNeverMeet, q
    <3>2. CASE c \notin Chains(p)
      <4>1. PICK k \in Generated(p) : Last(d[2]) = {d[1], k}
        BY <1>2 DEF KeysAreFresh, ChainsArePaired
      <4>2. d[1] \in Generated(q)
        BY <1>2 DEF KeysAreFresh, ChainsArePaired
      <4>3. NewKey(p) # k /\ NewKey(p) # d[1]
        BY <4>1, <4>2, <3>2, <2>1, <1>2, <1>7 DEF Generated, NewKey
      <4> QED  BY <4>1, <4>3, <3>2, <2>1, <1>7
    <3> QED  BY <3>1, <3>2
  <2>2. ASSUME NEW a \in Chains(p), NEW d \in Chains(q) PROVE Last(a[2]) # Last(d[2])
    BY DEF KeysAreFresh, ChainsNeverMeet, q
  <2>3. ASSUME NEW a \in Chains(p)', NEW d \in Chains(q)' PROVE Last(a[2]) # Last(d[2])
    BY <2>1, <2>2, <1>6
  <2> QED  BY <2>3, <1>2 DEF ChainsNeverMeet, q
<1>12. ChainsAreCounted'
  <2>1. \A x \in Party : \A t : Counted(x, t)' <=> Counted(x, t)
    BY <1>4 DEF Counted
  <2>2. ASSUME NEW x \in Party, NEW t \in Held(x)' PROVE Counted(x, t)
    BY <1>3, <2>2 DEF KeysAreFresh, ChainsAreCounted
  <2> QED  BY <2>1, <2>2, <1>4 DEF KeysAreFresh, ChainsAreCounted
<1>13. EnvelopesAreSaved'
  <2>1. \A x \in Party : \A e, t : SealedBy(x, e, t)' <=> SealedBy(x, e, t)
    BY <1>4 DEF SealedBy
  <2>2. ASSUME NEW x \in Party, result'[x].call = "encrypt"
        PROVE  SealedBy(x, result'[x].envelope, Saved(x)')
    BY <1>3, <2>2 DEF KeysAreFresh, EnvelopesAreSaved
  <2> QED  BY <2>1, <2>2 DEF EnvelopesAreSaved
<1>14. NumbersAreDistinct'
  BY <1>4 DEF KeysAreFresh, NumbersAreDistinct
<1> QED  BY <1>9, <1>10, <1>11, <1>12, <1>13, <1>14 DEF KeysAreFresh

(* A key that an end draws is new to everybody.                            *)
LEMMA NewKeyIsNew ==
  ASSUME WellTyped, NEW p \in Party
  PROVE  /\ NewKey(p) \notin Generated(p) /\ NewKey(p) \in RatchetKey
         /\ Generate(p) => /\ NewKey(p) \in Generated(p)'
                           /\ serial' = [serial EXCEPT ![p] = @ + 1]
<1>1. serial \in [Party -> Nat \ {0}]
  BY DEF WellTyped, TypeOK
<1>2. serial[p] \in Nat
  BY <1>1
<1>3. Generate(p) => serial' = [serial EXCEPT ![p] = @ + 1] /\ serial'[p] = serial[p] + 1
  BY <1>1 DEF Generate
<1> QED  BY <1>2, <1>3, KeyTypes DEF NewKey, Generated

(* Generated keys stay generated.                                          *)
LEMMA GeneratedGrows ==
  ASSUME WellTyped, NEW p \in Party,
         serial' = serial \/ serial' = [serial EXCEPT ![p] = @ + 1]
  PROVE  \A x \in Party : Generated(x) \subseteq Generated(x)'
<1>1. serial \in [Party -> Nat \ {0}]
  BY DEF WellTyped, TypeOK
<1>2. \A x \in Party : serial[x] \in Nat /\ serial'[x] \in Nat /\ serial[x] <= serial'[x]
  BY <1>1
<1> QED  BY <1>2 DEF Generated

(* The signed prekey is the responder's first.                             *)
LEMMA SignedPreKeyGenerated ==
  ASSUME WellTyped
  PROVE  SignedPreKey \in Generated(Responder)
<1>1. serial[Responder] \in Nat \ {0}
  BY PartyAssumption DEF WellTyped, TypeOK
<1> QED  BY <1>1 DEF SignedPreKey, Generated

(* No envelope released so far carries a key that nobody has seen.         *)
LEMMA LogKeysGenerated ==
  ASSUME KeysAreFresh, NEW p \in Party, NEW i \in DOMAIN log[p]
  PROVE  /\ log[p][i].key \in Generated(p)
         /\ log[p][i] \in Envelope /\ log[p][i].n \in Nat
<1>1. <<log[p][i].key, log[p][i].mk.root>> \in Chains(p)
  BY DEF Chains
<1>2. log[p][i].key \in Generated(p)
  BY <1>1 DEF KeysAreFresh, ChainsArePaired
<1>3. log[p][i] \in Envelope
  <2>1. log[p] \in Seq(Envelope)
    BY DEF KeysAreFresh, WellTyped, TypeOK
  <2> QED  BY <2>1
<1> QED  BY <1>2, <1>3 DEF Envelope

LEMMA InitiateKeysAreFresh ==
  ASSUME KeysAreFresh, BootstrapInitiatorCommand
  PROVE  KeysAreFresh'
<1> DEFINE key == NewKey(Initiator)
           s   == BootstrapInitiator(key, SignedPreKey)
           r   == [call |-> "initiate", key |-> key]
<1>0. WellTyped /\ WellTyped' /\ Initiator \in Party /\ Peer(Initiator) = Responder
  BY CommandsWellTyped, PartyAssumption, PeerFacts DEF KeysAreFresh
<1>1. /\ step[Initiator] = "idle" /\ Generate(Initiator)
      /\ SaveThenReturn(Initiator, s, r)
      /\ UNCHANGED <<file, log, initials>>
  BY DEF BootstrapInitiatorCommand
<1>2. /\ key \notin Generated(Initiator) /\ key \in RatchetKey
      /\ key \in Generated(Initiator)' /\ serial' = [serial EXCEPT ![Initiator] = @ + 1]
  BY <1>0, <1>1, NewKeyIsNew
<1>3. SignedPreKey \in Generated(Responder)' /\ SignedPreKey \in RatchetKey
  BY <1>0, <1>2, GeneratedGrows, SignedPreKeyGenerated, PartyAssumption, KeyTypes
<1>4. IsSession(s)
  BY <1>2, <1>3, BootstrapSound
<1>5. /\ s.local = key /\ s.remote = SignedPreKey /\ s.sent = 0 /\ s.sendCK # None
      /\ s.sendCK = FirstChainKey(DeriveRootKey(<<>>, DiffieHellman(key, SignedPreKey)))
  <2>1. /\ s.local = key /\ s.remote = SignedPreKey /\ s.sent = 0
        /\ s.sendCK = FirstChainKey(BootstrapRoot(key, SignedPreKey))
    BY DEF BootstrapInitiator
  <2>2. BootstrapRoot(key, SignedPreKey) \in RootKey
    BY <1>4 DEF BootstrapInitiator, IsSession
  <2>3. s.sendCK # None
    BY <2>1, <2>2, ChainKeyType, NoneAssumption
  <2> QED  BY <2>1, <2>3 DEF BootstrapRoot
<1>6. Last(s.sendCK.root) = {key, SignedPreKey}
  <2>1. <<>> \in RootKey
    BY DEF RootKey
  <2> QED  BY <2>1, <1>2, <1>3, <1>5, LastOfRoot
<1>7. Counted(Initiator, s)
  <2>1. s.sendCK.n = 0
    BY <1>5 DEF FirstChainKey
  <2>2. \A i \in DOMAIN log[Initiator] : log[Initiator][i].key # key
    BY <1>0, <1>2, LogKeysGenerated
  <2> QED  BY <2>1, <2>2, <1>5 DEF Counted
<1>8. r.call = "initiate" /\ r.key = key
  OBVIOUS
<1> HIDE DEF s, r
<1> QED  BY <1>0, <1>1, <1>2, <1>3, <1>4, <1>5, <1>6, <1>7, <1>8, CommandKeysAreFresh

LEMMA RespondKeysAreFresh ==
  ASSUME KeysAreFresh, NEW key \in initials, BootstrapResponderCommand(key)
  PROVE  KeysAreFresh'
<1> DEFINE s == BootstrapResponder(SignedPreKey, key)
           r == [call |-> "respond"]
<1>0. WellTyped /\ WellTyped' /\ Responder \in Party /\ Peer(Responder) = Initiator
  BY CommandsWellTyped, PartyAssumption, PeerFacts DEF KeysAreFresh
<1>1. /\ step[Responder] = "idle" /\ SaveThenReturn(Responder, s, r)
      /\ UNCHANGED <<file, log, initials>> /\ serial' = serial
  BY DEF BootstrapResponderCommand
<1>2. key \in Generated(Initiator)' /\ SignedPreKey \in Generated(Responder)'
  <2>1. key \in Generated(Initiator)
    BY DEF KeysAreFresh, KeysWereGenerated
  <2> QED  BY <2>1, <1>0, <1>1, GeneratedGrows, SignedPreKeyGenerated, PartyAssumption
<1>3. IsSession(s)
  <2>1. key \in RatchetKey
    BY <1>0 DEF WellTyped, TypeOK
  <2> QED  BY <2>1, <1>0, KeyTypes, BootstrapSound
<1>4. s.local = SignedPreKey /\ s.remote = key /\ s.sendCK = None
  BY DEF BootstrapResponder
<1>5. Counted(Responder, s)
  BY <1>4 DEF Counted
<1>6. r.call = "respond"
  OBVIOUS
<1> HIDE DEF s, r
<1> QED  BY <1>0, <1>1, <1>2, <1>3, <1>4, <1>5, <1>6, CommandKeysAreFresh

LEMMA EncryptKeysAreFresh ==
  ASSUME KeysAreFresh, NEW p \in Party, EncryptMessage(p)
  PROVE  KeysAreFresh'
<1> DEFINE s   == file[p]
           key == NewKey(p)
           t   == EnsureSendingChain(s, key)
           u   == Encrypt(s, key).session
           e   == Encrypt(s, key).envelope
           r   == [call |-> "encrypt", envelope |-> e]
<1>0. WellTyped /\ WellTyped'
  BY CommandsWellTyped DEF KeysAreFresh
<1>1. /\ step[p] = "idle" /\ CanLoad(p) /\ SaveThenReturn(p, u, r)
      /\ IF s.sendCK = None THEN Generate(p) ELSE serial' = serial
      /\ UNCHANGED <<file, log, initials>>
  BY DEF EncryptMessage
<1>2. /\ key \notin Generated(p) /\ key \in RatchetKey
      /\ s.sendCK = None => key \in Generated(p)' /\ serial' = [serial EXCEPT ![p] = @ + 1]
  BY <1>0, <1>1, NewKeyIsNew
<1>3. IsSession(s) /\ Restorable(s) /\ s \in Held(p)
  BY <1>0, <1>1, LoadedSession, HeldSessions DEF CanLoad
<1>4. /\ IsSession(t) /\ t.remote = s.remote /\ t.sendCK # None
      /\ s.sendCK # None => t = s
      /\ s.sendCK = None =>
           /\ t.local = key /\ t.sent = 0
           /\ t.sendCK = FirstChainKey(DeriveRootKey(s.root, DiffieHellman(key, s.remote)))
  BY <1>2, <1>3, EnsureSendingChainSound
<1>5. /\ IsSession(u) /\ e \in Envelope
      /\ e.key = t.local /\ e.n = t.sent /\ e.mk = t.sendCK
      /\ u.local = t.local /\ u.remote = t.remote /\ u.sent = t.sent + 1
      /\ u.sendCK = NextChainKey(t.sendCK) /\ u.sendCK # None
  BY <1>2, <1>3, EncryptSound
<1>6. r.call = "encrypt" /\ r.envelope = e
  OBVIOUS
<1> HIDE DEF t, u, e, r
<1>7. /\ u.sendCK.root = t.sendCK.root /\ u.sendCK.n = t.sendCK.n + 1
      /\ t.sendCK.n \in Nat /\ t.sent \in Nat
  <2>1. t.sendCK \in ChainKey /\ t.sent \in Nat
    BY <1>4 DEF IsSession
  <2> QED  BY <1>5, <2>1 DEF NextChainKey, Advanced, ChainKey
<1>8. s.local \in Generated(p) /\ s.remote \in Generated(Peer(p)) /\ Counted(p, s)
  BY <1>3 DEF KeysAreFresh, KeysWereGenerated, ChainsAreCounted
<1>9. u.local \in Generated(p)' /\ u.remote \in Generated(Peer(p))'
  BY <1>0, <1>1, <1>2, <1>4, <1>5, <1>8, GeneratedGrows, PeerFacts
<1>10. \/ <<u.local, u.sendCK.root>> \in Chains(p)
       \/ u.local = key /\ key \notin Generated(p) /\ Last(u.sendCK.root) = {key, u.remote}
  <2>1. CASE s.sendCK # None
    BY <2>1, <1>3, <1>4, <1>5, <1>7 DEF Chains
  <2>2. CASE s.sendCK = None
    <3>1. s.root \in RootKey /\ s.remote \in RatchetKey
      BY <1>3 DEF IsSession
    <3> HIDE DEF key, s
    <3>2. Last(FirstChainKey(DeriveRootKey(s.root, DiffieHellman(key, s.remote))).root)
            = {key, s.remote}
      BY <1>2, <3>1, LastOfRoot
    <3> QED  BY <2>2, <3>2, <1>2, <1>4, <1>5, <1>7
  <2> QED  BY <2>1, <2>2
<1>11. t.sendCK.n = t.sent /\ \A i \in DOMAIN log[p] : log[p][i].key = t.local => log[p][i].n < t.sent
  <2>1. CASE s.sendCK # None
    BY <2>1, <1>4, <1>8 DEF Counted
  <2>2. CASE s.sendCK = None
    BY <2>2, <1>2, <1>4, LogKeysGenerated DEF FirstChainKey
  <2> QED  BY <2>1, <2>2
<1>12. Counted(p, u)
  BY <1>5, <1>7, <1>11, LogKeysGenerated DEF Counted
<1>13. SealedBy(p, e, u)
  BY <1>5, <1>7, <1>11, SomethingIsNotNothing DEF SealedBy
<1>14. serial' = serial \/ serial' = [serial EXCEPT ![p] = @ + 1]
  BY <1>1, <1>2
<1> HIDE DEF s
<1> QED  BY <1>0, <1>1, <1>5, <1>6, <1>9, <1>10, <1>12, <1>13, <1>14, CommandKeysAreFresh DEF key

LEMMA DecryptKeysAreFresh ==
  ASSUME KeysAreFresh, NEW p \in Party, NEW m \in 1 .. Len(log[Peer(p)]), DecryptMessage(p, m)
  PROVE  KeysAreFresh'
<1> DEFINE s == file[p]
           e == log[Peer(p)][m]
           u == Decrypt(s, e).session
           r == [call |-> "decrypt", message |-> m]
<1>0. WellTyped /\ WellTyped'
  BY CommandsWellTyped DEF KeysAreFresh
<1>1. /\ step[p] = "idle" /\ CanLoad(p) /\ SaveThenReturn(p, u, r)
      /\ UNCHANGED <<file, log, initials>> /\ serial' = serial
  BY DEF DecryptMessage
<1>2. IsSession(s) /\ Restorable(s) /\ s \in Held(p)
  BY <1>0, <1>1, LoadedSession, HeldSessions DEF CanLoad
<1>3. e \in Envelope /\ e.key \in Generated(Peer(p))
  <2>1. log[Peer(p)] \in Seq(Envelope) /\ Peer(p) \in Party
    BY <1>0, PeerFacts DEF WellTyped, TypeOK
  <2>2. m \in DOMAIN log[Peer(p)]
    BY <2>1
  <2> QED  BY <2>1, <2>2, LogKeysGenerated
<1>4. /\ IsSession(u)
      /\ KeepsSending(s, u) \/ ClosesSending(s, u, e.key)
  BY <1>2, <1>3, DecryptSound
<1>5. r.call = "decrypt"
  OBVIOUS
<1> HIDE DEF u, r, e
<1>6. s.local \in Generated(p) /\ s.remote \in Generated(Peer(p)) /\ Counted(p, s)
  BY <1>2 DEF KeysAreFresh, KeysWereGenerated, ChainsAreCounted
<1>7. u.local \in Generated(p)' /\ u.remote \in Generated(Peer(p))'
  BY <1>0, <1>1, <1>3, <1>4, <1>6, GeneratedGrows, PeerFacts DEF KeepsSending, ClosesSending
<1>8. Counted(p, u)
  BY <1>4, <1>6 DEF Counted, KeepsSending, ClosesSending
<1>9. u.sendCK # None => <<u.local, u.sendCK.root>> \in Chains(p)
  BY <1>2, <1>4 DEF Chains, KeepsSending, ClosesSending
<1> HIDE DEF s
<1> QED  BY <1>0, <1>1, <1>4, <1>5, <1>7, <1>8, <1>9, CommandKeysAreFresh

(* A step that releases nothing and holds no more than before.             *)
LEMMA DroppingKeepsKeysFresh ==
  ASSUME KeysAreFresh, WellTyped', UNCHANGED <<serial, log>>,
         initials' \subseteq Generated(Initiator),
         \A x \in Party : /\ Held(x)' \subseteq Held(x)
                          /\ result'[x] \in {result[x], NoResult}
                          /\ result'[x] # NoResult => Saved(x)' = Saved(x)
  PROVE  KeysAreFresh'
<1>1. \A x : Generated(x)' = Generated(x)
  BY DEF Generated
<1>2. \A x \in Party : Chains(x)' \subseteq Chains(x)
  BY DEF Chains
<1>3. NoResult.call = "none"
  BY DEF NoResult
<1>4. KeysWereGenerated'
  BY <1>1, <1>3, PeerFacts DEF KeysAreFresh, KeysWereGenerated
<1>5. ChainsArePaired' /\ ChainsNeverMeet'
  BY <1>1, <1>2, PeerFacts DEF KeysAreFresh, ChainsArePaired, ChainsNeverMeet
<1>6. ChainsAreCounted'
  BY DEF KeysAreFresh, ChainsAreCounted, Counted
<1>7. EnvelopesAreSaved'
  <2>1. ASSUME NEW x \in Party, result'[x].call = "encrypt"
        PROVE  result'[x] = result[x] /\ Saved(x)' = Saved(x)
    BY <2>1, <1>3
  <2> QED  BY <2>1 DEF KeysAreFresh, EnvelopesAreSaved, SealedBy
<1>8. NumbersAreDistinct'
  BY DEF KeysAreFresh, NumbersAreDistinct
<1> QED  BY <1>4, <1>5, <1>6, <1>7, <1>8 DEF KeysAreFresh

(* An envelope is released when the session that sealed it is all its end  *)
(* holds: its chain was held before, and its number is beyond the others.  *)
LEMMA ReleaseKeepsKeysFresh ==
  ASSUME KeysAreFresh, NEW p \in Party, Return(p), result[p].call = "encrypt"
  PROVE  KeysAreFresh'
<1> DEFINE e == result[p].envelope
           q == Peer(p)
           s == Saved(p)
<1>0. WellTyped /\ WellTyped'
  BY ReturnWellTyped DEF KeysAreFresh
<1>1. /\ UNCHANGED <<serial, initials>> /\ e \in Envelope /\ step[p] = "returning"
      /\ log' = [log EXCEPT ![p] = Append(@, e)] /\ result' = [result EXCEPT ![p] = NoResult]
  BY <1>0, ReturnEffect
<1>2. q \in Party /\ q # p /\ Peer(q) = p /\ \A x \in Party : x = p \/ x = q
  BY PeerFacts
<1>3. /\ \A x \in Party : /\ Held(x)' \subseteq Held(x)
                          /\ result'[x] # NoResult => result'[x] = result[x] /\ Saved(x)' = Saved(x)
  BY <1>0, OtherStepsHold
<1>4. Held(p) \subseteq {s} /\ SealedBy(p, e, s)
  BY <1>0, <1>1, HeldSessions DEF KeysAreFresh, EnvelopesAreSaved
<1>5. s \in Held(p) /\ IsSession(s) /\ Counted(p, s)
  <2>1. s \in Held(p)
    BY <1>1, <1>4 DEF Held, Saved, SealedBy
  <2> QED  BY <2>1, <1>0, HeldSessions DEF KeysAreFresh, ChainsAreCounted
<1> HIDE DEF e, q, s
<1>6. /\ log \in [Party -> Seq(Envelope)] /\ DOMAIN result = Party
  BY <1>0 DEF WellTyped, TypeOK
<1>7. /\ log'[q] = log[q] /\ log'[p] = Append(log[p], e) /\ log[p] \in Seq(Envelope)
  BY <1>1, <1>2, <1>6
<1>8. /\ DOMAIN log'[p] = DOMAIN log[p] \cup {Len(log[p]) + 1}
      /\ log'[p][Len(log[p]) + 1] = e
      /\ \A i \in DOMAIN log[p] : log'[p][i] = log[p][i]
  BY <1>1, <1>7
<1>9. \A x \in Party : Generated(x)' = Generated(x) /\ Chains(x)' \subseteq Chains(x)
  BY OtherStepsAddNoChain
<1>12. KeysWereGenerated'
  BY <1>1, <1>3, <1>9, PeerFacts, PartyAssumption
  DEF KeysAreFresh, KeysWereGenerated, NoResult
<1>13. ChainsArePaired' /\ ChainsNeverMeet'
  BY <1>9, PeerFacts DEF KeysAreFresh, ChainsArePaired, ChainsNeverMeet
<1>14. \A i \in DOMAIN log[p] : log[p][i].n \in Nat
  BY LogKeysGenerated
<1>15. e.n \in Nat /\ s.sent = e.n + 1 /\ s.local = e.key /\ e.mk.n = e.n
       /\ \A i \in DOMAIN log[p] : log[p][i].key = e.key => log[p][i].n < e.n
  BY <1>1, <1>4 DEF SealedBy, Envelope
<1>16. ChainsAreCounted'
  <2>1. s.sendCK.n = s.sent /\ s.sendCK # None
    BY <1>4, <1>5 DEF Counted, SealedBy
  <2>2. \A i \in DOMAIN log'[p] : log'[p][i].key = s.local => log'[p][i].n < s.sent
    BY <1>8, <1>14, <1>15
  <2>3. ASSUME NEW t, t = s PROVE Counted(p, t)'
    BY <2>1, <2>2, <2>3 DEF Counted
  <2>4. \A t \in Held(p)' : Counted(p, t)'
    BY <2>3, <1>3, <1>4
  <2>5. \A t \in Held(q)' : Counted(q, t)'
    BY <1>2, <1>3, <1>7 DEF KeysAreFresh, ChainsAreCounted, Counted
  <2>6. \A x \in Party : \A i \in DOMAIN log'[x] : log'[x][i].mk.n = log'[x][i].n
    <3>1. \A i \in DOMAIN log[p] : log[p][i].mk.n = log[p][i].n
      BY DEF KeysAreFresh, ChainsAreCounted
    <3>2. \A i \in DOMAIN log'[p] : log'[p][i].mk.n = log'[p][i].n
      BY <3>1, <1>8, <1>15
    <3>3. \A i \in DOMAIN log'[q] : log'[q][i].mk.n = log'[q][i].n
      BY <1>2, <1>7 DEF KeysAreFresh, ChainsAreCounted
    <3> QED  BY <3>2, <3>3, <1>2
  <2> QED  BY <2>4, <2>5, <2>6, <1>2 DEF ChainsAreCounted
<1>17. EnvelopesAreSaved'
  <2>1. result'[p].call # "encrypt"
    BY <1>1, <1>6 DEF NoResult
  <2>2. result'[q] = result[q] /\ (result'[q] # NoResult => Saved(q)' = Saved(q))
    BY <1>1, <1>2, <1>3, <1>6
  <2>3. result'[q].call = "encrypt" => SealedBy(q, result'[q].envelope, Saved(q))
    BY <2>2, <1>2 DEF KeysAreFresh, EnvelopesAreSaved
  <2>4. \A f, t : SealedBy(q, f, t)' <=> SealedBy(q, f, t)
    BY <1>7 DEF SealedBy
  <2>5. result'[q].call = "encrypt" => result'[q] # NoResult
    BY DEF NoResult
  <2> QED  BY <2>1, <2>2, <2>3, <2>4, <2>5, <1>2 DEF EnvelopesAreSaved
<1>18. NumbersAreDistinct'
  <2>1. ASSUME NEW i \in DOMAIN log'[p], NEW j \in DOMAIN log'[p],
               log'[p][i].key = log'[p][j].key, log'[p][i].n = log'[p][j].n
        PROVE  i = j
    <3>1. CASE i \in DOMAIN log[p] /\ j \in DOMAIN log[p]
      BY <2>1, <3>1, <1>8 DEF KeysAreFresh, NumbersAreDistinct
    <3>2. CASE i \in DOMAIN log[p] /\ j = Len(log[p]) + 1
      BY <2>1, <3>2, <1>8, <1>14, <1>15
    <3>3. CASE i = Len(log[p]) + 1 /\ j \in DOMAIN log[p]
      BY <2>1, <3>3, <1>8, <1>14, <1>15
    <3> QED  BY <3>1, <3>2, <3>3, <1>8
  <2>2. ASSUME NEW i \in DOMAIN log'[q], NEW j \in DOMAIN log'[q],
               log'[q][i].key = log'[q][j].key, log'[q][i].n = log'[q][j].n
        PROVE  i = j
    BY <2>2, <1>2, <1>7 DEF KeysAreFresh, NumbersAreDistinct
  <2> QED  BY <2>1, <2>2, <1>2 DEF NumbersAreDistinct
<1> QED  BY <1>0, <1>12, <1>13, <1>16, <1>17, <1>18 DEF KeysAreFresh

LEMMA NextKeysAreFresh == KeysAreFresh /\ [Next]_vars => KeysAreFresh'
<1> SUFFICES ASSUME KeysAreFresh, [Next]_vars PROVE KeysAreFresh'
  OBVIOUS
<1>0. WellTyped /\ WellTyped'
  BY NextWellTyped DEF KeysAreFresh
<1>1. ASSUME NEW p \in Party, RemoveOld(p) \/ Rename(p) \/ Crash(p) PROVE KeysAreFresh'
  <2>1. UNCHANGED <<serial, log, initials>>
    BY <1>1 DEF RemoveOld, Rename, Crash
  <2>2. \A x \in Party : /\ Held(x)' \subseteq Held(x)
                         /\ result'[x] \in {result[x], NoResult}
                         /\ result'[x] # NoResult => Saved(x)' = Saved(x)
    BY <1>0, <1>1, OtherStepsHold
  <2>3. initials' \subseteq Generated(Initiator)
    BY <2>1 DEF KeysAreFresh, KeysWereGenerated
  <2> QED  BY <1>0, <2>1, <2>2, <2>3, DroppingKeepsKeysFresh
<1>2. ASSUME NEW p \in Party, Return(p), result[p].call # "encrypt" PROVE KeysAreFresh'
  <2>1. UNCHANGED <<serial, log>>
    BY <1>0, <1>2, ReturnEffect
  <2>2. \A x \in Party : /\ Held(x)' \subseteq Held(x)
                         /\ result'[x] \in {result[x], NoResult}
                         /\ result'[x] # NoResult => Saved(x)' = Saved(x)
    BY <1>0, <1>2, OtherStepsHold
  <2>3. initials' \subseteq Generated(Initiator)
    BY <1>0, <1>2, ReturnEffect DEF KeysAreFresh, KeysWereGenerated
  <2> QED  BY <1>0, <2>1, <2>2, <2>3, DroppingKeepsKeysFresh
<1>3. CASE UNCHANGED vars
  <2>1. /\ UNCHANGED <<file, step, next, result, serial, log, initials>>
    BY <1>3 DEF vars
  <2>2. \A x \in Party : Held(x)' = Held(x) /\ Saved(x)' = Saved(x)
    BY <2>1 DEF Held, Saved
  <2>3. initials' \subseteq Generated(Initiator)
    BY <2>1 DEF KeysAreFresh, KeysWereGenerated
  <2> QED  BY <1>0, <2>1, <2>2, <2>3, DroppingKeepsKeysFresh
<1> QED  BY <1>1, <1>2, <1>3, InitiateKeysAreFresh, RespondKeysAreFresh, EncryptKeysAreFresh,
            DecryptKeysAreFresh, ReleaseKeepsKeysFresh
         DEF Next

LEMMA AlwaysFresh == Spec => []KeysAreFresh
BY InitKeysAreFresh, NextKeysAreFresh, PTL DEF Spec

(* Released messages with one key have one root and one number; one root   *)
(* has one ratchet key and one sender.                                     *)
LEMMA FreshKeysNeverReused == KeysAreFresh => MessageKeyNeverReused
<1> SUFFICES ASSUME KeysAreFresh,
                    NEW p \in Party, NEW q \in Party,
                    NEW i \in DOMAIN log[p], NEW j \in DOMAIN log[q],
                    log[p][i].mk = log[q][j].mk
             PROVE  p = q /\ i = j
  BY DEF MessageKeyNeverReused
<1> DEFINE c == <<log[p][i].key, log[p][i].mk.root>>
           d == <<log[q][j].key, log[q][j].mk.root>>
<1>1. c \in Chains(p) /\ d \in Chains(q) /\ c[2] = d[2]
  BY DEF Chains
<1>2. p = q
  BY <1>1, PeerFacts DEF KeysAreFresh, ChainsNeverMeet
<1>3. PICK r \in Generated(Peer(p)) : Last(c[2]) = {c[1], r}
  BY <1>1 DEF KeysAreFresh, ChainsArePaired
<1>4. PICK x \in Generated(Peer(p)) : Last(d[2]) = {d[1], x}
  BY <1>1, <1>2 DEF KeysAreFresh, ChainsArePaired
<1>5. c[1] \in Generated(p) /\ d[1] \in Generated(p)
  BY <1>1, <1>2 DEF KeysAreFresh, ChainsArePaired
<1>6. c[1] # x /\ d[1] # r
  BY <1>3, <1>4, <1>5, PeerFacts DEF Generated
<1> HIDE DEF c, d
<1>7. c[1] = d[1]
  BY <1>1, <1>3, <1>4, <1>6
<1>8. log[p][i].key = log[q][j].key
  BY <1>7 DEF c, d
<1>9. log[p][i].n = log[q][j].n
  BY DEF KeysAreFresh, ChainsAreCounted
<1> QED  BY <1>2, <1>8, <1>9 DEF KeysAreFresh, NumbersAreDistinct

(* Two released envelopes never share a key, for any number of messages,   *)
(* crashes and bootstraps: a session is saved before what it sealed is     *)
(* released, so the stored session is always past every released message.  *)
THEOREM KeysNeverReused == Spec => []MessageKeyNeverReused
BY AlwaysFresh, FreshKeysNeverReused, PTL

-----------------------------------------------------------------------------
(* Part four: plaintexts.                                                  *)

(* Every ratchet key that exists, and the roots of the conversation that   *)
(* began with output o.                                                    *)
Seen    == Generated(Initiator) \cup Generated(Responder)
From(o) == {root \in RootKey : root # <<>> /\ root[1] = o}

(* Session s will never derive mk, unless its end bootstraps again.        *)
Closed(s, mk) ==
  ~CanDerive(s, mk) /\ (mk.root[1] = s.root[1] => Len(mk.root) <= Len(s.root))

(* How often an end may return one plaintext.                              *)
Limit(p) == IF p = Initiator THEN 1 ELSE bootstraps[p]

(* All keys of a session come from one bootstrap, which used keys that     *)
(* existed.                                                                *)
InOneConversation(s, keys) ==
  /\ Receiving(s) /\ s.root # <<>> /\ s.root[1] \subseteq keys
  /\ Within(s, From(s.root[1]))

ConversationsBegan ==
  /\ \A p \in Party : \A s \in Held(p) :
       InOneConversation(s, Seen) /\ (p = Responder => bootstraps[p] > 0)
  /\ \A p \in Party : \A i \in DOMAIN log[p] :
       log[p][i].mk.root # <<>> /\ log[p][i].mk.root[1] \subseteq Seen

(* A plaintext that was returned as often as it may be is closed to every  *)
(* session its end holds; one that is about to be returned may be, and is  *)
(* closed to the session that opened it.                                   *)
CountsAreLimited ==
  \A p \in Party : \A m \in DOMAIN opened[p] :
    /\ opened[p][m] <= Limit(p)
    /\ \A s \in Held(p) : Closed(s, log[Peer(p)][m].mk) \/ opened[p][m] < Limit(p)

OpenedBy(p, m, s) ==
  m \in DOMAIN opened[p] /\ opened[p][m] < Limit(p) /\ Closed(s, log[Peer(p)][m].mk)

PlaintextsAreSaved ==
  \A p \in Party : result[p].call = "decrypt" => OpenedBy(p, result[p].message, Saved(p))

ReturnsAreCounted ==
  KeysAreFresh /\ ConversationsBegan /\ CountsAreLimited /\ PlaintextsAreSaved

(* A conversation is not left by a ratchet step.                           *)
LEMMA FromGrows ==
  ASSUME NEW o
  PROVE  \A root \in From(o), d \in DHOutput : Append(root, d) \in From(o)
<1> SUFFICES ASSUME NEW root \in From(o), NEW d \in DHOutput PROVE Append(root, d) \in From(o)
  OBVIOUS
<1>1. root \in Seq(DHOutput) /\ root # <<>> /\ root[1] = o
  BY DEF From, RootKey
<1>2. Append(root, d) \in Seq(DHOutput) /\ Append(root, d) # <<>> /\ Append(root, d)[1] = root[1]
  BY <1>1
<1> QED  BY <1>1, <1>2 DEF From, RootKey

(* What a session derives is of its conversation.                          *)
LEMMA DerivedFrom ==
  ASSUME NEW s, NEW R, Within(s, R), NEW mk, CanDerive(s, mk)
  PROVE  mk.root \in R
BY DEF Within, CanDerive

(* A session that only forgets stays closed to a key.                      *)
LEMMA StaysClosed ==
  ASSUME NEW s, NEW t, IsSession(s), IsSession(t), Forgets(s, t),
         Within(t, From(s.root[1])), NEW mk \in ChainKey, Closed(s, mk)
  PROVE  Closed(t, mk)
<1>1. Len(s.root) \in Nat /\ Len(t.root) \in Nat /\ Len(mk.root) \in Nat
  BY KeyLengths
<1>2. t.root[1] = s.root[1]
  BY DEF Within, From
<1>3. ASSUME CanDerive(t, mk) PROVE FALSE
  <2>1. mk.root[1] = s.root[1]
    BY <1>3, DerivedFrom DEF From
  <2>2. Len(mk.root) <= Len(s.root)
    BY <2>1 DEF Closed
  <2>3. CanDerive(s, mk)
    BY <1>1, <1>3, <2>2 DEF Forgets
  <2> QED  BY <2>3 DEF Closed
<1>4. mk.root[1] = t.root[1] => Len(mk.root) <= Len(t.root)
  BY <1>1, <1>2 DEF Closed, Forgets
<1> QED  BY <1>3, <1>4 DEF Closed

(* A key that was opened was not closed before, and is closed now.         *)
LEMMA OpeningCloses ==
  ASSUME NEW s, IsSession(s), Restorable(s), Receiving(s), s.root # <<>>,
         NEW e \in Envelope, Decrypt(s, e).ok
  PROVE  ~Closed(s, e.mk) /\ Closed(Decrypt(s, e).session, e.mk)
<1> DEFINE t == Decrypt(s, e).session
           d == DiffieHellman(s.local, e.key)
<1>1. /\ CanDerive(s, e.mk) \/ Len(e.mk.root) > Len(s.root)
      /\ ~CanDerive(t, e.mk) /\ Len(e.mk.root) <= Len(t.root)
      /\ KeepsSending(s, t) \/ (t.root = e.mk.root /\ t.root = DeriveRootKey(s.root, d))
  BY DecryptForgets
<1> HIDE DEF t
<1>2. e.mk \in ChainKey /\ e.key \in RatchetKey
  BY DEF Envelope
<1>3. Len(s.root) \in Nat /\ Len(e.mk.root) \in Nat
  BY <1>2, KeyLengths
<1>4. ASSUME ~CanDerive(s, e.mk)
      PROVE  e.mk.root[1] = s.root[1] /\ ~(Len(e.mk.root) <= Len(s.root))
  <2>1. Len(e.mk.root) > Len(s.root)
    BY <1>1, <1>4
  <2>2. t.root = e.mk.root /\ t.root = DeriveRootKey(s.root, d)
    BY <1>1, <1>3, <2>1 DEF KeepsSending
  <2>3. s.root \in Seq(DHOutput) /\ d \in DHOutput
    BY <1>2 DEF IsSession, RootKey, DiffieHellman, DHOutput
  <2> HIDE DEF d
  <2>4. Append(s.root, d)[1] = s.root[1]
    BY <2>3
  <2> QED  BY <1>3, <2>1, <2>2, <2>4 DEF DeriveRootKey
<1> QED  BY <1>1, <1>4 DEF Closed, t

(* Keys that exist go on existing.                                         *)
LEMMA SeenGrows ==
  ASSUME WellTyped, NEW p \in Party,
         serial' = serial \/ serial' = [serial EXCEPT ![p] = @ + 1]
  PROVE  Seen \subseteq Seen'
BY GeneratedGrows, PartyAssumption DEF Seen

LEMMA InitReturnsAreCounted == Init => ReturnsAreCounted
<1> SUFFICES ASSUME Init PROVE ReturnsAreCounted
  OBVIOUS
<1>1. \A p \in Party : /\ Held(p) = {} /\ log[p] = <<>> /\ opened[p] = <<>>
                       /\ result[p].call = "none"
  BY DEF Init, Held, NoResult
<1> QED  BY <1>1, InitKeysAreFresh
         DEF ReturnsAreCounted, ConversationsBegan, CountsAreLimited, PlaintextsAreSaved

(* A command saves session s and then returns r.                           *)
LEMMA CommandReturnsAreCounted ==
  ASSUME ReturnsAreCounted, KeysAreFresh', NEW p \in Party, NEW s, NEW r,
         IsSession(s), step[p] = "idle", SaveThenReturn(p, s, r),
         UNCHANGED <<file, log, opened>>,
         serial' = serial \/ serial' = [serial EXCEPT ![p] = @ + 1],
         bootstraps' = bootstraps \/ bootstraps' = [bootstraps EXCEPT ![p] = @ + 1],
         InOneConversation(s, Seen'), p = Responder => bootstraps'[p] > 0,
         \A m \in DOMAIN opened[p] :
           Closed(s, log[Peer(p)][m].mk) \/ opened[p][m] < Limit(p)',
         r.call = "decrypt" => /\ r.message \in DOMAIN opened[p]
                               /\ opened[p][r.message] < Limit(p)'
                               /\ Closed(s, log[Peer(p)][r.message].mk)
  PROVE  ReturnsAreCounted'
<1>1. WellTyped
  BY DEF ReturnsAreCounted, KeysAreFresh
<1>2. /\ Held(p)' \subseteq Held(p) \cup {s} /\ Saved(p)' = s /\ result'[p] = r
      /\ \A x \in Party : x # p => /\ Held(x)' = Held(x) /\ Saved(x)' = Saved(x)
                                   /\ result'[x] = result[x]
  BY <1>1, CommandHolds
<1>3. Seen \subseteq Seen'
  BY <1>1, SeenGrows
<1>4. \A x \in Party : /\ bootstraps[x] \in Nat /\ bootstraps'[x] \in Nat
                       /\ bootstraps[x] <= bootstraps'[x]
                       /\ x # p => bootstraps'[x] = bootstraps[x]
  <2>1. bootstraps \in [Party -> Nat]
    BY <1>1 DEF WellTyped, TypeOK
  <2> QED  BY <2>1
<1>5. \A x \in Party : /\ Limit(x) \in Nat /\ Limit(x)' \in Nat /\ Limit(x) <= Limit(x)'
                       /\ x # p => Limit(x)' = Limit(x)
  BY <1>4 DEF Limit
<1>6. log' = log /\ opened' = opened
  OBVIOUS
<1>7. \A t : InOneConversation(t, Seen) => InOneConversation(t, Seen')
  BY <1>3 DEF InOneConversation
<1>8. ConversationsBegan'
  <2>1. ASSUME NEW x \in Party, NEW t \in Held(x)'
        PROVE  InOneConversation(t, Seen') /\ (x = Responder => bootstraps'[x] > 0)
    <3>1. CASE t \in Held(x)
      BY <3>1, <1>4, <1>7 DEF ReturnsAreCounted, ConversationsBegan
    <3>2. CASE t \notin Held(x)
      BY <3>2, <2>1, <1>2
    <3> QED  BY <3>1, <3>2
  <2>2. ASSUME NEW x \in Party, NEW i \in DOMAIN log'[x]
        PROVE  log'[x][i].mk.root # <<>> /\ log'[x][i].mk.root[1] \subseteq Seen'
    BY <1>3, <1>6, <2>2 DEF ReturnsAreCounted, ConversationsBegan
  <2> QED  BY <2>1, <2>2 DEF ConversationsBegan
<1>9. CountsAreLimited'
  <2> SUFFICES ASSUME NEW x \in Party, NEW m \in DOMAIN opened[x]
               PROVE  /\ opened[x][m] <= Limit(x)'
                      /\ \A t \in Held(x)' : \/ Closed(t, log[Peer(x)][m].mk)
                                             \/ opened[x][m] < Limit(x)'
    BY <1>6 DEF CountsAreLimited
  <2>1. /\ opened[x][m] <= Limit(x) /\ opened[x][m] \in Nat
        /\ \A t \in Held(x) : Closed(t, log[Peer(x)][m].mk) \/ opened[x][m] < Limit(x)
    <3>1. opened[x] \in Seq(Nat)
      BY <1>1 DEF WellTyped, TypeOK
    <3> QED  BY <3>1 DEF ReturnsAreCounted, CountsAreLimited
  <2>2. opened[x][m] <= Limit(x)' /\ (opened[x][m] < Limit(x) => opened[x][m] < Limit(x)')
    BY <2>1, <1>5
  <2>3. ASSUME NEW t \in Held(x)'
        PROVE  Closed(t, log[Peer(x)][m].mk) \/ opened[x][m] < Limit(x)'
    <3>1. CASE t \in Held(x)
      BY <3>1, <2>1, <2>2
    <3>2. CASE t \notin Held(x)
      BY <3>2, <2>3, <1>2
    <3> QED  BY <3>1, <3>2
  <2> QED  BY <2>2, <2>3
<1>10. PlaintextsAreSaved'
  <2>1. ASSUME NEW x \in Party, result'[x].call = "decrypt", x # p
        PROVE  \A m, t : m = result'[x].message /\ t = Saved(x)' => OpenedBy(x, m, t)'
    <3>1. OpenedBy(x, result[x].message, Saved(x))
      BY <1>2, <2>1 DEF ReturnsAreCounted, PlaintextsAreSaved
    <3> QED  BY <3>1, <1>2, <1>5, <1>6, <2>1 DEF OpenedBy
  <2>2. ASSUME result'[p].call = "decrypt"
        PROVE  \A m, t : m = result'[p].message /\ t = Saved(p)' => OpenedBy(p, m, t)'
    BY <1>2, <1>6, <2>2 DEF OpenedBy
  <2>3. ASSUME NEW x \in Party, result'[x].call = "decrypt"
        PROVE  \A m, t : m = result'[x].message /\ t = Saved(x)' => OpenedBy(x, m, t)'
    BY <2>1, <2>2, <2>3
  <2> QED  BY <2>3 DEF PlaintextsAreSaved, OpenedBy
<1> QED  BY <1>8, <1>9, <1>10 DEF ReturnsAreCounted

(* A session that goes on in its conversation.                             *)
LEMMA ConversationGoesOn ==
  ASSUME NEW s, NEW t, InOneConversation(s, Seen), Receiving(t), Within(t, From(s.root[1])),
         Seen \subseteq Seen'
  PROVE  InOneConversation(t, Seen') /\ InOneConversation(t, Seen)
<1>1. t.root # <<>> /\ t.root[1] = s.root[1]
  BY DEF Within, From
<1> QED  BY <1>1 DEF InOneConversation

(* The keys of released messages are chain keys, and what an end counts is *)
(* what its peer released.                                                 *)
LEMMA ReleasedKeys ==
  ASSUME WellTyped, NEW p \in Party
  PROVE  /\ DOMAIN opened[p] = DOMAIN log[Peer(p)]
         /\ DOMAIN log[Peer(p)] = 1 .. Len(log[Peer(p)])
         /\ \A m \in DOMAIN log[Peer(p)] : /\ log[Peer(p)][m] \in Envelope
                                           /\ log[Peer(p)][m].mk \in ChainKey
         /\ \A m \in DOMAIN opened[p] : opened[p][m] \in Nat
<1>1. /\ log[Peer(p)] \in Seq(Envelope) /\ opened[p] \in Seq(Nat)
      /\ Len(opened[p]) = Len(log[Peer(p)])
  BY PeerFacts DEF WellTyped, TypeOK
<1>2. \A m \in DOMAIN log[Peer(p)] : log[Peer(p)][m] \in Envelope
  BY <1>1
<1>3. \A e \in Envelope : e.mk \in ChainKey
  BY DEF Envelope
<1> QED  BY <1>1, <1>2, <1>3

(* A further bootstrap of the initiator draws a key that no message has.   *)
LEMMA InitiateReturnsAreCounted ==
  ASSUME ReturnsAreCounted, BootstrapInitiatorCommand
  PROVE  ReturnsAreCounted'
<1> DEFINE key  == NewKey(Initiator)
           root == BootstrapRoot(key, SignedPreKey)
           s    == BootstrapInitiator(key, SignedPreKey)
           r    == [call |-> "initiate", key |-> key]
<1>0. /\ KeysAreFresh /\ WellTyped /\ KeysAreFresh'
      /\ Initiator \in Party /\ Responder \in Party /\ Initiator # Responder
      /\ Peer(Initiator) = Responder
  BY InitiateKeysAreFresh, PartyAssumption, PeerFacts DEF ReturnsAreCounted, KeysAreFresh
<1>1. /\ step[Initiator] = "idle" /\ Generate(Initiator)
      /\ SaveThenReturn(Initiator, s, r)
      /\ bootstraps' = [bootstraps EXCEPT ![Initiator] = @ + 1]
      /\ UNCHANGED <<file, log, opened>>
  BY DEF BootstrapInitiatorCommand
<1>2. /\ key \notin Generated(Initiator) /\ key \in RatchetKey
      /\ key \in Generated(Initiator)' /\ serial' = [serial EXCEPT ![Initiator] = @ + 1]
  BY <1>0, <1>1, NewKeyIsNew
<1>3. SignedPreKey \in Generated(Responder)' /\ SignedPreKey \in RatchetKey
  BY <1>0, <1>2, GeneratedGrows, SignedPreKeyGenerated, KeyTypes
<1>4. IsSession(s)
  BY <1>2, <1>3, BootstrapSound
<1>5. /\ s.root = root /\ s.sendCK.root = root /\ s.recvCK = None /\ s.skipped = <<>>
  BY DEF BootstrapInitiator, FirstChainKey
<1>6. root \in RootKey /\ root # <<>> /\ root[1] = {key, SignedPreKey} /\ Len(root) = 1
  <2>1. {key, SignedPreKey} \in DHOutput
    BY <1>2, <1>3 DEF DHOutput
  <2>2. root = <<{key, SignedPreKey}>>
    BY DEF BootstrapRoot, DeriveRootKey, DiffieHellman
  <2> QED  BY <2>1, <2>2 DEF RootKey
<1>7. r.call # "decrypt"
  OBVIOUS
<1> HIDE DEF key, root, s, r
<1>8. InOneConversation(s, Seen')
  <2>1. Receiving(s)
    BY <1>5 DEF Receiving
  <2>2. Within(s, From(s.root[1]))
    BY <1>5, <1>6 DEF Within, From
  <2>3. s.root[1] \subseteq Seen'
    BY <1>2, <1>3, <1>5, <1>6 DEF Seen
  <2> QED  BY <2>1, <2>2, <2>3, <1>5, <1>6 DEF InOneConversation
<1>9. ASSUME NEW m \in DOMAIN opened[Initiator] PROVE Closed(s, log[Peer(Initiator)][m].mk)
  <2>1. m \in DOMAIN log[Responder]
    BY <1>0, ReleasedKeys
  <2>2. log[Responder][m].mk.root[1] \subseteq Seen
    BY <1>0, <2>1 DEF ReturnsAreCounted, ConversationsBegan
  <2>3. key \notin Seen
    BY <1>0, <1>2 DEF Seen, Generated, NewKey, key
  <2>4. log[Responder][m].mk.root[1] # s.root[1]
    BY <1>5, <1>6, <2>2, <2>3
  <2> QED  BY <1>0, <1>5, <2>4 DEF Closed, CanDerive
<1> QED  BY <1>0, <1>1, <1>2, <1>4, <1>7, <1>8, <1>9, CommandReturnsAreCounted

(* A further bootstrap of the responder may open every message once more.  *)
LEMMA RespondReturnsAreCounted ==
  ASSUME ReturnsAreCounted, NEW key \in initials, BootstrapResponderCommand(key)
  PROVE  ReturnsAreCounted'
<1> DEFINE root == BootstrapRoot(SignedPreKey, key)
           s    == BootstrapResponder(SignedPreKey, key)
           r    == [call |-> "respond"]
<1>0. /\ KeysAreFresh /\ WellTyped /\ KeysAreFresh'
      /\ Initiator \in Party /\ Responder \in Party /\ Initiator # Responder
  BY RespondKeysAreFresh, PartyAssumption DEF ReturnsAreCounted, KeysAreFresh
<1>1. /\ step[Responder] = "idle" /\ SaveThenReturn(Responder, s, r)
      /\ bootstraps' = [bootstraps EXCEPT ![Responder] = @ + 1]
      /\ UNCHANGED <<file, log, opened>> /\ serial' = serial
  BY DEF BootstrapResponderCommand
<1>2. key \in Generated(Initiator)' /\ SignedPreKey \in Generated(Responder)'
  <2>1. key \in Generated(Initiator)
    BY DEF ReturnsAreCounted, KeysAreFresh, KeysWereGenerated
  <2> QED  BY <2>1, <1>0, <1>1, GeneratedGrows, SignedPreKeyGenerated
<1>3. key \in RatchetKey /\ SignedPreKey \in RatchetKey
  <2>1. key \in RatchetKey
    BY <1>0 DEF WellTyped, TypeOK
  <2> QED  BY <2>1, <1>0, KeyTypes
<1>4. IsSession(s)
  BY <1>3, BootstrapSound
<1>5. /\ s.root = root /\ s.sendCK = None /\ s.recvCK.root = root /\ s.skipped = <<>>
  BY DEF BootstrapResponder, FirstChainKey
<1>6. root \in RootKey /\ root # <<>> /\ root[1] = {SignedPreKey, key} /\ Len(root) = 1
  <2>1. {SignedPreKey, key} \in DHOutput
    BY <1>3 DEF DHOutput
  <2>2. root = <<{SignedPreKey, key}>>
    BY DEF BootstrapRoot, DeriveRootKey, DiffieHellman
  <2> QED  BY <2>1, <2>2 DEF RootKey
<1>7. r.call # "decrypt"
  OBVIOUS
<1> HIDE DEF root, s, r
<1>8. InOneConversation(s, Seen')
  <2>1. Receiving(s)
    BY <1>5, <1>6 DEF Receiving
  <2>2. Within(s, From(s.root[1]))
    BY <1>5, <1>6 DEF Within, From
  <2>3. s.root[1] \subseteq Seen'
    BY <1>2, <1>5, <1>6 DEF Seen
  <2> QED  BY <2>1, <2>2, <2>3, <1>5, <1>6 DEF InOneConversation
<1>9. bootstraps[Responder] \in Nat /\ bootstraps'[Responder] = bootstraps[Responder] + 1
  BY <1>0, <1>1 DEF WellTyped, TypeOK
<1>10. ASSUME NEW m \in DOMAIN opened[Responder] PROVE opened[Responder][m] < Limit(Responder)'
  <2>1. opened[Responder][m] <= bootstraps[Responder] /\ opened[Responder][m] \in Nat
    BY <1>0, ReleasedKeys DEF ReturnsAreCounted, CountsAreLimited, Limit
  <2> QED  BY <1>0, <1>9, <2>1 DEF Limit
<1>11. bootstraps'[Responder] > 0
  BY <1>9
<1> QED  BY <1>0, <1>1, <1>4, <1>7, <1>8, <1>10, <1>11, CommandReturnsAreCounted

LEMMA EncryptReturnsAreCounted ==
  ASSUME ReturnsAreCounted, NEW p \in Party, EncryptMessage(p)
  PROVE  ReturnsAreCounted'
<1> DEFINE s == file[p]
           u == Encrypt(s, NewKey(p)).session
           r == [call |-> "encrypt", envelope |-> Encrypt(s, NewKey(p)).envelope]
<1>0. KeysAreFresh /\ WellTyped /\ KeysAreFresh'
  BY EncryptKeysAreFresh DEF ReturnsAreCounted, KeysAreFresh
<1>1. /\ step[p] = "idle" /\ CanLoad(p) /\ SaveThenReturn(p, u, r)
      /\ IF s.sendCK = None THEN Generate(p) ELSE serial' = serial
      /\ UNCHANGED <<file, log, opened, bootstraps>>
  BY DEF EncryptMessage
<1>2. serial' = serial \/ serial' = [serial EXCEPT ![p] = @ + 1]
  BY <1>1 DEF Generate
<1>3. IsSession(s) /\ Restorable(s) /\ s \in Held(p) /\ NewKey(p) \in RatchetKey
  BY <1>0, <1>1, LoadedSession, HeldSessions, KeyTypes DEF CanLoad
<1>4. InOneConversation(s, Seen) /\ (p = Responder => bootstraps[p] > 0)
  BY <1>3 DEF ReturnsAreCounted, ConversationsBegan
<1>5. IsSession(u) /\ Receiving(u) /\ Forgets(s, u) /\ Within(u, From(s.root[1]))
  <2>1. Receiving(s) /\ Within(s, From(s.root[1]))
    BY <1>4 DEF InOneConversation
  <2>2. \A root \in From(s.root[1]), d \in DHOutput : Append(root, d) \in From(s.root[1])
    BY FromGrows
  <2> QED  BY <1>3, <2>1, <2>2, EncryptSound, EncryptForgets, EncryptWithin
<1>6. r.call # "decrypt"
  OBVIOUS
<1> HIDE DEF s, u, r
<1>7. InOneConversation(u, Seen')
  BY <1>0, <1>2, <1>4, <1>5, SeenGrows, ConversationGoesOn
<1>8. ASSUME NEW m \in DOMAIN opened[p]
      PROVE  Closed(u, log[Peer(p)][m].mk) \/ opened[p][m] < Limit(p)'
  <2>1. Closed(s, log[Peer(p)][m].mk) \/ opened[p][m] < Limit(p)
    BY <1>3 DEF ReturnsAreCounted, CountsAreLimited
  <2>2. log[Peer(p)][m].mk \in ChainKey
    BY <1>0, ReleasedKeys
  <2>3. Limit(p)' = Limit(p)
    BY <1>1 DEF Limit
  <2> QED  BY <1>3, <1>5, <2>1, <2>2, <2>3, StaysClosed
<1>9. p = Responder => bootstraps'[p] > 0
  BY <1>1, <1>4
<1> QED  BY <1>0, <1>1, <1>2, <1>5, <1>6, <1>7, <1>8, <1>9, CommandReturnsAreCounted

(* decrypt opens a message only while its end may return it once more.     *)
LEMMA DecryptReturnsAreCounted ==
  ASSUME ReturnsAreCounted, NEW p \in Party, NEW m \in 1 .. Len(log[Peer(p)]),
         DecryptMessage(p, m)
  PROVE  ReturnsAreCounted'
<1> DEFINE s == file[p]
           e == log[Peer(p)][m]
           u == Decrypt(s, e).session
           r == [call |-> "decrypt", message |-> m]
<1>0. KeysAreFresh /\ WellTyped /\ KeysAreFresh'
  BY DecryptKeysAreFresh DEF ReturnsAreCounted, KeysAreFresh
<1>1. /\ step[p] = "idle" /\ CanLoad(p) /\ SaveThenReturn(p, u, r) /\ Decrypt(s, e).ok
      /\ UNCHANGED <<file, log, opened, bootstraps>> /\ serial' = serial
  BY DEF DecryptMessage
<1>2. IsSession(s) /\ Restorable(s) /\ s \in Held(p)
  BY <1>0, <1>1, LoadedSession, HeldSessions DEF CanLoad
<1>3. InOneConversation(s, Seen) /\ (p = Responder => bootstraps[p] > 0)
  BY <1>2 DEF ReturnsAreCounted, ConversationsBegan
<1>4. m \in DOMAIN opened[p] /\ e \in Envelope
  BY <1>0, ReleasedKeys
<1>5. IsSession(u) /\ Receiving(u) /\ Forgets(s, u) /\ Within(u, From(s.root[1]))
  <2>1. Receiving(s) /\ Within(s, From(s.root[1]))
    BY <1>3 DEF InOneConversation
  <2>2. \A root \in From(s.root[1]), d \in DHOutput : Append(root, d) \in From(s.root[1])
    BY FromGrows
  <2> QED  BY <1>2, <1>4, <2>1, <2>2, DecryptSound, DecryptForgets, DecryptWithin
<1>6. ~Closed(s, e.mk) /\ Closed(u, e.mk)
  BY <1>1, <1>2, <1>3, <1>4, OpeningCloses DEF InOneConversation
<1>7. r.message = m
  OBVIOUS
<1> HIDE DEF s, u, r
<1>8. Seen \subseteq Seen'
  BY <1>0, <1>1, SeenGrows
<1>9. InOneConversation(u, Seen')
  BY <1>3, <1>5, <1>8, ConversationGoesOn
<1>10. Limit(p)' = Limit(p)
  BY <1>1 DEF Limit
<1>11. ASSUME NEW k \in DOMAIN opened[p]
      PROVE  Closed(u, log[Peer(p)][k].mk) \/ opened[p][k] < Limit(p)'
  <2>1. Closed(s, log[Peer(p)][k].mk) \/ opened[p][k] < Limit(p)
    BY <1>2 DEF ReturnsAreCounted, CountsAreLimited
  <2>2. log[Peer(p)][k].mk \in ChainKey
    BY <1>0, ReleasedKeys
  <2> QED  BY <1>2, <1>5, <1>10, <2>1, <2>2, StaysClosed
<1>12. opened[p][m] < Limit(p)'
  <2>1. opened[p][m] < Limit(p)
    BY <1>2, <1>4, <1>6 DEF ReturnsAreCounted, CountsAreLimited
  <2> QED  BY <1>10, <2>1
<1>13. p = Responder => bootstraps'[p] > 0
  BY <1>1, <1>3
<1> QED  BY <1>0, <1>1, <1>4, <1>5, <1>6, <1>7, <1>9, <1>11, <1>12, <1>13, CommandReturnsAreCounted

(* A step that releases and returns nothing and holds no more than before. *)
LEMMA DroppingKeepsCounts ==
  ASSUME ReturnsAreCounted, KeysAreFresh', UNCHANGED <<serial, log, opened, bootstraps>>,
         \A x \in Party : /\ Held(x)' \subseteq Held(x)
                          /\ result'[x] \in {result[x], NoResult}
                          /\ result'[x] # NoResult => Saved(x)' = Saved(x)
  PROVE  ReturnsAreCounted'
<1>1. Seen' = Seen /\ \A x : Limit(x)' = Limit(x)
  BY DEF Seen, Generated, Limit
<1>2. NoResult.call = "none"
  BY DEF NoResult
<1>3. ConversationsBegan'
  BY <1>1 DEF ReturnsAreCounted, ConversationsBegan
<1>4. CountsAreLimited'
  BY <1>1 DEF ReturnsAreCounted, CountsAreLimited
<1>5. PlaintextsAreSaved'
  <2>1. ASSUME NEW x \in Party, result'[x].call = "decrypt"
        PROVE  result'[x] = result[x] /\ Saved(x)' = Saved(x)
    BY <2>1, <1>2
  <2> QED  BY <2>1, <1>1 DEF ReturnsAreCounted, PlaintextsAreSaved, OpenedBy
<1> QED  BY <1>3, <1>4, <1>5 DEF ReturnsAreCounted

(* A released message has not been returned yet, and its peer may return it*)
(* once at least.                                                          *)
LEMMA ReleaseKeepsCounts ==
  ASSUME ReturnsAreCounted, NEW p \in Party, Return(p), result[p].call = "encrypt"
  PROVE  ReturnsAreCounted'
<1> DEFINE e == result[p].envelope
           q == Peer(p)
           s == Saved(p)
           k == Len(log[p]) + 1
<1>0. WellTyped /\ KeysAreFresh /\ KeysAreFresh'
  BY ReleaseKeepsKeysFresh DEF ReturnsAreCounted, KeysAreFresh
<1>1. /\ UNCHANGED <<serial, bootstraps>> /\ e \in Envelope /\ step[p] = "returning"
      /\ log' = [log EXCEPT ![p] = Append(@, e)] /\ result' = [result EXCEPT ![p] = NoResult]
      /\ opened' = [opened EXCEPT ![q] = Append(@, 0)]
  BY <1>0, ReturnEffect
<1>2. q \in Party /\ q # p /\ Peer(q) = p /\ \A x \in Party : x = p \/ x = q
  BY PeerFacts
<1>3. \A x \in Party : /\ Held(x)' \subseteq Held(x)
                       /\ result'[x] # NoResult => result'[x] = result[x] /\ Saved(x)' = Saved(x)
  BY <1>0, OtherStepsHold
<1>4. SealedBy(p, e, s)
  BY <1>0 DEF KeysAreFresh, EnvelopesAreSaved
<1>5. s \in Held(p) /\ InOneConversation(s, Seen)
  <2>1. s \in Held(p)
    BY <1>1, <1>4 DEF Held, Saved, SealedBy
  <2> QED  BY <2>1 DEF ReturnsAreCounted, ConversationsBegan
<1>6. e.mk.root # <<>> /\ e.mk.root[1] \subseteq Seen
  BY <1>4, <1>5 DEF SealedBy, InOneConversation, Within, From
<1> HIDE DEF e, q, s
<1>7. Seen' = Seen /\ \A x : Limit(x)' = Limit(x)
  BY <1>1 DEF Seen, Generated, Limit
<1>8. /\ log \in [Party -> Seq(Envelope)] /\ opened \in [Party -> Seq(Nat)]
      /\ Len(opened[q]) = Len(log[p]) /\ DOMAIN result = Party
  BY <1>0, <1>2 DEF WellTyped, TypeOK
<1>9. /\ log'[q] = log[q] /\ log'[p] = Append(log[p], e) /\ log[p] \in Seq(Envelope)
      /\ opened'[p] = opened[p] /\ opened'[q] = Append(opened[q], 0) /\ opened[q] \in Seq(Nat)
  BY <1>1, <1>2, <1>8
<1>10. /\ DOMAIN log'[p] = DOMAIN log[p] \cup {k} /\ log'[p][k] = e /\ k \notin DOMAIN log[p]
       /\ \A i \in DOMAIN log[p] : log'[p][i] = log[p][i]
  BY <1>1, <1>9
<1>11. /\ DOMAIN opened'[q] = DOMAIN opened[q] \cup {k} /\ opened'[q][k] = 0
       /\ DOMAIN opened[q] = DOMAIN log[p]
       /\ \A i \in DOMAIN opened[q] : opened'[q][i] = opened[q][i]
  BY <1>8, <1>9
<1> HIDE DEF k
<1>12. ConversationsBegan'
  <2>1. ASSUME NEW x \in Party, NEW i \in DOMAIN log'[x]
        PROVE  log'[x][i].mk.root # <<>> /\ log'[x][i].mk.root[1] \subseteq Seen
    <3>1. CASE i \in DOMAIN log[x]
      <4>1. log'[x][i] = log[x][i]
        BY <3>1, <1>2, <1>9, <1>10
      <4> QED  BY <3>1, <4>1 DEF ReturnsAreCounted, ConversationsBegan
    <3>2. CASE i \notin DOMAIN log[x]
      <4>1. x = p /\ i = k
        BY <2>1, <3>2, <1>2, <1>9, <1>10
      <4> QED  BY <4>1, <1>6, <1>10
    <3> QED  BY <3>1, <3>2
  <2> QED  BY <2>1, <1>1, <1>3, <1>7 DEF ReturnsAreCounted, ConversationsBegan
<1>13. CountsAreLimited'
  <2>1. ASSUME NEW m \in DOMAIN opened'[p]
        PROVE  /\ opened'[p][m] <= Limit(p)
               /\ \A t \in Held(p)' : \/ Closed(t, log'[q][m].mk)
                                      \/ opened'[p][m] < Limit(p)
    BY <1>3, <1>9 DEF ReturnsAreCounted, CountsAreLimited, q
  <2>2. ASSUME NEW m \in DOMAIN opened[q]
        PROVE  /\ opened'[q][m] <= Limit(q)
               /\ \A t \in Held(q)' : \/ Closed(t, log'[p][m].mk)
                                      \/ opened'[q][m] < Limit(q)
    BY <1>2, <1>3, <1>10, <1>11 DEF ReturnsAreCounted, CountsAreLimited
  <2>3. Limit(q) \in Nat /\ (Held(q) # {} => 0 < Limit(q))
    <3>1. bootstraps[q] \in Nat
      BY <1>0, <1>2 DEF WellTyped, TypeOK
    <3>2. Held(q) # {} => (q = Responder => bootstraps[q] > 0)
      BY <1>2 DEF ReturnsAreCounted, ConversationsBegan
    <3> QED  BY <3>1, <3>2, <1>2, PartyAssumption DEF Limit
  <2>4. /\ opened'[q][k] <= Limit(q)
        /\ \A t \in Held(q)' : opened'[q][k] < Limit(q)
    BY <2>3, <1>2, <1>3, <1>11
  <2>5. ASSUME NEW x \in Party, NEW m \in DOMAIN opened'[x]
        PROVE  /\ opened'[x][m] <= Limit(x)
               /\ \A t \in Held(x)' : \/ Closed(t, log'[Peer(x)][m].mk)
                                      \/ opened'[x][m] < Limit(x)
    <3>1. CASE x = p
      BY <2>1, <2>5, <3>1 DEF q
    <3>2. CASE x = q
      BY <2>2, <2>4, <2>5, <3>2, <1>2, <1>11
    <3> QED  BY <3>1, <3>2, <1>2
  <2> QED  BY <2>5, <1>7 DEF CountsAreLimited
<1>14. PlaintextsAreSaved'
  <2>1. result'[p].call # "decrypt" /\ result'[q] = result[q]
    BY <1>1, <1>2, <1>8 DEF NoResult
  <2>2. ASSUME result'[q].call = "decrypt"
        PROVE  /\ result'[q].message \in DOMAIN opened'[q]
               /\ opened'[q][result'[q].message] < Limit(q)
               /\ Closed(Saved(q)', log'[p][result'[q].message].mk)
    <3>1. OpenedBy(q, result[q].message, Saved(q))
      BY <2>1, <2>2, <1>2 DEF ReturnsAreCounted, PlaintextsAreSaved
    <3>2. Saved(q)' = Saved(q)
      BY <2>1, <2>2, <1>2, <1>3 DEF NoResult
    <3> QED  BY <2>1, <3>1, <3>2, <1>2, <1>10, <1>11 DEF OpenedBy
  <2> QED  BY <2>1, <2>2, <1>2, <1>7 DEF PlaintextsAreSaved, OpenedBy
<1> QED  BY <1>0, <1>12, <1>13, <1>14 DEF ReturnsAreCounted

(* A plaintext is returned while its end may, and is then closed to the one*)
(* session the end holds.                                                  *)
LEMMA DeliveryKeepsCounts ==
  ASSUME ReturnsAreCounted, KeysAreFresh', NEW p \in Party, Return(p),
         result[p].call = "decrypt"
  PROVE  ReturnsAreCounted'
<1> DEFINE m == result[p].message
           q == Peer(p)
           s == Saved(p)
<1>0. WellTyped /\ KeysAreFresh
  BY DEF ReturnsAreCounted, KeysAreFresh
<1>1. /\ UNCHANGED <<serial, bootstraps, log>> /\ step[p] = "returning"
      /\ result' = [result EXCEPT ![p] = NoResult]
      /\ opened' = [opened EXCEPT ![p] = OneMore(opened[p], m)]
  BY <1>0, ReturnEffect
<1>2. q \in Party /\ q # p /\ Peer(q) = p /\ \A x \in Party : x = p \/ x = q
  BY PeerFacts
<1>3. \A x \in Party : /\ Held(x)' \subseteq Held(x)
                       /\ result'[x] # NoResult => result'[x] = result[x] /\ Saved(x)' = Saved(x)
  BY <1>0, OtherStepsHold
<1>4. OpenedBy(p, m, s) /\ Held(p) \subseteq {s}
  BY <1>0, <1>1, HeldSessions DEF ReturnsAreCounted, PlaintextsAreSaved
<1> HIDE DEF m, q, s
<1>5. Seen' = Seen /\ \A x : Limit(x)' = Limit(x)
  BY <1>1 DEF Seen, Generated, Limit
<1>6. opened \in [Party -> Seq(Nat)] /\ DOMAIN result = Party
  BY <1>0 DEF WellTyped, TypeOK
<1>7. opened'[q] = opened[q] /\ opened'[p] = OneMore(opened[p], m) /\ opened[p] \in Seq(Nat)
  BY <1>1, <1>2, <1>6
<1>8. /\ DOMAIN opened'[p] = DOMAIN opened[p] /\ opened'[p][m] = opened[p][m] + 1
      /\ \A i \in DOMAIN opened[p] : i # m => opened'[p][i] = opened[p][i]
  <2>1. m \in DOMAIN opened[p]
    BY <1>4 DEF OpenedBy
  <2>2. /\ DOMAIN OneMore(opened[p], m) = DOMAIN opened[p]
        /\ m \in DOMAIN opened[p] => OneMore(opened[p], m)[m] = opened[p][m] + 1
        /\ \A i \in DOMAIN opened[p] : i # m => OneMore(opened[p], m)[i] = opened[p][i]
    BY <1>7, OneMoreType
  <2> QED  BY <1>7, <2>1, <2>2
<1>9. ConversationsBegan'
  BY <1>1, <1>3, <1>5 DEF ReturnsAreCounted, ConversationsBegan
<1>10. CountsAreLimited'
  <2>1. opened[p][m] \in Nat /\ Limit(p) \in Nat
    <3>1. opened[p][m] \in Nat
      BY <1>4, <1>7 DEF OpenedBy
    <3>2. bootstraps[p] \in Nat
      BY <1>0 DEF WellTyped, TypeOK
    <3> QED  BY <3>1, <3>2 DEF Limit
  <2>2. ASSUME NEW x \in Party, NEW i \in DOMAIN opened'[x]
        PROVE  /\ opened'[x][i] <= Limit(x)
               /\ \A t \in Held(x)' : \/ Closed(t, log[Peer(x)][i].mk)
                                      \/ opened'[x][i] < Limit(x)
    <3>1. CASE x = p /\ i = m
      BY <3>1, <2>1, <1>3, <1>4, <1>8 DEF OpenedBy, q
    <3>2. CASE x = p /\ i # m
      BY <2>2, <3>2, <1>3, <1>8 DEF ReturnsAreCounted, CountsAreLimited
    <3>3. CASE x = q
      BY <2>2, <3>3, <1>3, <1>7 DEF ReturnsAreCounted, CountsAreLimited
    <3> QED  BY <3>1, <3>2, <3>3, <1>2
  <2> QED  BY <2>2, <1>1, <1>5 DEF CountsAreLimited
<1>11. PlaintextsAreSaved'
  <2>1. result'[p].call # "decrypt" /\ result'[q] = result[q]
    BY <1>1, <1>2, <1>6 DEF NoResult
  <2>2. ASSUME result'[q].call = "decrypt"
        PROVE  /\ result'[q].message \in DOMAIN opened'[q]
               /\ opened'[q][result'[q].message] < Limit(q)
               /\ Closed(Saved(q)', log[p][result'[q].message].mk)
    <3>1. OpenedBy(q, result[q].message, Saved(q))
      BY <2>1, <2>2, <1>2 DEF ReturnsAreCounted, PlaintextsAreSaved
    <3>2. Saved(q)' = Saved(q)
      BY <2>1, <2>2, <1>2, <1>3 DEF NoResult
    <3> QED  BY <2>1, <3>1, <3>2, <1>2, <1>7 DEF OpenedBy
  <2> QED  BY <2>1, <2>2, <1>1, <1>2, <1>5 DEF PlaintextsAreSaved, OpenedBy
<1> QED  BY <1>9, <1>10, <1>11 DEF ReturnsAreCounted

LEMMA NextReturnsAreCounted == ReturnsAreCounted /\ [Next]_vars => ReturnsAreCounted'
<1> SUFFICES ASSUME ReturnsAreCounted, [Next]_vars PROVE ReturnsAreCounted'
  OBVIOUS
<1>0. WellTyped /\ KeysAreFresh /\ KeysAreFresh'
  BY NextKeysAreFresh DEF ReturnsAreCounted, KeysAreFresh
<1>1. ASSUME NEW p \in Party, RemoveOld(p) \/ Rename(p) \/ Crash(p) PROVE ReturnsAreCounted'
  <2>1. UNCHANGED <<serial, log, opened, bootstraps>>
    BY <1>1 DEF RemoveOld, Rename, Crash
  <2>2. \A x \in Party : /\ Held(x)' \subseteq Held(x)
                         /\ result'[x] \in {result[x], NoResult}
                         /\ result'[x] # NoResult => Saved(x)' = Saved(x)
    BY <1>0, <1>1, OtherStepsHold
  <2> QED  BY <1>0, <2>1, <2>2, DroppingKeepsCounts
<1>2. ASSUME NEW p \in Party, Return(p), result[p].call \notin {"encrypt", "decrypt"}
      PROVE  ReturnsAreCounted'
  <2>1. UNCHANGED <<serial, log, opened, bootstraps>>
    BY <1>0, <1>2, ReturnEffect
  <2>2. \A x \in Party : /\ Held(x)' \subseteq Held(x)
                         /\ result'[x] \in {result[x], NoResult}
                         /\ result'[x] # NoResult => Saved(x)' = Saved(x)
    BY <1>0, <1>2, OtherStepsHold
  <2> QED  BY <1>0, <2>1, <2>2, DroppingKeepsCounts
<1>3. CASE UNCHANGED vars
  <2>1. UNCHANGED <<file, step, next, result, serial, log, opened, bootstraps>>
    BY <1>3 DEF vars
  <2>2. \A x \in Party : Held(x)' = Held(x) /\ Saved(x)' = Saved(x)
    BY <2>1 DEF Held, Saved
  <2> QED  BY <1>0, <2>1, <2>2, DroppingKeepsCounts
<1> QED  BY <1>0, <1>1, <1>2, <1>3, InitiateReturnsAreCounted, RespondReturnsAreCounted,
            EncryptReturnsAreCounted, DecryptReturnsAreCounted, ReleaseKeepsCounts,
            DeliveryKeepsCounts
         DEF Next

LEMMA AlwaysCounted == Spec => []ReturnsAreCounted
BY InitReturnsAreCounted, NextReturnsAreCounted, PTL DEF Spec

(* No plaintext is returned more often than its end was bootstrapped, and  *)
(* the initiator returns it once: whenever the processes die and whatever  *)
(* the app presents again.                                                 *)
THEOREM PlaintextsReturnedOncePerBootstrap == Spec => []ReturnedOncePerBootstrap
<1>1. ReturnsAreCounted => ReturnedOncePerBootstrap
  BY DEF ReturnsAreCounted, CountsAreLimited, ReturnedOncePerBootstrap, Limit
<1> QED  BY <1>1, AlwaysCounted, PTL

(* Once a plaintext reached the UI, the key of its message cannot be       *)
(* derived from the file, unless the responder was bootstrapped again.     *)
THEOREM ReturnedKeysLeaveTheDisk == Spec => []ReturnedKeysAreOffTheDisk
<1>1. ASSUME ReturnsAreCounted PROVE ReturnedKeysAreOffTheDisk
  <2> SUFFICES ASSUME NEW p \in Party, NEW m \in DOMAIN opened[p], opened[p][m] > 0,
                      file[p] # NoSession, p = Initiator \/ bootstraps[p] = 1
               PROVE  ~CanDerive(file[p], log[Peer(p)][m].mk)
    BY DEF ReturnedKeysAreOffTheDisk
  <2>1. Limit(p) = 1 /\ file[p] \in Held(p)
    BY DEF Limit, Held
  <2>2. opened[p][m] \in Nat
    BY <1>1, ReleasedKeys DEF ReturnsAreCounted, KeysAreFresh
  <2>3. Closed(file[p], log[Peer(p)][m].mk) \/ opened[p][m] < Limit(p)
    BY <1>1, <2>1 DEF ReturnsAreCounted, CountsAreLimited
  <2> QED  BY <2>1, <2>2, <2>3 DEF Closed
<1> QED  BY <1>1, AlwaysCounted, PTL

-----------------------------------------------------------------------------
(* Part five: what a stored session can open.                              *)

(* Everything that end p seals with ratchet key key is of the chain that   *)
(* root starts.                                                            *)
Starts(p, key, root) == \A c \in Chains(p) : c[1] = key => c[2] = root

OneRootPerKey == \A p \in Party : \A c \in Chains(p) : Starts(p, c[1], c[2])

(* The responder draws a new key before it seals anything.                 *)
PreKeySealsNothing == \A c \in Chains(Responder) : c[1] # SignedPreKey

(* The key of an initial message starts the chain of its bootstrap.        *)
InitialKey(k) ==
  k \in initials \/ \E p \in Party : result[p].call = "initiate" /\ result[p].key = k

InitialKeysStartChains ==
  \A k : InitialKey(k) => Starts(Initiator, k, BootstrapRoot(k, SignedPreKey))

(* The keys that session s of p has put aside and will derive next are     *)
(* those its peer seals with.                                              *)
Agrees(p, s) ==
  /\ s.recvCK = None => p = Initiator /\ s.remote = SignedPreKey
  /\ s.recvCK # None =>
       s.recvCK.n = s.recvd /\ Starts(Peer(p), s.remote, s.recvCK.root)
  /\ \A id \in DOMAIN s.skipped :
       /\ id[1] \in Generated(Peer(p)) /\ s.skipped[id].n = id[2]
       /\ Starts(Peer(p), id[1], s.skipped[id].root)

SessionsAgree == \A p \in Party : \A s \in Held(p) : Agrees(p, s)

(* A chain is abandoned with its count, so no header names a prior chain.  *)
NamesNoPriorChain(s) == IF s.sendCK = None THEN s.sent = 0 ELSE s.prevLen = 0

NoPriorChains ==
  \A p \in Party : /\ \A s \in Held(p) : NamesNoPriorChain(s)
                   /\ \A i \in DOMAIN log[p] : log[p][i].pn = 0
                   /\ result[p].call = "encrypt" => result[p].envelope.pn = 0

EndsAgree ==
  /\ KeysAreFresh
  /\ OneRootPerKey /\ PreKeySealsNothing /\ InitialKeysStartChains
  /\ SessionsAgree /\ NoPriorChains

LEMMA InitEndsAgree == Init => EndsAgree
<1> SUFFICES ASSUME Init PROVE EndsAgree
  OBVIOUS
<1>1. \A p \in Party : /\ Held(p) = {} /\ log[p] = <<>> /\ result[p].call = "none"
  BY DEF Init, Held, NoResult
<1>2. \A p \in Party : Chains(p) = {}
  BY <1>1 DEF Chains
<1>3. \A k : ~InitialKey(k)
  BY <1>1 DEF InitialKey, Init
<1> QED  BY <1>1, <1>2, <1>3, InitKeysAreFresh, PartyAssumption
         DEF EndsAgree, OneRootPerKey, PreKeySealsNothing, InitialKeysStartChains,
             SessionsAgree, NoPriorChains

(* What a session agrees on stays agreed when its peer starts chains with  *)
(* new keys only.                                                          *)
LEMMA AgreementLasts ==
  ASSUME NEW p \in Party,
         \A k \in Generated(Peer(p)) : \A root :
           Starts(Peer(p), k, root) => Starts(Peer(p), k, root)',
         Generated(Peer(p)) \subseteq Generated(Peer(p))',
         NEW s, s.remote \in Generated(Peer(p)), Agrees(p, s)
  PROVE  Agrees(p, s)'
<1> DEFINE q == Peer(p)
<1> HIDE DEF q
<1>1. /\ s.recvCK = None => p = Initiator /\ s.remote = SignedPreKey
      /\ s.recvCK # None => s.recvCK.n = s.recvd /\ Starts(q, s.remote, s.recvCK.root)
      /\ \A id \in DOMAIN s.skipped :
           /\ id[1] \in Generated(q) /\ s.skipped[id].n = id[2]
           /\ Starts(q, id[1], s.skipped[id].root)
  BY DEF Agrees, q
<1>2. s.recvCK # None => Starts(q, s.remote, s.recvCK.root)'
  BY <1>1 DEF q
<1>3. \A id \in DOMAIN s.skipped :
        id[1] \in Generated(q)' /\ Starts(q, id[1], s.skipped[id].root)'
  BY <1>1 DEF q
<1> QED  BY <1>1, <1>2, <1>3 DEF Agrees, q

(* A command saves session s and then returns r.  Either s sends on a chain*)
(* the end had, or it opens one with a key that nobody has seen.           *)
LEMMA CommandEndsAgree ==
  ASSUME EndsAgree, KeysAreFresh', NEW p \in Party, NEW s, NEW r,
         IsSession(s), step[p] = "idle", SaveThenReturn(p, s, r),
         UNCHANGED <<file, log, initials>>,
         serial' = serial \/ serial' = [serial EXCEPT ![p] = @ + 1],
         s.remote \in Generated(Peer(p)), Agrees(p, s), NamesNoPriorChain(s),
         s.sendCK # None =>
           <<s.local, s.sendCK.root>> \in Chains(p) \/ s.local = NewKey(p),
         r.call = "initiate" =>
           /\ p = Initiator /\ s.sendCK # None
           /\ r.key = NewKey(p) /\ s.sendCK.root = BootstrapRoot(r.key, SignedPreKey),
         r.call = "encrypt" => r.envelope.pn = 0
  PROVE  EndsAgree'
<1> DEFINE q == Peer(p)
           c == <<s.local, s.sendCK.root>>
<1>0. WellTyped /\ KeysAreFresh
  BY DEF EndsAgree, KeysAreFresh
<1>1. q \in Party /\ q # p /\ Peer(q) = p /\ \A x \in Party : x = p \/ x = q
  BY PeerFacts
<1>2. /\ Held(p)' \subseteq Held(p) \cup {s} /\ result'[p] = r
      /\ \A x \in Party : x # p => Held(x)' = Held(x) /\ result'[x] = result[x]
  BY <1>0, CommandHolds
<1>3. NewKey(p) \notin Generated(p) /\ \A d \in Chains(p) : d[1] \in Generated(p)
  BY <1>0, NewKeyIsNew DEF KeysAreFresh, ChainsArePaired
<1>4. \A x \in Party : Generated(x) \subseteq Generated(x)'
  BY <1>0, GeneratedGrows
<1>5. /\ \A d \in Chains(p)' : d \in Chains(p) \/ (s.sendCK # None /\ d = c /\ d[1] = NewKey(p))
      /\ Chains(q)' = Chains(q)
  BY <1>0, CommandChains
<1>6. c[2] = s.sendCK.root
  OBVIOUS
<1> HIDE DEF q, c
<1>7. ASSUME NEW x \in Party, NEW k \in Generated(x), NEW root, Starts(x, k, root)
      PROVE  Starts(x, k, root)'
  BY <1>1, <1>3, <1>5, <1>7 DEF Starts
<1>8. OneRootPerKey'
  <2>1. ASSUME NEW d \in Chains(p)', NEW e \in Chains(p)', e[1] = d[1] PROVE e[2] = d[2]
    <3>1. CASE d \in Chains(p) /\ e \in Chains(p)
      BY <2>1, <3>1 DEF EndsAgree, OneRootPerKey, Starts
    <3>2. CASE d \notin Chains(p) /\ e \notin Chains(p)
      BY <2>1, <3>2, <1>5
    <3> QED  BY <2>1, <3>1, <3>2, <1>3, <1>5
  <2>2. ASSUME NEW d \in Chains(q)', NEW e \in Chains(q)', e[1] = d[1] PROVE e[2] = d[2]
    BY <2>2, <1>1, <1>5 DEF EndsAgree, OneRootPerKey, Starts
  <2> QED  BY <2>1, <2>2, <1>1 DEF OneRootPerKey, Starts
<1>9. PreKeySealsNothing'
  <2>1. SignedPreKey \in Generated(Responder) /\ Responder \in Party
    BY <1>0, SignedPreKeyGenerated, PartyAssumption
  <2> QED  BY <2>1, <1>1, <1>3, <1>5 DEF EndsAgree, PreKeySealsNothing
<1>10. InitialKeysStartChains'
  <2>1. ASSUME NEW k, InitialKey(k)
        PROVE  Starts(Initiator, k, BootstrapRoot(k, SignedPreKey))'
    <3>1. k \in Generated(Initiator) /\ Initiator \in Party
      BY <1>0, <2>1, PartyAssumption DEF InitialKey, KeysAreFresh, KeysWereGenerated
    <3>2. Starts(Initiator, k, BootstrapRoot(k, SignedPreKey))
      BY <2>1 DEF EndsAgree, InitialKeysStartChains
    <3> QED  BY <3>1, <3>2, <1>7
  <2>2. ASSUME r.call = "initiate"
        PROVE  Starts(Initiator, r.key, BootstrapRoot(r.key, SignedPreKey))'
    BY <2>2, <1>3, <1>5, <1>6 DEF Starts
  <2>3. \A k : InitialKey(k)' => InitialKey(k) \/ (r.call = "initiate" /\ k = r.key)
    BY <1>2 DEF InitialKey
  <2> QED  BY <2>1, <2>2, <2>3 DEF InitialKeysStartChains
<1>11. SessionsAgree'
  <2>1. ASSUME NEW x \in Party, NEW t, t.remote \in Generated(Peer(x)), Agrees(x, t)
        PROVE  Agrees(x, t)'
    BY <1>4, <1>7, <2>1, PeerFacts, AgreementLasts
  <2>2. ASSUME NEW x \in Party, NEW t \in Held(x)' PROVE Agrees(x, t)'
    <3>1. CASE t \in Held(x)
      BY <1>0, <2>1, <3>1 DEF EndsAgree, SessionsAgree, KeysAreFresh, KeysWereGenerated
    <3>2. CASE t \notin Held(x)
      BY <1>2, <2>1, <2>2, <3>2
    <3> QED  BY <3>1, <3>2
  <2> QED  BY <2>2 DEF SessionsAgree
<1>12. NoPriorChains'
  BY <1>1, <1>2 DEF EndsAgree, NoPriorChains
<1> QED  BY <1>8, <1>9, <1>10, <1>11, <1>12 DEF EndsAgree

LEMMA InitiateEndsAgree ==
  ASSUME EndsAgree, BootstrapInitiatorCommand
  PROVE  EndsAgree'
<1> DEFINE key == NewKey(Initiator)
           s   == BootstrapInitiator(key, SignedPreKey)
           r   == [call |-> "initiate", key |-> key]
<1>0. /\ WellTyped /\ KeysAreFresh /\ KeysAreFresh'
      /\ Initiator \in Party /\ Peer(Initiator) = Responder
  BY InitiateKeysAreFresh, PartyAssumption, PeerFacts DEF EndsAgree, KeysAreFresh
<1>1. /\ step[Initiator] = "idle" /\ Generate(Initiator)
      /\ SaveThenReturn(Initiator, s, r)
      /\ UNCHANGED <<file, log, initials>>
  BY DEF BootstrapInitiatorCommand
<1>2. key \in RatchetKey /\ serial' = [serial EXCEPT ![Initiator] = @ + 1]
  BY <1>0, <1>1, NewKeyIsNew
<1>3. SignedPreKey \in Generated(Responder) /\ SignedPreKey \in RatchetKey
  BY <1>0, SignedPreKeyGenerated, PartyAssumption, KeyTypes
<1>4. IsSession(s)
  BY <1>2, <1>3, BootstrapSound
<1>5. /\ s.local = key /\ s.remote = SignedPreKey /\ s.recvCK = None /\ DOMAIN s.skipped = {}
      /\ s.prevLen = 0 /\ s.sendCK = FirstChainKey(BootstrapRoot(key, SignedPreKey))
  BY DEF BootstrapInitiator
<1>6. s.sendCK # None /\ s.sendCK.root = BootstrapRoot(key, SignedPreKey)
  <2>1. BootstrapRoot(key, SignedPreKey) \in RootKey
    BY <1>4 DEF BootstrapInitiator, IsSession
  <2> QED  BY <1>5, <2>1, ChainKeyType, NoneAssumption DEF FirstChainKey
<1>7. r.call = "initiate" /\ r.key = key
  OBVIOUS
<1> HIDE DEF s, r
<1>8. Agrees(Initiator, s) /\ NamesNoPriorChain(s)
  BY <1>5, <1>6 DEF Agrees, NamesNoPriorChain
<1> QED  BY <1>0, <1>1, <1>2, <1>3, <1>4, <1>5, <1>6, <1>7, <1>8, CommandEndsAgree

LEMMA RespondEndsAgree ==
  ASSUME EndsAgree, NEW key \in initials, BootstrapResponderCommand(key)
  PROVE  EndsAgree'
<1> DEFINE s == BootstrapResponder(SignedPreKey, key)
           r == [call |-> "respond"]
<1>0. /\ WellTyped /\ KeysAreFresh /\ KeysAreFresh'
      /\ Responder \in Party /\ Peer(Responder) = Initiator
  BY RespondKeysAreFresh, PartyAssumption, PeerFacts DEF EndsAgree, KeysAreFresh
<1>1. /\ step[Responder] = "idle" /\ SaveThenReturn(Responder, s, r)
      /\ UNCHANGED <<file, log, initials>> /\ serial' = serial
  BY DEF BootstrapResponderCommand
<1>2. key \in Generated(Initiator) /\ key \in RatchetKey /\ InitialKey(key)
  BY <1>0 DEF KeysAreFresh, KeysWereGenerated, WellTyped, TypeOK, InitialKey
<1>3. SignedPreKey \in RatchetKey
  BY <1>0, PartyAssumption, KeyTypes
<1>4. IsSession(s)
  BY <1>2, <1>3, BootstrapSound
<1>5. /\ s.remote = key /\ s.sendCK = None /\ s.sent = 0 /\ s.recvd = 0 /\ DOMAIN s.skipped = {}
      /\ s.recvCK = FirstChainKey(BootstrapRoot(SignedPreKey, key))
  BY DEF BootstrapResponder
<1>6. BootstrapRoot(SignedPreKey, key) = BootstrapRoot(key, SignedPreKey)
  BY DEF BootstrapRoot, DiffieHellman
<1>7. s.recvCK # None /\ s.recvCK.root = BootstrapRoot(key, SignedPreKey) /\ s.recvCK.n = 0
  <2>1. BootstrapRoot(SignedPreKey, key) \in RootKey
    BY <1>4 DEF BootstrapResponder, IsSession
  <2> QED  BY <1>5, <1>6, <2>1, ChainKeyType, NoneAssumption DEF FirstChainKey
<1>8. r.call = "respond"
  OBVIOUS
<1> HIDE DEF s, r
<1>9. Starts(Initiator, key, BootstrapRoot(key, SignedPreKey))
  BY <1>2 DEF EndsAgree, InitialKeysStartChains
<1>10. Agrees(Responder, s) /\ NamesNoPriorChain(s)
  BY <1>0, <1>5, <1>7, <1>9 DEF Agrees, NamesNoPriorChain
<1> QED  BY <1>0, <1>1, <1>2, <1>4, <1>5, <1>8, <1>10, CommandEndsAgree

LEMMA EncryptEndsAgree ==
  ASSUME EndsAgree, NEW p \in Party, EncryptMessage(p)
  PROVE  EndsAgree'
<1> DEFINE s   == file[p]
           key == NewKey(p)
           t   == EnsureSendingChain(s, key)
           u   == Encrypt(s, key).session
           e   == Encrypt(s, key).envelope
           r   == [call |-> "encrypt", envelope |-> e]
<1>0. WellTyped /\ KeysAreFresh /\ KeysAreFresh'
  BY EncryptKeysAreFresh DEF EndsAgree, KeysAreFresh
<1>1. /\ step[p] = "idle" /\ CanLoad(p) /\ SaveThenReturn(p, u, r)
      /\ IF s.sendCK = None THEN Generate(p) ELSE serial' = serial
      /\ UNCHANGED <<file, log, initials>>
  BY DEF EncryptMessage
<1>2. key \in RatchetKey /\ (serial' = serial \/ serial' = [serial EXCEPT ![p] = @ + 1])
  BY <1>0, <1>1, NewKeyIsNew
<1>3. IsSession(s) /\ Restorable(s) /\ s \in Held(p)
  BY <1>0, <1>1, LoadedSession, HeldSessions DEF CanLoad
<1>4. /\ IsSession(t) /\ t.sendCK # None
      /\ s.sendCK # None => t = s
      /\ s.sendCK = None => t.local = key /\ t.prevLen = s.sent
  BY <1>2, <1>3, EnsureSendingChainSound
<1>5. /\ IsSession(u) /\ e.pn = t.prevLen /\ u.local = t.local
      /\ u.prevLen = t.prevLen /\ u.sendCK = NextChainKey(t.sendCK) /\ u.sendCK # None
  BY <1>2, <1>3, EncryptSound
<1>6. /\ u.remote = s.remote /\ u.recvCK = s.recvCK
      /\ u.recvd = s.recvd /\ u.skipped = s.skipped
  BY <1>2, <1>3, EncryptKeepsReceiving
<1>7. r.call = "encrypt" /\ r.envelope = e
  OBVIOUS
<1> HIDE DEF t, u, e, r
<1>8. s.remote \in Generated(Peer(p)) /\ Agrees(p, s) /\ NamesNoPriorChain(s)
  BY <1>3 DEF EndsAgree, KeysAreFresh, KeysWereGenerated, SessionsAgree, NoPriorChains
<1>9. t.prevLen = 0
  BY <1>4, <1>8 DEF NamesNoPriorChain
<1>10. u.sendCK.root = t.sendCK.root
  BY <1>4, <1>5 DEF NextChainKey, Advanced, ChainKey, IsSession
<1>11. <<u.local, u.sendCK.root>> \in Chains(p) \/ u.local = key
  BY <1>3, <1>4, <1>5, <1>10 DEF Chains
<1>12. Agrees(p, u) /\ NamesNoPriorChain(u)
  BY <1>5, <1>6, <1>8, <1>9 DEF Agrees, NamesNoPriorChain
<1> HIDE DEF s
<1> QED  BY <1>0, <1>1, <1>2, <1>5, <1>6, <1>7, <1>8, <1>9, <1>11, <1>12, CommandEndsAgree DEF key

(* What an end reads from its peer's log.                                  *)
LEMMA ReceivedEnvelope ==
  ASSUME EndsAgree, NEW p \in Party, NEW m \in 1 .. Len(log[Peer(p)])
  PROVE  LET e == log[Peer(p)][m]
         IN /\ m \in DOMAIN log[Peer(p)] /\ e \in Envelope
            /\ e.key \in Generated(Peer(p)) /\ e.pn = 0 /\ e.mk.n = e.n
            /\ Starts(Peer(p), e.key, e.mk.root)
<1> DEFINE q == Peer(p)
           e == log[q][m]
<1>1. KeysAreFresh /\ WellTyped /\ q \in Party
  BY PeerFacts DEF EndsAgree, KeysAreFresh
<1>2. m \in DOMAIN log[q]
  <2>1. log[q] \in Seq(Envelope)
    BY <1>1 DEF WellTyped, TypeOK
  <2> QED  BY <2>1
<1>3. e \in Envelope /\ e.key \in Generated(q)
  BY <1>1, <1>2, LogKeysGenerated
<1>4. e.pn = 0 /\ e.mk.n = e.n
  BY <1>1, <1>2 DEF EndsAgree, NoPriorChains, KeysAreFresh, ChainsAreCounted
<1>5. <<e.key, e.mk.root>> \in Chains(q)
  BY <1>2 DEF Chains
<1> HIDE DEF e, q
<1>6. Starts(q, e.key, e.mk.root)
  <2>1. \A c \in Chains(q) : Starts(q, c[1], c[2])
    BY <1>1 DEF EndsAgree, OneRootPerKey
  <2> QED  BY <1>5, <2>1
<1> QED  BY <1>2, <1>3, <1>4, <1>6 DEF e, q

(* Opening a message keeps a session in agreement with its peer.           *)
LEMMA OpeningAgrees ==
  ASSUME EndsAgree, NEW p \in Party, NEW s, Agrees(p, s), NEW t, IsSession(s), IsSession(t),
         NEW e \in Envelope, e.key \in Generated(Peer(p)), e.mk.n = e.n,
         Starts(Peer(p), e.key, e.mk.root),
         OpenedAside(s, t, e) \/ OpenedInChain(s, t, e)
  PROVE  Agrees(p, t)
<1> DEFINE q == Peer(p)
           from == IF s.remote = e.key THEN s.recvd ELSE 0
           P    == {e.key} \X (from .. e.n - 1)
<1>1. CASE OpenedAside(s, t, e)
  BY <1>1 DEF OpenedAside, Agrees
<1>2. CASE OpenedInChain(s, t, e)
  <2>1. /\ t.remote = e.key /\ t.recvCK = NextChainKey(e.mk) /\ t.recvd = e.n + 1
        /\ DOMAIN t.skipped = DOMAIN s.skipped \cup P
        /\ \A id \in P : t.skipped[id].root = e.mk.root /\ t.skipped[id].n = id[2]
        /\ \A id \in DOMAIN s.skipped \ P : t.skipped[id] = s.skipped[id]
    BY <1>2 DEF OpenedInChain
  <2>2. \A id \in P : id[1] = e.key
    OBVIOUS
  <2> HIDE DEF P, from
  <2>3. t.recvCK # None /\ t.recvCK.root = e.mk.root /\ t.recvCK.n = t.recvd
    <3>1. e.mk \in ChainKey
      BY DEF Envelope
    <3>2. NextChainKey(e.mk) \in ChainKey
      BY <3>1, ChainKeyType
    <3>3. NextChainKey(e.mk).root = e.mk.root /\ NextChainKey(e.mk).n = e.mk.n + 1
      BY <3>1 DEF NextChainKey, Advanced, ChainKey
    <3> QED  BY <2>1, <3>2, <3>3, NoneAssumption
  <2>4. ASSUME NEW id \in DOMAIN t.skipped
        PROVE  /\ id[1] \in Generated(q) /\ t.skipped[id].n = id[2]
               /\ Starts(q, id[1], t.skipped[id].root)
    <3>1. CASE id \in P
      BY <2>1, <2>2, <3>1
    <3>2. CASE id \notin P
      BY <2>1, <2>4, <3>2 DEF Agrees
    <3> QED  BY <3>1, <3>2
  <2> QED  BY <2>1, <2>3, <2>4 DEF Agrees
<1> QED  BY <1>1, <1>2

LEMMA DecryptEndsAgree ==
  ASSUME EndsAgree, NEW p \in Party, NEW m \in 1 .. Len(log[Peer(p)]), DecryptMessage(p, m)
  PROVE  EndsAgree'
<1> DEFINE s == file[p]
           e == log[Peer(p)][m]
           u == Decrypt(s, e).session
           r == [call |-> "decrypt", message |-> m]
<1>0. WellTyped /\ KeysAreFresh /\ KeysAreFresh'
  BY DecryptKeysAreFresh DEF EndsAgree, KeysAreFresh
<1>1. /\ step[p] = "idle" /\ CanLoad(p) /\ SaveThenReturn(p, u, r) /\ Decrypt(s, e).ok
      /\ UNCHANGED <<file, log, initials>> /\ serial' = serial
  BY DEF DecryptMessage
<1>2. IsSession(s) /\ Restorable(s) /\ s \in Held(p)
  BY <1>0, <1>1, LoadedSession, HeldSessions DEF CanLoad
<1>3. /\ e \in Envelope /\ e.key \in Generated(Peer(p)) /\ e.pn = 0 /\ e.mk.n = e.n
      /\ Starts(Peer(p), e.key, e.mk.root)
  BY ReceivedEnvelope
<1>4. s.remote \in Generated(Peer(p)) /\ Agrees(p, s) /\ NamesNoPriorChain(s)
  BY <1>2 DEF EndsAgree, KeysAreFresh, KeysWereGenerated, SessionsAgree, NoPriorChains
<1>5. s.recvCK # None => s.recvCK.n = s.recvd
  BY <1>4 DEF Agrees
<1>6. IsSession(u) /\ (KeepsSending(s, u) \/ ClosesSending(s, u, e.key))
  BY <1>2, <1>3, DecryptSound
<1>7. OpenedAside(s, u, e) \/ OpenedInChain(s, u, e)
  BY <1>1, <1>2, <1>3, <1>5, DecryptEffect
<1>8. r.call = "decrypt"
  OBVIOUS
<1> HIDE DEF s, e, u, r
<1>9. Agrees(p, u)
  BY <1>2, <1>3, <1>4, <1>6, <1>7, OpeningAgrees
<1>10. NamesNoPriorChain(u) /\ u.remote \in Generated(Peer(p))
  BY <1>3, <1>4, <1>6 DEF NamesNoPriorChain, KeepsSending, ClosesSending
<1>11. u.sendCK # None => <<u.local, u.sendCK.root>> \in Chains(p)
  BY <1>2, <1>6 DEF Chains, KeepsSending, ClosesSending
<1> QED  BY <1>0, <1>1, <1>6, <1>8, <1>9, <1>10, <1>11, CommandEndsAgree

(* The steps that are not commands start no chain.                         *)
LEMMA OtherStepsEndAgree ==
  ASSUME EndsAgree, KeysAreFresh', NEW p \in Party,
         RemoveOld(p) \/ Rename(p) \/ Return(p) \/ Crash(p)
  PROVE  EndsAgree'
<1>0. WellTyped /\ KeysAreFresh
  BY DEF EndsAgree, KeysAreFresh
<1>1. \A x \in Party : Held(x)' \subseteq Held(x) /\ result'[x] \in {result[x], NoResult}
  BY <1>0, OtherStepsHold
<1>2. \A x \in Party : Chains(x)' \subseteq Chains(x) /\ Generated(x)' = Generated(x)
  BY <1>0, OtherStepsAddNoChain
<1>3. NoResult.call = "none"
  BY DEF NoResult
<1>4. ASSUME NEW x \in Party, NEW k, NEW root, Starts(x, k, root) PROVE Starts(x, k, root)'
  BY <1>2, <1>4 DEF Starts
<1>5. OneRootPerKey' /\ PreKeySealsNothing'
  BY <1>2, PartyAssumption DEF EndsAgree, OneRootPerKey, PreKeySealsNothing, Starts
<1>6. InitialKeysStartChains'
  <2>1. ASSUME NEW k, InitialKey(k)' PROVE InitialKey(k)
    <3>1. CASE initials' = initials
      BY <2>1, <3>1, <1>1, <1>3 DEF InitialKey
    <3>2. CASE Return(p)
      <4>1. /\ result[p].call = "initiate" => initials' = initials \cup {result[p].key}
            /\ result[p].call # "initiate" => initials' = initials
        BY <1>0, <3>2, ReturnEffect
      <4> QED  BY <2>1, <4>1, <1>1, <1>3 DEF InitialKey
    <3> QED  BY <3>1, <3>2 DEF RemoveOld, Rename, Crash
  <2>2. ASSUME NEW k, InitialKey(k)
        PROVE  Starts(Initiator, k, BootstrapRoot(k, SignedPreKey))'
    <3>1. Starts(Initiator, k, BootstrapRoot(k, SignedPreKey))
      BY <2>2 DEF EndsAgree, InitialKeysStartChains
    <3> QED  BY <3>1, <1>4, PartyAssumption
  <2> QED  BY <2>1, <2>2 DEF InitialKeysStartChains
<1>7. SessionsAgree'
  <2>1. ASSUME NEW x \in Party, NEW t \in Held(x)' PROVE Agrees(x, t)'
    <3>1. t \in Held(x) /\ Agrees(x, t) /\ t.remote \in Generated(Peer(x))
      BY <1>0, <1>1 DEF EndsAgree, SessionsAgree, KeysAreFresh, KeysWereGenerated
    <3> QED  BY <3>1, <1>2, <1>4, PeerFacts, AgreementLasts
  <2> QED  BY <2>1 DEF SessionsAgree
<1>8. NoPriorChains'
  <2>1. \A x \in Party : \A i \in DOMAIN log'[x] : log'[x][i].pn = 0
    <3>1. CASE log' = log
      BY <3>1 DEF EndsAgree, NoPriorChains
    <3>2. CASE Return(p) /\ result[p].call = "encrypt"
      <4>1. /\ log'[Peer(p)] = log[Peer(p)]
            /\ \A i \in DOMAIN log'[p] : \/ i \in DOMAIN log[p] /\ log'[p][i] = log[p][i]
                                         \/ log'[p][i] = result[p].envelope
        BY <1>0, <3>2, ReleaseLogs
      <4>2. result[p].envelope.pn = 0
        BY <3>2 DEF EndsAgree, NoPriorChains
      <4> QED  BY <4>1, <4>2, PeerFacts DEF EndsAgree, NoPriorChains
    <3> QED  BY <1>0, <3>1, <3>2, ReturnEffect DEF RemoveOld, Rename, Crash
  <2> QED  BY <2>1, <1>1, <1>3 DEF EndsAgree, NoPriorChains
<1> QED  BY <1>5, <1>6, <1>7, <1>8 DEF EndsAgree

LEMMA NextEndsAgree == EndsAgree /\ [Next]_vars => EndsAgree'
<1> SUFFICES ASSUME EndsAgree, [Next]_vars PROVE EndsAgree'
  OBVIOUS
<1>0. KeysAreFresh'
  BY NextKeysAreFresh DEF EndsAgree
<1>1. CASE UNCHANGED vars
  <2>1. UNCHANGED <<file, next, result, serial, log, initials>>
    BY <1>1 DEF vars
  <2>2. \A x : Held(x)' = Held(x) /\ Generated(x)' = Generated(x)
    BY <2>1 DEF Held, Generated
  <2>3. \A x : Chains(x)' = Chains(x)
    BY <2>1, <2>2 DEF Chains
  <2>4. \A x, k, root : Starts(x, k, root)' <=> Starts(x, k, root)
    BY <2>3 DEF Starts
  <2>5. \A x, s : Agrees(x, s)' <=> Agrees(x, s)
    BY <2>2, <2>4 DEF Agrees
  <2>6. OneRootPerKey' /\ PreKeySealsNothing'
    BY <2>3, <2>4 DEF EndsAgree, OneRootPerKey, PreKeySealsNothing
  <2>7. InitialKeysStartChains'
    BY <2>1, <2>4 DEF EndsAgree, InitialKeysStartChains, InitialKey
  <2>8. SessionsAgree' /\ NoPriorChains'
    BY <2>1, <2>2, <2>5 DEF EndsAgree, SessionsAgree, NoPriorChains
  <2> QED  BY <1>0, <2>6, <2>7, <2>8 DEF EndsAgree
<1> QED  BY <1>0, <1>1, InitiateEndsAgree, RespondEndsAgree, EncryptEndsAgree,
            DecryptEndsAgree, OtherStepsEndAgree
         DEF Next

(* A session that has passed messages of the chain it receives on has the  *)
(* keys of all of them, but for those that are done; and its peer, which   *)
(* numbers what it releases upwards, is that far.                          *)
Passed(s, sent, done) ==
  s.recvCK # None =>
    /\ s.recvd > 0 =>
         \E m \in DOMAIN sent : sent[m].key = s.remote /\ s.recvd <= sent[m].n + 1
    /\ \A m \in DOMAIN sent :
         sent[m].key = s.remote /\ sent[m].n < s.recvd =>
           <<s.remote, sent[m].n>> \in DOMAIN s.skipped \/ m \in done

(* The message that the running command opens.                             *)
Opens(r) == IF r.call = "decrypt" THEN {r.message} ELSE {}

NothingIsLost ==
  \A p \in Party :
    /\ file[p] # NoSession => Passed(file[p], log[Peer(p)], consumed[p])
    /\ next[p] # NoSession => Passed(next[p], log[Peer(p)], consumed[p] \cup Opens(result[p]))

WhatIsOwedIsHeld == EndsAgree /\ NothingIsLost

(* One more message, numbered beyond the others of its ratchet key.        *)
LEMMA ReleasePasses ==
  ASSUME NEW s, IsSession(s), NEW sent, NEW done, Passed(s, sent, done),
         NEW more, NEW k, NEW e \in Envelope,
         DOMAIN more = DOMAIN sent \cup {k}, k \notin DOMAIN sent, more[k] = e,
         \A i \in DOMAIN sent : more[i] = sent[i],
         \A i \in DOMAIN sent : sent[i].n \in Nat /\ (sent[i].key = e.key => sent[i].n < e.n)
  PROVE  Passed(s, more, done)
<1> SUFFICES ASSUME s.recvCK # None
             PROVE  /\ s.recvd > 0 =>
                         \E m \in DOMAIN more : more[m].key = s.remote /\ s.recvd <= more[m].n + 1
                    /\ \A m \in DOMAIN more :
                         more[m].key = s.remote /\ more[m].n < s.recvd =>
                           <<s.remote, more[m].n>> \in DOMAIN s.skipped \/ m \in done
  BY DEF Passed
<1>1. s.recvd \in Nat /\ e.n \in Nat
  BY DEF IsSession, Envelope
<1>2. s.recvd > 0 => \E m \in DOMAIN sent : sent[m].key = s.remote /\ s.recvd <= sent[m].n + 1
  BY DEF Passed
<1>3. ASSUME e.key = s.remote, e.n < s.recvd PROVE FALSE
  <2>1. PICK m \in DOMAIN sent : sent[m].key = s.remote /\ s.recvd <= sent[m].n + 1
    BY <1>1, <1>2, <1>3
  <2>2. sent[m].n \in Nat /\ sent[m].n < e.n
    BY <1>3, <2>1
  <2> QED  BY <1>1, <1>3, <2>1, <2>2
<1>4. ASSUME s.recvd > 0
      PROVE  \E m \in DOMAIN more : more[m].key = s.remote /\ s.recvd <= more[m].n + 1
  BY <1>2, <1>4
<1>5. ASSUME NEW m \in DOMAIN more, more[m].key = s.remote, more[m].n < s.recvd
      PROVE  <<s.remote, more[m].n>> \in DOMAIN s.skipped \/ m \in done
  <2>1. m \in DOMAIN sent
    BY <1>3, <1>5
  <2> QED  BY <1>5, <2>1 DEF Passed
<1> QED  BY <1>4, <1>5

(* What a decryption passes it puts aside, and what it opens it opens.     *)
LEMMA OpeningPasses ==
  ASSUME NEW s, IsSession(s), NEW t, NEW sent, NEW done, Passed(s, sent, done),
         NEW m \in DOMAIN sent,
         \A i \in DOMAIN sent : sent[i].n \in Nat,
         \A i \in DOMAIN sent : sent[i].key = sent[m].key /\ sent[i].n = sent[m].n => i = m,
         OpenedAside(s, t, sent[m]) \/ OpenedInChain(s, t, sent[m])
  PROVE  Passed(t, sent, done \cup {m})
<1> DEFINE e == sent[m]
           from == IF s.remote = e.key THEN s.recvd ELSE 0
           P    == {e.key} \X (from .. e.n - 1)
<1>1. CASE OpenedAside(s, t, e)
  <2>1. /\ t.remote = s.remote /\ t.recvCK = s.recvCK /\ t.recvd = s.recvd
        /\ DOMAIN t.skipped = DOMAIN s.skipped \ {<<e.key, e.n>>}
    BY <1>1 DEF OpenedAside
  <2>2. ASSUME t.recvCK # None, NEW i \in DOMAIN sent, sent[i].key = t.remote,
               sent[i].n < t.recvd
        PROVE  <<t.remote, sent[i].n>> \in DOMAIN t.skipped \/ i \in done \cup {m}
    <3>1. <<s.remote, sent[i].n>> \in DOMAIN s.skipped \/ i \in done
      BY <2>1, <2>2 DEF Passed
    <3>2. ASSUME <<s.remote, sent[i].n>> = <<e.key, e.n>> PROVE i = m
      BY <2>1, <2>2, <3>2
    <3> QED  BY <2>1, <3>1, <3>2
  <2> QED  BY <2>1, <2>2 DEF Passed
<1>2. CASE OpenedInChain(s, t, e)
  <2>1. /\ t.remote = e.key /\ t.recvd = e.n + 1
        /\ s.remote = e.key => s.recvCK # None
        /\ DOMAIN t.skipped = DOMAIN s.skipped \cup P
    BY <1>2 DEF OpenedInChain
  <2>2. e.n \in Nat /\ s.recvd \in Nat
    BY DEF IsSession
  <2>3. ASSUME NEW i \in DOMAIN sent, sent[i].key = e.key, sent[i].n < e.n + 1, i # m
        PROVE  <<e.key, sent[i].n>> \in DOMAIN t.skipped \/ i \in done
    <3>1. sent[i].n \in Nat /\ sent[i].n # e.n
      BY <2>3
    <3>2. CASE from <= sent[i].n
      <4>1. sent[i].n \in from .. e.n - 1
        BY <2>2, <2>3, <3>1, <3>2
      <4> QED  BY <2>1, <4>1
    <3>3. CASE ~(from <= sent[i].n)
      <4>1. s.remote = e.key /\ sent[i].n < s.recvd
        BY <2>2, <3>1, <3>3
      <4> HIDE DEF e, P, from
      <4>2. <<e.key, sent[i].n>> \in DOMAIN s.skipped \/ i \in done
        BY <2>1, <2>3, <4>1 DEF Passed
      <4> QED  BY <2>1, <4>2
    <3> QED  BY <3>2, <3>3
  <2>4. \E i \in DOMAIN sent : sent[i].key = t.remote /\ t.recvd <= sent[i].n + 1
    BY <2>1, <2>2
  <2> HIDE DEF e
  <2> QED  BY <2>1, <2>3, <2>4 DEF Passed
<1> QED  BY <1>1, <1>2

LEMMA InitHeld == Init => WhatIsOwedIsHeld
BY InitEndsAgree DEF Init, WhatIsOwedIsHeld, NothingIsLost

(* A command saves session s and then returns r.                           *)
LEMMA CommandLosesNothing ==
  ASSUME WhatIsOwedIsHeld, NEW p \in Party, NEW s, NEW r, SaveThenReturn(p, s, r),
         UNCHANGED <<file, log, consumed>>,
         Passed(s, log[Peer(p)], consumed[p] \cup Opens(r))
  PROVE  NothingIsLost'
<1>1. /\ next' = [next EXCEPT ![p] = s] /\ result' = [result EXCEPT ![p] = r]
      /\ file' = file /\ log' = log /\ consumed' = consumed
  BY DEF SaveThenReturn
<1>2. DOMAIN next = Party /\ DOMAIN result = Party
  BY DEF WhatIsOwedIsHeld, EndsAgree, KeysAreFresh, WellTyped, TypeOK
<1>3. ASSUME NEW x \in Party
      PROVE  /\ file'[x] # NoSession => Passed(file'[x], log'[Peer(x)], consumed'[x])
             /\ next'[x] # NoSession =>
                  Passed(next'[x], log'[Peer(x)], consumed'[x] \cup Opens(result'[x]))
  <2>1. CASE x = p
    BY <1>1, <1>2, <2>1 DEF WhatIsOwedIsHeld, NothingIsLost
  <2>2. CASE x # p
    BY <1>1, <1>2, <2>2 DEF WhatIsOwedIsHeld, NothingIsLost
  <2> QED  BY <2>1, <2>2
<1> QED  BY <1>3 DEF NothingIsLost

(* Bootstraps receive a chain from its beginning; encrypting leaves it.    *)
LEMMA CommandsLoseNothing ==
  ASSUME WhatIsOwedIsHeld, NEW p \in Party,
         \/ BootstrapInitiatorCommand
         \/ \E key \in initials : BootstrapResponderCommand(key)
         \/ EncryptMessage(p)
         \/ \E m \in 1 .. Len(log[Peer(p)]) : DecryptMessage(p, m)
  PROVE  NothingIsLost'
<1>0. WellTyped /\ KeysAreFresh /\ EndsAgree
  BY DEF WhatIsOwedIsHeld, EndsAgree, KeysAreFresh
<1>1. CASE BootstrapInitiatorCommand
  <2> DEFINE key == NewKey(Initiator)
             s   == BootstrapInitiator(key, SignedPreKey)
             r   == [call |-> "initiate", key |-> key]
  <2>1. SaveThenReturn(Initiator, s, r) /\ UNCHANGED <<file, log, consumed>>
    BY <1>1 DEF BootstrapInitiatorCommand
  <2>2. s.recvCK = None
    BY DEF BootstrapInitiator
  <2>3. Initiator \in Party
    BY PartyAssumption
  <2> HIDE DEF s, r
  <2>4. \A sent, done : Passed(s, sent, done)
    BY <2>2 DEF Passed
  <2> QED  BY <2>1, <2>3, <2>4, CommandLosesNothing
<1>2. ASSUME NEW key \in initials, BootstrapResponderCommand(key) PROVE NothingIsLost'
  <2> DEFINE s == BootstrapResponder(SignedPreKey, key)
             r == [call |-> "respond"]
  <2>1. SaveThenReturn(Responder, s, r) /\ UNCHANGED <<file, log, consumed>>
    BY <1>2 DEF BootstrapResponderCommand
  <2>2. s.recvd = 0
    BY DEF BootstrapResponder
  <2>3. Responder \in Party /\ Peer(Responder) \in Party
    BY PartyAssumption, PeerFacts
  <2>4. \A i \in DOMAIN log[Peer(Responder)] : log[Peer(Responder)][i].n \in Nat
    BY <1>0, <2>3, LogKeysGenerated
  <2> HIDE DEF s, r
  <2>5. \A done : Passed(s, log[Peer(Responder)], done)
    BY <2>2, <2>4 DEF Passed
  <2> QED  BY <2>1, <2>3, <2>5, CommandLosesNothing
<1>3. CASE EncryptMessage(p)
  <2> DEFINE s == file[p]
             u == Encrypt(s, NewKey(p)).session
             r == [call |-> "encrypt", envelope |-> Encrypt(s, NewKey(p)).envelope]
  <2>1. /\ CanLoad(p) /\ SaveThenReturn(p, u, r) /\ UNCHANGED <<file, log, consumed>>
    BY <1>3 DEF EncryptMessage
  <2>2. IsSession(s) /\ Restorable(s) /\ NewKey(p) \in RatchetKey
    BY <1>0, <2>1, LoadedSession, NewKeyIsNew DEF CanLoad
  <2>3. /\ u.remote = s.remote /\ u.recvCK = s.recvCK
        /\ u.recvd = s.recvd /\ u.skipped = s.skipped
    BY <2>2, EncryptKeepsReceiving
  <2>4. Passed(s, log[Peer(p)], consumed[p])
    BY <2>1 DEF WhatIsOwedIsHeld, NothingIsLost, CanLoad
  <2>5. Opens(r) = {}
    BY DEF Opens
  <2> HIDE DEF s, u, r
  <2>6. Passed(u, log[Peer(p)], consumed[p] \cup Opens(r))
    BY <2>3, <2>4, <2>5 DEF Passed
  <2> QED  BY <2>1, <2>6, CommandLosesNothing
<1>4. ASSUME NEW m \in 1 .. Len(log[Peer(p)]), DecryptMessage(p, m) PROVE NothingIsLost'
  <2> DEFINE s    == file[p]
             sent == log[Peer(p)]
             u    == Decrypt(s, sent[m]).session
             r    == [call |-> "decrypt", message |-> m]
  <2>1. /\ CanLoad(p) /\ SaveThenReturn(p, u, r) /\ UNCHANGED <<file, log, consumed>>
        /\ Decrypt(s, sent[m]).ok
    BY <1>4 DEF DecryptMessage
  <2>2. IsSession(s) /\ Restorable(s) /\ s \in Held(p) /\ Peer(p) \in Party
    BY <1>0, <2>1, LoadedSession, HeldSessions, PeerFacts DEF CanLoad
  <2>3. /\ m \in DOMAIN sent /\ sent[m] \in Envelope
        /\ sent[m].pn = 0 /\ sent[m].mk.n = sent[m].n
    BY <1>0, <1>4, ReceivedEnvelope
  <2>4. s.recvCK # None => s.recvCK.n = s.recvd
    BY <1>0, <2>2 DEF EndsAgree, SessionsAgree, Agrees
  <2>5. OpenedAside(s, u, sent[m]) \/ OpenedInChain(s, u, sent[m])
    BY <2>1, <2>2, <2>3, <2>4, DecryptEffect
  <2>6. Passed(s, sent, consumed[p])
    BY <2>1 DEF WhatIsOwedIsHeld, NothingIsLost, CanLoad
  <2>7. /\ \A i \in DOMAIN sent : sent[i].n \in Nat
        /\ \A i \in DOMAIN sent : sent[i].key = sent[m].key /\ sent[i].n = sent[m].n => i = m
    BY <1>0, <2>2, <2>3, LogKeysGenerated DEF KeysAreFresh, NumbersAreDistinct
  <2>8. Opens(r) = {m}
    BY DEF Opens
  <2> HIDE DEF s, u, r
  <2>9. Passed(u, sent, consumed[p] \cup {m})
    BY <2>2, <2>3, <2>5, <2>6, <2>7, OpeningPasses
  <2> QED  BY <2>1, <2>8, <2>9, CommandLosesNothing
<1> QED  BY <1>1, <1>2, <1>3, <1>4

(* What is saved is on disk with what it opened; a crash only drops what   *)
(* is not saved.                                                           *)
LEMMA StoreLosesNothing ==
  ASSUME WhatIsOwedIsHeld, NEW p \in Party, RemoveOld(p) \/ Rename(p) \/ Crash(p)
  PROVE  NothingIsLost'
<1>0. /\ DOMAIN step = Party /\ DOMAIN next = Party /\ DOMAIN result = Party
      /\ DOMAIN file = Party /\ DOMAIN consumed = Party
  BY DEF WhatIsOwedIsHeld, EndsAgree, KeysAreFresh, WellTyped, TypeOK
<1>1. ASSUME NEW x \in Party
      PROVE  /\ file'[x] # NoSession => Passed(file'[x], log'[Peer(x)], consumed'[x])
             /\ next'[x] # NoSession =>
                  Passed(next'[x], log'[Peer(x)], consumed'[x] \cup Opens(result'[x]))
  <2>0. /\ file[x] # NoSession => Passed(file[x], log[Peer(x)], consumed[x])
        /\ next[x] # NoSession => Passed(next[x], log[Peer(x)], consumed[x] \cup Opens(result[x]))
    BY DEF WhatIsOwedIsHeld, NothingIsLost
  <2>1. CASE RemoveOld(p)
    BY <1>0, <2>0, <2>1 DEF RemoveOld
  <2>2. CASE Rename(p)
    <3>1. /\ file' = [file EXCEPT ![p] = next[p]] /\ next' = [next EXCEPT ![p] = NoSession]
          /\ log' = log /\ result' = result
          /\ consumed' = [consumed EXCEPT ![p] = consumed[p] \cup Opens(result[p])]
      <4>1. result[p].call = "decrypt" =>
              consumed' = [consumed EXCEPT ![p] = consumed[p] \cup Opens(result[p])]
        BY <2>2 DEF Rename, Opens
      <4>2. result[p].call # "decrypt" => consumed' = consumed /\ Opens(result[p]) = {}
        BY <2>2 DEF Rename, Opens
      <4>3. result[p].call # "decrypt" =>
              consumed' = [consumed EXCEPT ![p] = consumed[p] \cup Opens(result[p])]
        BY <1>0, <4>2 DEF WhatIsOwedIsHeld, EndsAgree, KeysAreFresh, WellTyped, TypeOK
      <4> QED  BY <2>2, <4>1, <4>3 DEF Rename
    <3>2. CASE x = p
      BY <1>0, <2>0, <3>1, <3>2
    <3>3. CASE x # p
      BY <1>0, <2>0, <3>1, <3>3
    <3> QED  BY <3>2, <3>3
  <2>3. CASE Crash(p)
    BY <1>0, <2>0, <2>3 DEF Crash
  <2> QED  BY <2>1, <2>2, <2>3
<1> QED  BY <1>1 DEF NothingIsLost

LEMMA ReturnLosesNothing ==
  ASSUME WhatIsOwedIsHeld, NEW p \in Party, Return(p)
  PROVE  NothingIsLost'
<1>0. WellTyped /\ KeysAreFresh
  BY DEF WhatIsOwedIsHeld, EndsAgree, KeysAreFresh
<1>1. /\ result' = [result EXCEPT ![p] = NoResult] /\ next[p] = NoSession
      /\ UNCHANGED <<file, next, consumed>>
      /\ result[p].call # "encrypt" => log' = log
  BY <1>0, ReturnEffect
<1>2. DOMAIN result = Party
  BY <1>0 DEF WellTyped, TypeOK
<1>3. ASSUME NEW x \in Party, NEW s, IsSession(s), NEW done, Passed(s, log[Peer(x)], done)
      PROVE  Passed(s, log'[Peer(x)], done)
  <2>1. CASE result[p].call # "encrypt" \/ Peer(x) # p
    <3>1. log'[Peer(x)] = log[Peer(x)]
      BY <1>0, <1>1, <2>1, ReleaseLogs, PeerFacts
    <3> QED  BY <1>3, <3>1
  <2>2. CASE result[p].call = "encrypt" /\ Peer(x) = p
    <3> DEFINE k == Len(log[p]) + 1
               e == result[p].envelope
    <3>1. /\ DOMAIN log'[p] = DOMAIN log[p] \cup {k} /\ k \notin DOMAIN log[p]
          /\ log'[p][k] = e /\ e \in Envelope
          /\ \A i \in DOMAIN log[p] : log'[p][i] = log[p][i]
      BY <1>0, <2>2, ReleaseLogs
    <3>2. \A i \in DOMAIN log[p] : log[p][i].key = e.key => log[p][i].n < e.n
      BY <2>2 DEF WhatIsOwedIsHeld, EndsAgree, KeysAreFresh, EnvelopesAreSaved, SealedBy
    <3>3. \A i \in DOMAIN log[p] : log[p][i].n \in Nat
      BY <1>0, LogKeysGenerated
    <3> HIDE DEF k, e
    <3> QED  BY <1>3, <2>2, <3>1, <3>2, <3>3, ReleasePasses
  <2> QED  BY <2>1, <2>2
<1>4. ASSUME NEW x \in Party
      PROVE  /\ file'[x] # NoSession => Passed(file'[x], log'[Peer(x)], consumed'[x])
             /\ next'[x] # NoSession =>
                  Passed(next'[x], log'[Peer(x)], consumed'[x] \cup Opens(result'[x]))
  <2>1. /\ file[x] # NoSession => IsSession(file[x]) /\ Passed(file[x], log[Peer(x)], consumed[x])
        /\ next[x] # NoSession =>
             IsSession(next[x]) /\ Passed(next[x], log[Peer(x)], consumed[x] \cup Opens(result[x]))
    BY <1>0 DEF WhatIsOwedIsHeld, NothingIsLost, WellTyped, TypeOK
  <2>2. next[x] # NoSession => result'[x] = result[x]
    BY <1>1, <1>2
  <2> QED  BY <1>1, <1>3, <2>1, <2>2
<1> QED  BY <1>4 DEF NothingIsLost

LEMMA NextHeld == WhatIsOwedIsHeld /\ [Next]_vars => WhatIsOwedIsHeld'
<1> SUFFICES ASSUME WhatIsOwedIsHeld, [Next]_vars PROVE WhatIsOwedIsHeld'
  OBVIOUS
<1>0. EndsAgree'
  BY NextEndsAgree DEF WhatIsOwedIsHeld
<1>1. CASE UNCHANGED vars
  BY <1>0, <1>1 DEF vars, WhatIsOwedIsHeld, NothingIsLost
<1>2. CASE Next
  <2>1. PICK q \in Party : TRUE
    BY PartyAssumption
  <2>2. NothingIsLost'
    BY <1>2, <2>1, CommandsLoseNothing, StoreLosesNothing, ReturnLosesNothing DEF Next
  <2> QED  BY <1>0, <2>2 DEF WhatIsOwedIsHeld
<1> QED  BY <1>1, <1>2

LEMMA AlwaysHeld == Spec => []WhatIsOwedIsHeld
BY InitHeld, NextHeld, PTL DEF Spec

(* A message of the chain that a stored session receives on now, or that   *)
(* its header starts, opens unless its decryption was saved before: its key*)
(* was put aside, or is ahead on the chain within the window.  This holds  *)
(* whatever was presented, refused, repeated or lost to a crash before.    *)
THEOREM StoredSessionsStayUsable == Spec => []CurrentChainOpens
<1>1. ASSUME WhatIsOwedIsHeld PROVE CurrentChainOpens
  <2> SUFFICES ASSUME NEW p \in Party, NEW m \in 1 .. Len(log[Peer(p)]), m \notin consumed[p],
                      file[p] # NoSession, CurrentChain(file[p], log[Peer(p)][m]),
                      Cardinality(DOMAIN file[p].skipped)
                        + Gap(file[p], log[Peer(p)][m]) <= MaxSkipped
               PROVE  Decrypt(file[p], log[Peer(p)][m]).ok
    BY DEF CurrentChainOpens
  <2> DEFINE s == file[p]
             q == Peer(p)
             e == log[q][m]
  <2>0. EndsAgree /\ KeysAreFresh /\ WellTyped /\ q \in Party /\ q # p
    BY <1>1, PeerFacts DEF WhatIsOwedIsHeld, EndsAgree, KeysAreFresh
  <2>1. IsSession(s) /\ s \in Held(p) /\ Agrees(p, s)
    BY <2>0, HeldSessions DEF EndsAgree, SessionsAgree
  <2>2. /\ m \in DOMAIN log[q] /\ e \in Envelope /\ e.pn = 0 /\ e.mk.n = e.n
        /\ <<e.key, e.mk.root>> \in Chains(q)
    <3>1. /\ m \in DOMAIN log[q] /\ e \in Envelope /\ e.pn = 0 /\ e.mk.n = e.n
      BY <2>0, ReceivedEnvelope
    <3> QED  BY <3>1 DEF Chains
  <2>3. Passed(s, log[q], consumed[p])
    BY <1>1 DEF WhatIsOwedIsHeld, NothingIsLost
  <2>4. CurrentChain(s, e) /\ Cardinality(DOMAIN s.skipped) + Gap(s, e) <= MaxSkipped
    OBVIOUS
  <2>5. e.n \in Nat /\ e.mk \in ChainKey /\ s.recvd \in Nat
    BY <2>1, <2>2 DEF IsSession, Envelope
  <2>6. PreKeySealsNothing /\ (p = Initiator => q = Responder)
    BY <2>0, PartyAssumption, PeerFacts DEF EndsAgree
  <2>7. e.n - s.recvd \in Int /\ Cardinality(DOMAIN s.skipped) \in Nat
    BY <2>1, <2>5, FS_CardinalityType DEF IsSession
  <2>8. s.recvCK # None => s.recvCK.n = s.recvd
    BY <2>1 DEF Agrees
  <2> HIDE DEF s, e
  <2> SUFFICES Decrypt(s, e).ok
    BY DEF s, e
  <2>9. CASE <<e.key, e.n>> \in DOMAIN s.skipped
    <3> DEFINE id == <<e.key, e.n>>
    <3>1. s.skipped[id].n = id[2] /\ Starts(q, id[1], s.skipped[id].root)
      BY <2>1, <2>9 DEF Agrees
    <3>2. s.skipped[id].n = e.mk.n /\ s.skipped[id].root = e.mk.root
      BY <2>2, <3>1 DEF Starts
    <3>3. s.skipped[id] \in ChainKey
      BY <2>1, <2>9 DEF IsSession
    <3>4. s.skipped[id] = e.mk
      BY <2>5, <3>2, <3>3 DEF ChainKey
    <3> QED  BY <2>9, <3>4 DEF Decrypt, OpenWithSkipped
  <2>10. CASE <<e.key, e.n>> \notin DOMAIN s.skipped /\ s.remote = e.key
    <3>1. s.recvCK # None
      BY <2>1, <2>2, <2>6, <2>10 DEF Agrees, PreKeySealsNothing
    <3>2. s.recvCK.root = e.mk.root
      BY <2>4, <2>10, <3>1 DEF CurrentChain
    <3>3. s.recvd <= e.n
      <4>1. ~(e.n < s.recvd)
        BY <2>2, <2>3, <2>10, <3>1 DEF Passed, e
      <4> QED  BY <2>5, <4>1
    <3>4. Cardinality(DOMAIN s.skipped) + (e.n - s.recvd) <= MaxSkipped
      BY <2>4, <2>10 DEF Gap
    <3>5. Restorable(s)
      BY <2>5, <2>7, <3>3, <3>4, MaxSkippedAssumption DEF Restorable
    <3> QED  BY <2>1, <2>2, <2>8, <2>10, <3>1, <3>2, <3>3, <3>4, <3>5, DecryptOpens
  <2>11. CASE <<e.key, e.n>> \notin DOMAIN s.skipped /\ s.remote # e.key
    <3>1. /\ e.mk.root = DeriveRootKey(s.root, DiffieHellman(s.local, e.key))
          /\ Cardinality(DOMAIN s.skipped) + e.n <= MaxSkipped
      BY <2>4, <2>11 DEF CurrentChain, Gap
    <3>2. Restorable(s)
      BY <2>5, <2>7, <3>1, MaxSkippedAssumption DEF Restorable
    <3> QED  BY <2>1, <2>2, <2>8, <2>11, <3>1, <3>2, DecryptOpens
  <2> QED  BY <2>9, <2>10, <2>11
<1> QED  BY <1>1, AlwaysHeld, PTL
=============================================================================
