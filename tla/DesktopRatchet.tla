--------------------------- MODULE DesktopRatchet ---------------------------
(***************************************************************************)
(* Two desktops in conversation.  Every Tauri command of ratchet.rs takes  *)
(* the mutex, loads the session from the store, works on the copy in       *)
(* memory, saves it and only then returns its result to the UI.  A command *)
(* is followed through the store's remove and rename, and the process may  *)
(* die at any point.  The app hands over what arrives as often and in the  *)
(* order it likes: it may present any message its peer ever sent.          *)
(* A command that fails before it saves changes nothing and is not a step. *)
(***************************************************************************)
EXTENDS RatchetSession, SequencesExt

CONSTANTS Initiator, Responder,
          MaxSent,          \* bound: messages an end sends
          MaxKeys,          \* bound: key pairs an end generates
          MaxInitiations,   \* bound: bootstrap_initiator calls
          MaxResponses,     \* bound: bootstrap_responder calls
          MaxCrashes        \* bound: crashes of an end

ASSUME PartyAssumption ==
  /\ Initiator # Responder
  /\ Party = {Initiator, Responder}

NoSession == [session |-> "none"]
NoResult == [call |-> "none"]

VARIABLES file,        \* the session file of each end: a session or NoSession
          step,        \* where the command that holds the mutex is
          next,        \* the session it is going to save
          result,      \* what it returns once it has saved
          serial,      \* key pairs each end has generated
          initials,    \* the ephemeral keys of the initial messages sent
          log,         \* history: the envelopes each end released, in order
          opened,      \* history: how often each plaintext of the peer was returned
          consumed,    \* history: messages whose decryption was saved
          bootstraps,  \* bootstrap commands each end has run
          crashes      \* crashes of each end

vars == <<file, step, next, result, serial, initials, log, opened, consumed,
          bootstraps, crashes>>

Peer(p) == CHOOSE q \in Party : q # p

Init ==
  /\ file = [p \in Party |-> NoSession]
  /\ step = [p \in Party |-> "idle"]
  /\ next = [p \in Party |-> NoSession]
  /\ result = [p \in Party |-> NoResult]
  /\ serial = [p \in Party |-> 1]      \* <<Responder, 0>> is the signed prekey
  /\ initials = {}
  /\ log = [p \in Party |-> <<>>]
  /\ opened = [p \in Party |-> <<>>]
  /\ consumed = [p \in Party |-> {}]
  /\ bootstraps = [p \in Party |-> 0]
  /\ crashes = [p \in Party |-> 0]

SignedPreKey == <<Responder, 0>>

NewKey(p) == <<p, serial[p]>>

Generate(p) ==
  /\ serial[p] < MaxKeys
  /\ serial' = [serial EXCEPT ![p] = @ + 1]

(* Mutant: a session that is on disk already is not saved again.            *)
SaveNewThenReturn(p, s, r) ==
  /\ step' = [step EXCEPT ![p] = IF file[p] = NoSession THEN "renaming" ELSE "returning"]
  /\ next' = [next EXCEPT ![p] = IF file[p] = NoSession THEN s ELSE NoSession]
  /\ result' = [result EXCEPT ![p] = r]

(* The rest of a command: save session s, then return r.                   *)
SaveThenReturn(p, s, r) ==
  /\ step' = [step EXCEPT ![p] = IF file[p] = NoSession THEN "renaming" ELSE "replacing"]
  /\ next' = [next EXCEPT ![p] = s]
  /\ result' = [result EXCEPT ![p] = r]

-----------------------------------------------------------------------------
(* The commands.                                                           *)

BootstrapInitiatorCommand ==
  LET key == NewKey(Initiator) IN
  /\ step[Initiator] = "idle" /\ bootstraps[Initiator] < MaxInitiations
  /\ Generate(Initiator)
  /\ SaveThenReturn(Initiator, BootstrapInitiator(key, SignedPreKey),
                    [call |-> "initiate", key |-> key])
  /\ bootstraps' = [bootstraps EXCEPT ![Initiator] = @ + 1]
  /\ UNCHANGED <<file, initials, log, opened, consumed, crashes>>

(* The session id is made from the two identities: a further initial       *)
(* message, or the same one again, overwrites the session.                 *)
BootstrapResponderCommand(key) ==
  /\ step[Responder] = "idle" /\ bootstraps[Responder] < MaxResponses
  /\ SaveThenReturn(Responder, BootstrapResponder(SignedPreKey, key),
                    [call |-> "respond"])
  /\ bootstraps' = [bootstraps EXCEPT ![Responder] = @ + 1]
  /\ UNCHANGED <<file, serial, initials, log, opened, consumed, crashes>>

CanLoad(p) == file[p] # NoSession /\ Restorable(file[p])

EncryptMessage(p) ==
  LET new == Encrypt(file[p], NewKey(p)) IN
  /\ step[p] = "idle" /\ CanLoad(p)
  /\ Len(log[p]) < MaxSent
  /\ IF file[p].sendCK = None THEN Generate(p) ELSE UNCHANGED serial
  /\ SaveThenReturn(p, new.session, [call |-> "encrypt", envelope |-> new.envelope])
  /\ UNCHANGED <<file, initials, log, opened, consumed, bootstraps, crashes>>

(* Mutant: the session is saved whether or not decrypt succeeded.           *)
DecryptMessageSavingFailures(p, m) ==
  LET new == Decrypt(file[p], log[Peer(p)][m]) IN
  /\ step[p] = "idle" /\ CanLoad(p)
  /\ SaveThenReturn(p, new.session, IF new.ok THEN [call |-> "decrypt", message |-> m]
                                     ELSE [call |-> "respond"])
  /\ UNCHANGED <<file, serial, initials, log, opened, consumed, bootstraps, crashes>>

DecryptMessage(p, m) ==
  LET new == Decrypt(file[p], log[Peer(p)][m]) IN
  /\ step[p] = "idle" /\ CanLoad(p)
  /\ new.ok
  /\ SaveThenReturn(p, new.session, [call |-> "decrypt", message |-> m])
  /\ UNCHANGED <<file, serial, initials, log, opened, consumed, bootstraps, crashes>>

-----------------------------------------------------------------------------
(* save_to_store, with the temporary file written.                         *)

RemoveOld(p) ==
  /\ step[p] = "replacing"
  /\ step' = [step EXCEPT ![p] = "renaming"]
  /\ file' = [file EXCEPT ![p] = NoSession]
  /\ UNCHANGED <<next, result, serial, initials, log, opened, consumed, bootstraps, crashes>>

(* Mutant: the command forgets that it has saved.                           *)
RenameAgain(p) ==
  /\ step[p] = "renaming"
  /\ file' = [file EXCEPT ![p] = next[p]]
  /\ step' = [step EXCEPT ![p] = "returning"]
  /\ UNCHANGED <<next, result, serial, initials, log, opened, consumed, bootstraps, crashes>>

Rename(p) ==
  /\ step[p] = "renaming"
  /\ step' = [step EXCEPT ![p] = "returning"]
  /\ file' = [file EXCEPT ![p] = next[p]]
  /\ next' = [next EXCEPT ![p] = NoSession]
  /\ consumed' = IF result[p].call = "decrypt"
                 THEN [consumed EXCEPT ![p] = @ \cup {result[p].message}]
                 ELSE consumed
  /\ UNCHANGED <<result, serial, initials, log, opened, bootstraps, crashes>>

(* The result reaches the UI, which sends what was encrypted.              *)
Return(p) ==
  /\ step[p] = "returning"
  /\ step' = [step EXCEPT ![p] = "idle"]
  /\ result' = [result EXCEPT ![p] = NoResult]
  /\ initials' = IF result[p].call = "initiate"
                 THEN initials \cup {result[p].key} ELSE initials
  /\ log' = IF result[p].call = "encrypt"
            THEN [log EXCEPT ![p] = Append(@, result[p].envelope)] ELSE log
  /\ opened' = CASE result[p].call = "encrypt" ->
                      [opened EXCEPT ![Peer(p)] = Append(@, 0)]
                 [] result[p].call = "decrypt" ->
                      [opened EXCEPT ![p][result[p].message] = @ + 1]
                 [] OTHER -> opened
  /\ UNCHANGED <<file, next, serial, consumed, bootstraps, crashes>>

(* The process dies; or, before it is done, the remove or the rename fails *)
(* and the command returns that error, which leaves the same state.  The   *)
(* temporary file is never looked at again.                                *)
Crash(p) ==
  /\ step[p] # "idle" /\ crashes[p] < MaxCrashes
  /\ step' = [step EXCEPT ![p] = "idle"]
  /\ next' = [next EXCEPT ![p] = NoSession]
  /\ result' = [result EXCEPT ![p] = NoResult]
  /\ crashes' = [crashes EXCEPT ![p] = @ + 1]
  /\ UNCHANGED <<file, serial, initials, log, opened, consumed, bootstraps>>

Next ==
  \/ BootstrapInitiatorCommand
  \/ \E key \in initials : BootstrapResponderCommand(key)
  \/ \E p \in Party :
       \/ EncryptMessage(p)
       \/ \E m \in 1 .. Len(log[Peer(p)]) : DecryptMessage(p, m)
       \/ RemoveOld(p) \/ Rename(p) \/ Return(p) \/ Crash(p)

Spec == Init /\ [][Next]_vars

-----------------------------------------------------------------------------
(* Properties.                                                             *)

Result ==
  [call : {"initiate"}, key : RatchetKey] \cup [call : {"respond"}]
  \cup [call : {"encrypt"}, envelope : Envelope]
  \cup [call : {"decrypt"}, message : Nat \ {0}]

(* Every variable has its type; a command has a result while it runs and a *)
(* session to save until it has saved it.                                  *)
TypeOK ==
  /\ \A p \in Party : /\ file[p] # NoSession => IsSession(file[p])
                      /\ next[p] # NoSession => IsSession(next[p])
                      /\ next[p] # NoSession <=> step[p] \in {"replacing", "renaming"}
                      /\ result[p] # NoResult <=> step[p] # "idle"
  /\ step \in [Party -> {"idle", "replacing", "renaming", "returning"}]
  /\ result \in [Party -> Result \cup {NoResult}]
  /\ serial \in [Party -> Nat \ {0}]
  /\ initials \subseteq RatchetKey
  /\ log \in [Party -> Seq(Envelope)]
  /\ opened \in [Party -> Seq(Nat)]
  /\ \A p \in Party : Len(opened[p]) = Len(log[Peer(p)])
  /\ consumed \in [Party -> SUBSET (Nat \ {0})]
  /\ bootstraps \in [Party -> Nat] /\ crashes \in [Party -> Nat]

(* Two envelopes that left a desktop are never sealed under the same key,  *)
(* whenever the process died and however often a session was bootstrapped: *)
(* a session is on disk before the envelope it produced is released.       *)
MessageKeyNeverReused ==
  \A p, q \in Party : \A i \in DOMAIN log[p] : \A j \in DOMAIN log[q] :
    log[p][i].mk = log[q][j].mk => p = q /\ i = j

(* A plaintext is returned once per bootstrap at most, though the app may  *)
(* present its message again after a crash; the initiator, who draws a new *)
(* key for every bootstrap, returns it once in all.                        *)
ReturnedOncePerBootstrap ==
  \A p \in Party : \A m \in DOMAIN opened[p] :
    opened[p][m] <= IF p = Initiator THEN 1 ELSE bootstraps[p]

(* The chain that session s receives on now, or follows next.              *)
CurrentChain(s, e) ==
  \/ s.remote = e.key /\ (s.recvCK # None => s.recvCK.root = e.mk.root)
  \/ s.remote # e.key
     /\ e.mk.root = DeriveRootKey(s.root, DiffieHellman(s.local, e.key))

(* What s has to put aside to open e.                                      *)
Gap(s, e) == IF s.remote = e.key THEN e.n - s.recvd ELSE e.n

(* Failed attempts, repeats and disorder do not break a stored session:    *)
(* each message of the chain it receives on now or next opens at once,     *)
(* unless its decryption was saved before or the window is too small.      *)
CurrentChainOpens ==
  \A p \in Party : \A m \in 1 .. Len(log[Peer(p)]) \ consumed[p] :
    LET e == log[Peer(p)][m]
        s == file[p]
    IN (/\ s # NoSession
        /\ CurrentChain(s, e)
        /\ Cardinality(DOMAIN s.skipped) + Gap(s, e) <= MaxSkipped)
       => Decrypt(s, e).ok

(* What a stored session can still derive it has not returned, unless its  *)
(* conversation was bootstrapped again from an old initial message: the key*)
(* of a message is off the disk before its plaintext reaches the UI.       *)
ReturnedKeysAreOffTheDisk ==
  \A p \in Party : \A m \in DOMAIN opened[p] :
    (opened[p][m] > 0 /\ file[p] # NoSession /\ (p = Initiator \/ bootstraps[p] = 1))
      => ~CanDerive(file[p], log[Peer(p)][m].mk)
=============================================================================
