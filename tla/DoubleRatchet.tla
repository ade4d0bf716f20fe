---------------------------- MODULE DoubleRatchet ----------------------------
(***************************************************************************)
(* Two ends that hold a DoubleRatchetSession in memory and exchange        *)
(* envelopes over a network that may lose, duplicate and reorder them.     *)
(***************************************************************************)
EXTENDS RatchetSession, SequencesExt

CONSTANTS Initiator, Responder,
          MaxSent,         \* bound: messages an end sends
          MaxLost,         \* bound: messages the network loses on the way to an end
          MaxDuplicated    \* bound: copies the network makes on the way to an end

ASSUME PartyAssumption ==
  /\ Initiator # Responder
  /\ Party = {Initiator, Responder}

VARIABLES session,     \* the DoubleRatchetSession of each end
          serial,      \* ratchet keys each end has generated
          log,         \* history: the envelopes each end sent, in order
          channel,     \* what is on the way to each end: positions in the peer's log
          opened,      \* history: how often each message of the peer was opened
          rejected,    \* history: the messages decrypt returned an error for
          lost,        \* messages lost on the way to each end
          duplicated   \* copies made on the way to each end

vars == <<session, serial, log, channel, opened, rejected, lost, duplicated>>

Peer(p) == CHOOSE q \in Party : q # p

Init ==
  /\ session = [p \in Party |->
       IF p = Initiator
       THEN BootstrapInitiator(<<Initiator, 0>>, <<Responder, 0>>)
       ELSE BootstrapResponder(<<Responder, 0>>, <<Initiator, 0>>)]
  /\ serial = [p \in Party |-> 1]
  /\ log = [p \in Party |-> <<>>]
  /\ channel = [p \in Party |-> <<>>]
  /\ opened = [p \in Party |-> <<>>]
  /\ rejected = [p \in Party |-> {}]
  /\ lost = [p \in Party |-> 0]
  /\ duplicated = [p \in Party |-> 0]

-----------------------------------------------------------------------------
(* encrypt: the envelope goes to the peer.  A key pair is generated only   *)
(* when there is no sending chain.                                         *)
Send(p) ==
  /\ Len(log[p]) < MaxSent
  /\ LET step == Encrypt(session[p], <<p, serial[p]>>) IN
     /\ session' = [session EXCEPT ![p] = step.session]
     /\ log' = [log EXCEPT ![p] = Append(@, step.envelope)]
  /\ serial' = [serial EXCEPT ![p] = IF session[p].sendCK = None THEN @ + 1 ELSE @]
  /\ channel' = [channel EXCEPT ![Peer(p)] = Append(@, Len(log[p]) + 1)]
  /\ opened' = [opened EXCEPT ![Peer(p)] = Append(@, 0)]
  /\ UNCHANGED <<rejected, lost, duplicated>>

(* decrypt of the i-th envelope on the way to p; the session keeps what    *)
(* decrypt did to it, whatever it returned.                                *)
Receive(p, i) ==
  LET m    == channel[p][i]
      step == Decrypt(session[p], log[Peer(p)][m])
  IN /\ session' = [session EXCEPT ![p] = step.session]
     /\ channel' = [channel EXCEPT ![p] = RemoveAt(@, i)]
     /\ opened' = IF step.ok THEN [opened EXCEPT ![p][m] = @ + 1] ELSE opened
     /\ rejected' = IF step.ok THEN rejected ELSE [rejected EXCEPT ![p] = @ \cup {m}]
     /\ UNCHANGED <<serial, log, lost, duplicated>>

Lose(p, i) ==
  /\ lost[p] < MaxLost
  /\ channel' = [channel EXCEPT ![p] = RemoveAt(@, i)]
  /\ lost' = [lost EXCEPT ![p] = @ + 1]
  /\ UNCHANGED <<session, serial, log, opened, rejected, duplicated>>

(* A client that polls again before the relay deleted the message.         *)
Duplicate(p, i) ==
  /\ duplicated[p] < MaxDuplicated
  /\ channel' = [channel EXCEPT ![p] = InsertAt(@, i + 1, @[i])]
  /\ duplicated' = [duplicated EXCEPT ![p] = @ + 1]
  /\ UNCHANGED <<session, serial, log, opened, rejected, lost>>

Next ==
  \E p \in Party :
    \/ Send(p)
    \/ \E i \in DOMAIN channel[p] : Receive(p, i) \/ Lose(p, i) \/ Duplicate(p, i)

Spec == Init /\ [][Next]_vars

-----------------------------------------------------------------------------
(* Properties.                                                             *)

(* Every variable has its type, each message of the peer has one counter.  *)
TypeOK ==
  /\ DOMAIN session = Party /\ \A p \in Party : IsSession(session[p])
  /\ serial \in [Party -> Nat]
  /\ log \in [Party -> Seq(Envelope)]
  /\ channel \in [Party -> Seq(Nat \ {0})]
  /\ opened \in [Party -> Seq(Nat)]
  /\ \A p \in Party : Len(opened[p]) = Len(log[Peer(p)])
  /\ rejected \in [Party -> SUBSET Nat]
  /\ lost \in [Party -> Nat]
  /\ duplicated \in [Party -> Nat]

(* No two messages, of either end, are sealed under the same key: the      *)
(* ratchet and the chains never return to a key they already handed out.   *)
MessageKeyNeverReused ==
  \A p, q \in Party : \A i \in DOMAIN log[p] : \A j \in DOMAIN log[q] :
    log[p][i].mk = log[q][j].mk => p = q /\ i = j

(* The conversation keeps the abstract promise: copies of a message are    *)
(* opened once in all, because decrypt consumes the key.                   *)
Delivery == INSTANCE MessageDelivery WITH sent <- [p \in Party |-> Len(log[p])]

ImplementsDelivery == Delivery!Spec

(* Forward secrecy of one end: once a message was opened, nothing the      *)
(* session still holds derives its key, in the skipped-key map or the chain.*)
OpenedKeysAreGone ==
  \A p \in Party : \A m \in DOMAIN opened[p] :
    opened[p][m] > 0 => ~CanDerive(session[p], log[Peer(p)][m].mk)

(* The skipped-key map never outgrows what from_persisted accepts, so a    *)
(* session that was saved can be restored.                                 *)
AlwaysRestorable == \A p \in Party : Restorable(session[p])

(* While each end opened everything that reached it, the two ends' roots   *)
(* are one sequence of ratchet steps and neither is more than one step     *)
(* ahead, whatever was lost and in whatever order the rest arrived.        *)
RootsInLockstep ==
  LET a == session[Initiator].root
      b == session[Responder].root
  IN (\A p \in Party : rejected[p] = {}) =>
       /\ IsPrefix(a, b) \/ IsPrefix(b, a)
       /\ Len(a) - Len(b) \in -1 .. 1

(* The messages of p's peer before message m that p has not opened.        *)
Unopened(p, m) == {k \in 1 .. m - 1 : opened[p][k] = 0}

(* m belongs to a chain of the peer that p has already left.               *)
Overtaken(p, m) ==
  \E k \in m + 1 .. Len(opened[p]) :
    opened[p][k] > 0 /\ log[Peer(p)][k].key # log[Peer(p)][m].key

(* The first message of a conversation that decrypt refuses is a copy of   *)
(* one it opened, or was overtaken by the peer's next chain, or more       *)
(* messages before it are missing than the window of skipped keys holds.   *)
RejectsOnlyForAReason ==
  [][\A p \in Party : \A m \in rejected'[p] \ rejected[p] :
       (\A q \in Party : rejected[q] = {}) =>
         \/ opened[p][m] > 0
         \/ Overtaken(p, m)
         \/ Cardinality(Unopened(p, m)) > MaxSkipped]_vars

(* The README says that skipped keys let a bounded amount of out-of-order  *)
(* delivery be recovered: no message is refused while fewer messages than  *)
(* the window holds were ever sent to that end.                            *)
OutOfOrderOpens ==
  \A p \in Party : Len(log[Peer(p)]) <= MaxSkipped => rejected[p] = {}
=============================================================================
