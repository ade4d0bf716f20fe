---------------------------- MODULE SessionStore ----------------------------
(***************************************************************************)
(* What a ratchet session store promises its callers (the traits           *)
(* DoubleRatchetSessionStore and RatchetSessionStorage, for one session    *)
(* id): a save, a load and a delete that succeed take effect at one instant*)
(* between call and return; a load that fails and a delete that fails      *)
(* change nothing; a record that a load returns was saved.  While a save   *)
(* runs the record may be lost, and then stays lost if the save fails or   *)
(* the process dies.                                                       *)
(***************************************************************************)
CONSTANTS Client,   \* who calls the store
          Value,    \* session records
          None,     \* no record, no request, no answer
          Done,     \* the answer of a save or delete that succeeded, of an empty load
          Error     \* the answer of an operation that failed

VARIABLES stored,   \* the record, or None
          request,  \* what each client is waiting for, or None
          answer    \* what it was answered and has not yet picked up, or None

storeVars == <<stored, request, answer>>

Request == [call : {"save"}, value : Value] \cup [call : {"load", "delete"}]

Init ==
  /\ stored = None
  /\ request = [c \in Client |-> None]
  /\ answer = [c \in Client |-> None]

Waiting(c) == request[c] # None /\ answer[c] = None

Invoke(c, r) ==
  /\ request[c] = None
  /\ request' = [request EXCEPT ![c] = r]
  /\ UNCHANGED <<stored, answer>>

Save(c) ==
  /\ Waiting(c) /\ request[c].call = "save"
  /\ stored' = request[c].value
  /\ answer' = [answer EXCEPT ![c] = Done]
  /\ UNCHANGED request

Lose(c) ==
  /\ Waiting(c) /\ request[c].call = "save"
  /\ stored' = None
  /\ UNCHANGED <<request, answer>>

Load(c) ==
  /\ Waiting(c) /\ request[c].call = "load"
  /\ answer' = [answer EXCEPT ![c] = IF stored = None THEN Done ELSE stored]
  /\ UNCHANGED <<stored, request>>

Delete(c) ==
  /\ Waiting(c) /\ request[c].call = "delete"
  /\ stored' = None
  /\ answer' = [answer EXCEPT ![c] = Done]
  /\ UNCHANGED request

Refuse(c) ==
  /\ Waiting(c)
  /\ answer' = [answer EXCEPT ![c] = Error]
  /\ UNCHANGED <<stored, request>>

Respond(c) ==
  /\ answer[c] # None
  /\ request' = [request EXCEPT ![c] = None]
  /\ answer' = [answer EXCEPT ![c] = None]
  /\ UNCHANGED stored

Crash ==
  /\ request' = [c \in Client |-> None]
  /\ answer' = [c \in Client |-> None]
  /\ UNCHANGED stored

Next ==
  \/ Crash
  \/ \E c \in Client :
       \/ \E r \in Request : Invoke(c, r)
       \/ Save(c) \/ Lose(c) \/ Load(c) \/ Delete(c) \/ Refuse(c) \/ Respond(c)

Spec == Init /\ [][Next]_storeVars
=============================================================================
