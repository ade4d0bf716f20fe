--------------------------- MODULE RelayMessages ---------------------------
(***************************************************************************)
(* The relay's message store: submission through its awaits, retrieval,    *)
(* deletion and the cleanup loop, over the Postgres table relay_messages   *)
(* and the replay tokens in Redis.  Each await of submit_message is the    *)
(* end of an action; between two of them other handlers, the clock and the *)
(* cleanup run, and the handler may be abandoned (a client that hangs up,  *)
(* a failed dependency, a crash).  The validation of the request's fields  *)
(* and the rate limiter (module RateLimiter) only refuse requests before   *)
(* anything is stored: a refused request is not a step.                    *)
(***************************************************************************)
EXTENDS Integers, FiniteSets

CONSTANTS Mailbox, Handler, Token, MessageId,
          Ttl,         \* the ttl_seconds a request may ask for
          Margin,      \* RELAY_REPLAY_TTL_MARGIN_SECONDS
          MaxDelay,    \* how long a handler takes from reservation to stamp
          ListLimit,   \* messages a retrieval returns at most
          MaxTime,     \* bound: the clock
          MaxStored,   \* bound: rows ever stored
          None         \* no row, no time

ASSUME ConfigAssumption ==
  /\ Ttl \subseteq Nat \ {0}        \* min_ttl_seconds > 0
  /\ Margin \in Nat /\ MaxDelay \in Nat
  /\ ListLimit \in Nat \ {0}
  /\ MaxTime \in Nat /\ MaxStored \in Nat

VARIABLES now,        \* the clock of the relay, Postgres and Redis
          mailboxes,  \* relay_mailboxes
          messages,   \* relay_messages: a row or None for each message id
          replay,     \* Redis: when each reserved token expires, 0 if never set
          handler,    \* the submissions in progress
          accepted,   \* history: the rows a client was told 202 for
          discarded,  \* history: the rows an owner deleted or lost with the mailbox
          fetched,    \* history: the messages in the table that a retrieval returned
          stored      \* how many rows were stored

vars == <<now, mailboxes, messages, replay, handler, accepted, discarded, fetched, stored>>

ReplayKey == Mailbox \X Token

Row == [mailbox : Mailbox, token : Token, reserved : Nat, received : Nat,
        expires : Nat, deleted : BOOLEAN]

ASSUME NoneAssumption == None \notin Row

Submission ==
  [at : {"checked", "reserved", "stamped", "stored"}, mailbox : Mailbox,
   token : Token, id : MessageId, ttl : Ttl, reserved : Nat, received : Nat]

Idle == [at |-> "idle"]

Init ==
  /\ now = 1
  /\ mailboxes = Mailbox
  /\ messages = [i \in MessageId |-> None]
  /\ replay = [k \in ReplayKey |-> 0]
  /\ handler = [h \in Handler |-> Idle]
  /\ accepted = {}
  /\ discarded = {}
  /\ fetched = {}
  /\ stored = 0

-----------------------------------------------------------------------------
(* submit_message.                                                         *)

KeyOf(r) == <<r.mailbox, r.token>>

(* ensure_mailbox_exists.                                                  *)
Submit(h, mb, token, id, ttl) ==
  /\ handler[h] = Idle
  /\ mb \in mailboxes
  /\ handler' = [handler EXCEPT ![h] =
       [at |-> "checked", mailbox |-> mb, token |-> token, id |-> id, ttl |-> ttl,
        reserved |-> 0, received |-> 0]]
  /\ UNCHANGED <<now, mailboxes, messages, replay, accepted, discarded, fetched, stored>>

(* Mutant: the reservation ends with the message's own time to live.        *)
ReserveReplayTokenUnmargined(h) ==
  LET r == handler[h] IN
  /\ r.at = "checked"
  /\ IF now < replay[KeyOf(r)]
     THEN /\ handler' = [handler EXCEPT ![h] = Idle]
          /\ UNCHANGED replay
     ELSE /\ handler' = [handler EXCEPT ![h].at = "reserved", ![h].reserved = now]
          /\ replay' = [replay EXCEPT ![KeyOf(r)] = now + r.ttl]
  /\ UNCHANGED <<now, mailboxes, messages, accepted, discarded, fetched, stored>>

(* reserve_replay_token, SET NX EX: a token that has not expired is a      *)
(* conflict and ends the request.                                          *)
ReserveReplayToken(h) ==
  LET r == handler[h] IN
  /\ r.at = "checked"
  /\ IF now < replay[KeyOf(r)]
     THEN /\ handler' = [handler EXCEPT ![h] = Idle]
          /\ UNCHANGED replay
     ELSE /\ handler' = [handler EXCEPT ![h].at = "reserved", ![h].reserved = now]
          /\ replay' = [replay EXCEPT ![KeyOf(r)] = now + r.ttl + Margin]
  /\ UNCHANGED <<now, mailboxes, messages, accepted, discarded, fetched, stored>>

(* received_at = Utc::now(), once Redis has answered.                      *)
Stamp(h) ==
  /\ handler[h].at = "reserved"
  /\ handler' = [handler EXCEPT ![h].at = "stamped", ![h].received = now]
  /\ UNCHANGED <<now, mailboxes, messages, replay, accepted, discarded, fetched, stored>>

RowOf(r) == [mailbox |-> r.mailbox, token |-> r.token, reserved |-> r.reserved,
             received |-> r.received, expires |-> r.received + r.ttl,
             deleted |-> FALSE]

(* The INSERT: the primary key and the foreign key may refuse the row.     *)
InsertMessage(h) ==
  LET r == handler[h] IN
  /\ r.at = "stamped"
  /\ IF messages[r.id] = None /\ r.mailbox \in mailboxes
     THEN /\ stored < MaxStored
          /\ messages' = [messages EXCEPT ![r.id] = RowOf(r)]
          /\ handler' = [handler EXCEPT ![h].at = "stored"]
          /\ fetched' = fetched \ {r.id}
          /\ stored' = stored + 1
     ELSE /\ handler' = [handler EXCEPT ![h] = Idle]
          /\ UNCHANGED <<messages, fetched, stored>>
  /\ UNCHANGED <<now, mailboxes, replay, accepted, discarded>>

(* 202 reaches the client.                                                 *)
Accept(h) ==
  LET r == handler[h] IN
  /\ r.at = "stored"
  /\ accepted' = accepted \cup {[id |-> r.id, row |-> RowOf(r)]}
  /\ handler' = [handler EXCEPT ![h] = Idle]
  /\ UNCHANGED <<now, mailboxes, messages, replay, discarded, fetched, stored>>

(* The handler ends without an answer that tells what it had done.         *)
Abandon(h) ==
  /\ handler[h] # Idle
  /\ handler' = [handler EXCEPT ![h] = Idle]
  /\ UNCHANGED <<now, mailboxes, messages, replay, accepted, discarded, fetched, stored>>

-----------------------------------------------------------------------------
(* Retrieval, deletion, cleanup, and the administrator.                    *)

IsLive(row) == row # None /\ ~row.deleted /\ now < row.expires

Inbox(mb) == {i \in MessageId : IsLive(messages[i]) /\ messages[i].mailbox = mb}

(* Mutant: a page is one message short of the limit.                        *)
PagesOffByOne(mb) ==
  {S \in SUBSET Inbox(mb) :
     /\ Cardinality(S) = IF Cardinality(Inbox(mb)) <= ListLimit - 1
                         THEN Cardinality(Inbox(mb)) ELSE ListLimit - 1
     /\ \A i \in S : \A j \in Inbox(mb) \ S : messages[i].received <= messages[j].received}

(* SELECT .. ORDER BY received_at ASC LIMIT: the oldest ListLimit messages,*)
(* ties in any order.                                                      *)
Pages(mb) ==
  {S \in SUBSET Inbox(mb) :
     /\ Cardinality(S) = IF Cardinality(Inbox(mb)) <= ListLimit
                         THEN Cardinality(Inbox(mb)) ELSE ListLimit
     /\ \A i \in S : \A j \in Inbox(mb) \ S : messages[i].received <= messages[j].received}

ListMessages(mb) ==
  /\ mb \in mailboxes
  /\ \E page \in Pages(mb) : page # {} /\ fetched' = fetched \cup page
  /\ UNCHANGED <<now, mailboxes, messages, replay, handler, accepted, discarded, stored>>

(* UPDATE .. SET deleted_at WHERE deleted_at IS NULL.                      *)
DeleteMessage(mb, i) ==
  /\ mb \in mailboxes
  /\ messages[i] # None /\ messages[i].mailbox = mb /\ ~messages[i].deleted
  /\ messages' = [messages EXCEPT ![i].deleted = TRUE]
  /\ discarded' = discarded \cup {[id |-> i, row |-> messages[i]]}
  /\ UNCHANGED <<now, mailboxes, replay, handler, accepted, fetched, stored>>

(* Mutant: a message is taken for dead an instant too early.                *)
DeadEarly(row) == row # None /\ (row.expires <= now + 1 \/ row.deleted)

Dead(row) == row # None /\ (row.expires <= now \/ row.deleted)

(* Mutant: deleted messages stay until they expire.                         *)
CleanupExpiredOnly ==
  /\ \E i \in MessageId : messages[i] # None /\ messages[i].expires <= now
  /\ messages' = [i \in MessageId |->
       IF messages[i] # None /\ messages[i].expires <= now THEN None ELSE messages[i]]
  /\ UNCHANGED <<now, mailboxes, replay, handler, accepted, discarded, fetched, stored>>

(* The first statement of cleanup_expired_messages.                        *)
CleanupMessages ==
  /\ \E i \in MessageId : Dead(messages[i])
  /\ messages' = [i \in MessageId |-> IF Dead(messages[i]) THEN None ELSE messages[i]]
  /\ UNCHANGED <<now, mailboxes, replay, handler, accepted, discarded, fetched, stored>>

RowsOf(mb) == {i \in MessageId : messages[i] # None /\ messages[i].mailbox = mb}

(* Mutant: the foreign key does not cascade.                                *)
DeleteMailboxOnly(mb) ==
  /\ mb \in mailboxes
  /\ mailboxes' = mailboxes \ {mb}
  /\ UNCHANGED <<now, messages, replay, handler, accepted, discarded, fetched, stored>>

(* admin_delete_managed_user: the rows of the mailbox go with it; what     *)
(* Redis knows of it stays.                                                *)
DeleteMailbox(mb) ==
  /\ mb \in mailboxes
  /\ mailboxes' = mailboxes \ {mb}
  /\ messages' = [i \in MessageId |->
       IF i \in RowsOf(mb) THEN None ELSE messages[i]]
  /\ discarded' = discarded \cup {[id |-> i, row |-> messages[i]] : i \in RowsOf(mb)}
  /\ UNCHANGED <<now, replay, handler, accepted, fetched, stored>>

(* create_mailbox for an id that is free.                                  *)
CreateMailbox(mb) ==
  /\ mb \notin mailboxes
  /\ mailboxes' = mailboxes \cup {mb}
  /\ UNCHANGED <<now, messages, replay, handler, accepted, discarded, fetched, stored>>

(* The clock: a handler that reserved its token stamps within MaxDelay.    *)
Tick ==
  /\ now < MaxTime
  /\ \A h \in Handler : handler[h].at = "reserved" => now < handler[h].reserved + MaxDelay
  /\ now' = now + 1
  /\ UNCHANGED <<mailboxes, messages, replay, handler, accepted, discarded, fetched, stored>>

(* docker-compose runs Redis without persistence: a restart forgets it.    *)
RedisRestart ==
  /\ replay' = [k \in ReplayKey |-> 0]
  /\ UNCHANGED <<now, mailboxes, messages, handler, accepted, discarded, fetched, stored>>

-----------------------------------------------------------------------------
Submitting ==
  \E h \in Handler :
    \/ \E mb \in Mailbox, token \in Token, id \in MessageId, ttl \in Ttl :
         Submit(h, mb, token, id, ttl)
    \/ ReserveReplayToken(h) \/ Stamp(h) \/ InsertMessage(h) \/ Accept(h) \/ Abandon(h)

Next ==
  \/ Submitting
  \/ \E mb \in Mailbox :
       \/ ListMessages(mb) \/ DeleteMailbox(mb) \/ CreateMailbox(mb)
       \/ \E i \in MessageId : DeleteMessage(mb, i)
  \/ CleanupMessages
  \/ Tick

Spec == Init /\ [][Next]_vars

SpecRedisRestart == Init /\ [][Next \/ RedisRestart]_vars

DeleteFetched ==
  \E mb \in Mailbox, i \in fetched : DeleteMessage(mb, i)

(* The browser polls on a timer and deletes what a poll returned; the      *)
(* cleanup loop ticks.                                                     *)
Fairness ==
  /\ \A mb \in Mailbox : WF_vars(ListMessages(mb))
  /\ WF_vars(DeleteFetched)
  /\ WF_vars(CleanupMessages)

LiveSpec == Init /\ [][Next]_vars /\ Fairness

-----------------------------------------------------------------------------
(* Properties.                                                             *)

(* Every variable has its type; rows are in mailboxes that exist.          *)
TypeOK ==
  /\ now \in Nat
  /\ mailboxes \subseteq Mailbox
  /\ messages \in [MessageId -> Row \cup {None}]
  /\ \A i \in MessageId : messages[i] # None => messages[i].mailbox \in mailboxes
  /\ replay \in [ReplayKey -> Nat]
  /\ handler \in [Handler -> Submission \cup {Idle}]
  /\ accepted \subseteq [id : MessageId, row : Row]
  /\ discarded \subseteq [id : MessageId, row : Row]
  /\ fetched \subseteq MessageId
  /\ stored \in Nat

(* A token is used once: of all messages submitted to a mailbox with one   *)
(* replay token, one at most is not expired, deleted or not.  It needs the *)
(* margin to cover the time from the reservation to the stamp.             *)
OneLiveMessagePerToken ==
  \A i, j \in MessageId :
    (/\ messages[i] # None /\ now < messages[i].expires
     /\ messages[j] # None /\ now < messages[j].expires
     /\ KeyOf(messages[i]) = KeyOf(messages[j])) => i = j

(* A message the sender was told 202 for stays retrievable until it        *)
(* expires or its owner deletes it, or goes with the mailbox: neither the  *)
(* cleanup nor another submission takes it away.                           *)
AcceptedIsKept ==
  \A a \in accepted :
    \/ messages[a.id] = a.row
    \/ a.row.expires <= now
    \/ a \in discarded

(* The oldest messages come first and the client deletes what it fetched,  *)
(* so every message gets its turn in a page of ListLimit, or expires.      *)
EveryMessageIsFetched ==
  \A i \in MessageId :
    IsLive(messages[i]) ~> (i \in fetched \/ ~IsLive(messages[i]))

(* "Background jobs must clean expired blobs and counters promptly": no    *)
(* expired or deleted message stays in the table.                          *)
EveryDeadRowIsPurged ==
  \A i \in MessageId : Dead(messages[i]) ~> ~Dead(messages[i])
=============================================================================
