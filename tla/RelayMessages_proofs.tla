------------------------ MODULE RelayMessages_proofs ------------------------
(***************************************************************************)
(* The relay's message store, for every number of mailboxes, handlers,     *)
(* tokens and messages: a replay token covers the life of the message it   *)
(* was spent on, and an accepted message is kept.  And the rate limiter in *)
(* front of it, for every limit and window: bursts are bounded, refusals   *)
(* are over the limit.                                                     *)
(***************************************************************************)
EXTENDS RelayMessages, RateLimiter, FiniteSetTheorems, TLAPS

Reserving == {"reserved", "stamped"}

LEMMA RowTyped ==
  ASSUME NEW r \in Submission
  PROVE  RowOf(r) \in Row /\ RowOf(r) # None
<1>1. /\ r.ttl \in Nat /\ r.received \in Nat /\ r.reserved \in Nat
      /\ r.mailbox \in Mailbox /\ r.token \in Token
  BY ConfigAssumption DEF Submission
<1>2. r.received + r.ttl \in Nat
  BY <1>1
<1>3. RowOf(r) \in Row
  BY <1>1, <1>2 DEF RowOf, Row
<1> QED  BY <1>3, NoneAssumption

LEMMA SubmissionHas ==
  ASSUME TypeOK, NEW h \in Handler, handler[h].at # "idle"
  PROVE  handler[h] \in Submission
BY DEF TypeOK, Idle

LEMMA TypedInit == Init => TypeOK
BY DEF Init, TypeOK

LEMMA TypedStep == TypeOK /\ [Next]_vars => TypeOK'
<1> SUFFICES ASSUME TypeOK, [Next]_vars PROVE TypeOK'
  OBVIOUS
<1>1. ASSUME NEW h \in Handler, NEW mb \in Mailbox, NEW token \in Token, NEW id \in MessageId,
             NEW ttl \in Ttl, Submit(h, mb, token, id, ttl)
      PROVE  TypeOK'
  <2>1. [at |-> "checked", mailbox |-> mb, token |-> token, id |-> id, ttl |-> ttl,
         reserved |-> 0, received |-> 0] \in Submission
    BY DEF Submission
  <2> QED  BY <1>1, <2>1 DEF Submit, TypeOK
<1>2. ASSUME NEW h \in Handler, ReserveReplayToken(h) PROVE TypeOK'
  <2>1. handler[h] \in Submission
    BY <1>2, SubmissionHas DEF ReserveReplayToken
  <2>4. handler[h].ttl \in Nat /\ Margin \in Nat /\ now \in Nat
    BY <2>1, ConfigAssumption DEF Submission, TypeOK
  <2>2. KeyOf(handler[h]) \in ReplayKey /\ now + handler[h].ttl + Margin \in Nat
    BY <2>1, <2>4 DEF KeyOf, ReplayKey, Submission
  <2>3. [handler[h] EXCEPT !.at = "reserved", !.reserved = now] \in Submission
    BY <2>1 DEF Submission, TypeOK
  <2> QED  BY <1>2, <2>2, <2>3 DEF ReserveReplayToken, TypeOK
<1>3. ASSUME NEW h \in Handler, Stamp(h) PROVE TypeOK'
  <2>1. handler[h] \in Submission
    BY <1>3, SubmissionHas DEF Stamp
  <2>2. [handler[h] EXCEPT !.at = "stamped", !.received = now] \in Submission
    BY <2>1 DEF Submission, TypeOK
  <2> QED  BY <1>3, <2>2 DEF Stamp, TypeOK
<1>4. ASSUME NEW h \in Handler, InsertMessage(h) PROVE TypeOK'
  <2>1. handler[h] \in Submission
    BY <1>4, SubmissionHas DEF InsertMessage
  <2>2. RowOf(handler[h]) \in Row /\ RowOf(handler[h]).mailbox = handler[h].mailbox
    BY <2>1, RowTyped DEF RowOf
  <2>3. [handler[h] EXCEPT !.at = "stored"] \in Submission
    BY <2>1 DEF Submission
  <2> QED  BY <1>4, <2>2, <2>3 DEF InsertMessage, TypeOK
<1>5. ASSUME NEW h \in Handler, Accept(h) PROVE TypeOK'
  <2>1. handler[h] \in Submission
    BY <1>5, SubmissionHas DEF Accept
  <2>2. [id |-> handler[h].id, row |-> RowOf(handler[h])] \in [id : MessageId, row : Row]
    BY <2>1, RowTyped DEF Submission
  <2> QED  BY <1>5, <2>2 DEF Accept, TypeOK
<1>6. ASSUME NEW h \in Handler, Abandon(h) PROVE TypeOK'
  BY <1>6 DEF Abandon, TypeOK
<1>7. ASSUME NEW mb \in Mailbox, ListMessages(mb) PROVE TypeOK'
  BY <1>7 DEF ListMessages, Pages, Inbox, TypeOK
<1>8. ASSUME NEW mb \in Mailbox, NEW i \in MessageId, DeleteMessage(mb, i) PROVE TypeOK'
  <2>1. messages[i] \in Row /\ [messages[i] EXCEPT !.deleted = TRUE] \in Row
    BY <1>8 DEF DeleteMessage, TypeOK, Row
  <2>2. [messages[i] EXCEPT !.deleted = TRUE].mailbox = messages[i].mailbox
    BY <2>1 DEF Row
  <2> QED  BY <1>8, <2>1, <2>2 DEF DeleteMessage, TypeOK
<1>9. CASE CleanupMessages
  BY <1>9 DEF CleanupMessages, TypeOK
<1>10. ASSUME NEW mb \in Mailbox, DeleteMailbox(mb) PROVE TypeOK'
  <2>1. \A i \in RowsOf(mb) : [id |-> i, row |-> messages[i]] \in [id : MessageId, row : Row]
    BY DEF RowsOf, TypeOK
  <2>2. discarded' \subseteq [id : MessageId, row : Row]
    BY <1>10, <2>1 DEF DeleteMailbox, TypeOK
  <2> QED  BY <1>10, <2>2 DEF DeleteMailbox, RowsOf, TypeOK
<1>11. ASSUME NEW mb \in Mailbox, CreateMailbox(mb) PROVE TypeOK'
  BY <1>11 DEF CreateMailbox, TypeOK
<1>12. CASE Tick
  BY <1>12 DEF Tick, TypeOK
<1>13. CASE UNCHANGED vars
  BY <1>13 DEF vars, TypeOK
<1> QED
  BY <1>1, <1>2, <1>3, <1>4, <1>5, <1>6, <1>7, <1>8, <1>9, <1>10, <1>11, <1>12, <1>13
     DEF Next, Submitting

(* Every variable has its type, and rows are in mailboxes that exist.      *)
THEOREM TypeCorrect == Spec => []TypeOK
BY TypedInit, TypedStep, PTL DEF Spec

-----------------------------------------------------------------------------
(* An accepted message is kept.                                            *)

Kept(i, row) == messages[i] = row \/ row.expires <= now \/ [id |-> i, row |-> row] \in discarded

(* So is one that is stored and not answered yet; a row is stored as it is *)
(* reported, undeleted.                                                    *)
KeptInv ==
  /\ \A a \in accepted : ~a.row.deleted /\ Kept(a.id, a.row)
  /\ \A h \in Handler : handler[h].at = "stored" => Kept(handler[h].id, RowOf(handler[h]))


(* The clock never goes back, and what was discarded stays noted.          *)
LEMMA HistoryGrows ==
  ASSUME TypeOK, [Next]_vars
  PROVE  now \in Nat /\ now' \in Nat /\ now <= now' /\ discarded \subseteq discarded'
<1>1. now \in Nat
  BY DEF TypeOK
<1>2. (now' = now \/ now' = now + 1) /\ discarded \subseteq discarded'
  <2>1. Submitting => UNCHANGED <<now, discarded>>
    BY DEF Submitting, Submit, ReserveReplayToken, Stamp, InsertMessage, Accept, Abandon
  <2> QED
    BY <2>1 DEF Next, ListMessages, DeleteMessage, CleanupMessages, DeleteMailbox, CreateMailbox,
       Tick, vars
<1> QED  BY <1>1, <1>2

(* A row that is kept stays so.                                            *)
LEMMA KeptStays ==
  ASSUME TypeOK, [Next]_vars, NEW i \in MessageId, NEW row \in Row, ~row.deleted, Kept(i, row)
  PROVE  Kept(i, row)'
<1>1. CASE row.expires <= now \/ [id |-> i, row |-> row] \in discarded
  BY <1>1, HistoryGrows DEF Kept, Row
<1>2. CASE messages[i] = row /\ ~(row.expires <= now)
  <2>1. row # None
    BY NoneAssumption
  <2>2. CASE Submitting
    <3>1. messages'[i] = messages[i]
      BY <1>2, <2>1, <2>2 DEF Submitting, Submit, ReserveReplayToken, Stamp, InsertMessage,
         Accept, Abandon, TypeOK
    <3> QED  BY <1>2, <3>1 DEF Kept
  <2>3. ASSUME NEW mb \in Mailbox, NEW j \in MessageId, DeleteMessage(mb, j) PROVE Kept(i, row)'
    BY <1>2, <2>3 DEF DeleteMessage, Kept, TypeOK
  <2>4. ASSUME NEW mb \in Mailbox, DeleteMailbox(mb) PROVE Kept(i, row)'
    BY <1>2, <2>4 DEF DeleteMailbox, Kept
  <2>5. CASE CleanupMessages
    BY <1>2, <2>1, <2>5 DEF CleanupMessages, Dead, Kept
  <2>6. CASE UNCHANGED messages
    BY <1>2, <2>6 DEF Kept
  <2> QED
    BY <2>2, <2>3, <2>4, <2>5, <2>6 DEF Next, ListMessages, CreateMailbox, Tick, vars
<1> QED  BY <1>1, <1>2 DEF Kept

LEMMA KeptInit == Init => KeptInv
BY DEF Init, KeptInv, Idle

LEMMA KeptStep == TypeOK /\ KeptInv /\ [Next]_vars => KeptInv'
<1> SUFFICES ASSUME TypeOK, KeptInv, [Next]_vars PROVE KeptInv'
  OBVIOUS
<1>1. ASSUME NEW a \in accepted PROVE ~a.row.deleted /\ Kept(a.id, a.row)'
  BY KeptStays DEF KeptInv, TypeOK
<1>2. ASSUME NEW h \in Handler, handler[h].at = "stored"
      PROVE  ~RowOf(handler[h]).deleted /\ Kept(handler[h].id, RowOf(handler[h]))
             /\ [id |-> handler[h].id, row |-> RowOf(handler[h])].row = RowOf(handler[h])
  BY <1>2 DEF KeptInv, RowOf
<1>3. ASSUME NEW h \in Handler, handler[h].at = "stored", handler'[h] = handler[h]
      PROVE  Kept(handler[h].id, RowOf(handler[h]))'
  <2>1. handler[h].id \in MessageId /\ RowOf(handler[h]) \in Row
    BY <1>3, SubmissionHas, RowTyped DEF Submission
  <2>2. Kept(handler[h].id, RowOf(handler[h])) /\ ~RowOf(handler[h]).deleted
    BY <1>3, <1>2
  <2>3. ASSUME NEW i \in MessageId, NEW row \in Row, i = handler[h].id, row = RowOf(handler[h])
        PROVE  Kept(handler[h].id, RowOf(handler[h]))'
    <3>1. Kept(i, row)'
      BY <2>2, <2>3, KeptStays
    <3>2. RowOf(handler[h])' = row /\ handler'[h].id = i
      BY <1>3, <2>3 DEF RowOf
    <3> QED  BY <3>1, <3>2 DEF Kept
  <2> QED  BY <2>1, <2>3
<1>4. ASSUME NEW h \in Handler, InsertMessage(h), handler'[h].at = "stored"
      PROVE  Kept(handler[h].id, RowOf(handler[h]))'
  <2>1. handler[h] \in Submission
    BY <1>4, SubmissionHas DEF InsertMessage
  <2>2. messages' = [messages EXCEPT ![handler[h].id] = RowOf(handler[h])]
        /\ handler' = [handler EXCEPT ![h].at = "stored"]
    BY <1>4 DEF InsertMessage, TypeOK, Idle
  <2>3. handler'[h].id = handler[h].id /\ RowOf(handler[h])' = RowOf(handler[h])
    BY <2>1, <2>2 DEF Submission, RowOf, TypeOK
  <2>4. messages'[handler[h].id] = RowOf(handler[h])
    BY <2>1, <2>2 DEF Submission, TypeOK
  <2> QED  BY <2>3, <2>4 DEF Kept
<1>5. ASSUME NEW h \in Handler, handler'[h].at = "stored"
      PROVE  Kept(handler[h].id, RowOf(handler[h]))'
  <2>1. handler'[h] = handler[h] \/ InsertMessage(h)
    <3>1. ASSUME NEW g \in Handler, ~InsertMessage(h),
                 \/ \E mb \in Mailbox, token \in Token, id \in MessageId, ttl \in Ttl :
                      Submit(g, mb, token, id, ttl)
                 \/ ReserveReplayToken(g) \/ Stamp(g) \/ InsertMessage(g) \/ Accept(g) \/ Abandon(g)
          PROVE  handler'[h] = handler[h]
      BY <1>5, <3>1 DEF Submit, ReserveReplayToken, Stamp, InsertMessage, Accept, Abandon, TypeOK,
         Idle, Submission
    <3>2. ~Submitting => UNCHANGED handler
      BY DEF Next, ListMessages, DeleteMessage, CleanupMessages, DeleteMailbox, CreateMailbox,
         Tick, vars
    <3> QED  BY <3>1, <3>2 DEF Submitting
  <2> QED  BY <1>3, <1>4, <1>5, <2>1
<1>6. ASSUME NEW a \in accepted' \ accepted PROVE ~a.row.deleted /\ Kept(a.id, a.row)'
  <2>1. PICK h \in Handler : Accept(h)
    BY DEF Next, Submitting, Submit, ReserveReplayToken, Stamp, InsertMessage, Abandon,
       ListMessages, DeleteMessage, CleanupMessages, DeleteMailbox, CreateMailbox, Tick, vars
  <2>2. a.id = handler[h].id /\ a.row = RowOf(handler[h]) /\ handler[h].at = "stored"
    BY <2>1 DEF Accept
  <2>3. Kept(a.id, a.row) /\ ~a.row.deleted
    BY <1>2, <2>2
  <2>4. a.id \in MessageId /\ a.row \in Row
    BY <2>2, SubmissionHas, RowTyped DEF Submission
  <2> QED  BY <2>3, <2>4, KeptStays
<1> QED  BY <1>1, <1>5, <1>6 DEF KeptInv

(* A message the sender was told 202 for stays until it expires, or its    *)
(* owner deletes it or goes.                                               *)
THEOREM AcceptedAreKept == Spec => []AcceptedIsKept
<1>1. TypeOK /\ KeptInv => AcceptedIsKept
  <2> SUFFICES ASSUME TypeOK, KeptInv, NEW a \in accepted
               PROVE  messages[a.id] = a.row \/ a.row.expires <= now \/ a \in discarded
    BY DEF AcceptedIsKept
  <2>1. a = [id |-> a.id, row |-> a.row]
    BY DEF TypeOK
  <2> QED  BY <2>1 DEF KeptInv, Kept
<1> QED  BY TypedInit, TypedStep, KeptInit, KeptStep, <1>1, PTL DEF Spec

-----------------------------------------------------------------------------
(* A token is used once.  Two messages of one token were reserved one      *)
(* after the other, the second when the first's reservation had ended; and *)
(* a reservation ends no earlier than the message it was made for.         *)

\* When the reservation of a row, and of a submission, ends.
RowEnd(w) == w.reserved + (w.expires - w.received) + Margin
SubmissionEnd(r) == r.reserved + r.ttl + Margin

RowSpent(w) ==
  w.reserved <= now /\ w.expires <= RowEnd(w) /\ RowEnd(w) <= replay[KeyOf(w)]

InTime(r) ==
  /\ r.at = "reserved" => now <= r.reserved + MaxDelay
  /\ r.at = "stamped" => r.received <= r.reserved + MaxDelay

SubmissionSpent(r) ==
  r.reserved <= now /\ SubmissionEnd(r) <= replay[KeyOf(r)] /\ InTime(r)

OneAfterTheOther(x, xEnd, y, yEnd) ==
  KeyOf(x) = KeyOf(y) => xEnd <= y.reserved \/ yEnd <= x.reserved

Reserved(h) == handler[h].at \in Reserving

RowsApart ==
  \A i, j \in MessageId : messages[i] # None /\ messages[j] # None /\ i # j =>
    OneAfterTheOther(messages[i], RowEnd(messages[i]), messages[j], RowEnd(messages[j]))

RowsAndSubmissionsApart ==
  \A i \in MessageId, h \in Handler : messages[i] # None /\ Reserved(h) =>
    OneAfterTheOther(messages[i], RowEnd(messages[i]), handler[h], SubmissionEnd(handler[h]))

SubmissionsApart ==
  \A h, g \in Handler : Reserved(h) /\ Reserved(g) /\ h # g =>
    OneAfterTheOther(handler[h], SubmissionEnd(handler[h]), handler[g], SubmissionEnd(handler[g]))

TokensInv ==
  /\ \A i \in MessageId : messages[i] # None => RowSpent(messages[i])
  /\ \A h \in Handler : Reserved(h) => SubmissionSpent(handler[h])
  /\ RowsApart /\ RowsAndSubmissionsApart /\ SubmissionsApart

LEMMA TokensInit == Init => TokensInv
BY DEF Init, TokensInv, RowsApart, RowsAndSubmissionsApart, SubmissionsApart, Reserved, Reserving,
       Idle

SameRow(v, w) ==
  /\ v.mailbox = w.mailbox /\ v.token = w.token
  /\ v.reserved = w.reserved /\ v.received = w.received /\ v.expires = w.expires

SameReservation(r, s) ==
  r.mailbox = s.mailbox /\ r.token = s.token /\ r.reserved = s.reserved /\ r.ttl = s.ttl

(* What neither adds a row nor reserves.                                   *)
LEMMA TokensStay ==
  ASSUME TypeOK, TypeOK', TokensInv, now <= now', UNCHANGED replay,
         \A i \in MessageId : messages'[i] # None =>
           messages[i] # None /\ SameRow(messages'[i], messages[i]),
         \A h \in Handler : Reserved(h)' =>
           Reserved(h) /\ SameReservation(handler'[h], handler[h]) /\ InTime(handler[h])'
  PROVE  TokensInv'
<1>1. ASSUME NEW i \in MessageId, messages'[i] # None
      PROVE  /\ KeyOf(messages[i])' = KeyOf(messages[i])
             /\ RowEnd(messages[i])' = RowEnd(messages[i])
             /\ messages'[i].reserved = messages[i].reserved /\ messages[i] # None
             /\ messages'[i].expires = messages[i].expires
  BY <1>1 DEF SameRow, KeyOf, RowEnd
<1>2. ASSUME NEW h \in Handler, Reserved(h)'
      PROVE  /\ KeyOf(handler[h])' = KeyOf(handler[h])
             /\ SubmissionEnd(handler[h])' = SubmissionEnd(handler[h])
             /\ handler'[h].reserved = handler[h].reserved /\ Reserved(h)
  BY <1>2 DEF SameReservation, KeyOf, SubmissionEnd
<1>3. ASSUME NEW i \in MessageId, messages'[i] # None PROVE RowSpent(messages[i])'
  <2>1. messages[i].reserved \in Nat /\ now \in Nat /\ now' \in Nat
    BY <1>1, <1>3 DEF TypeOK, Row
  <2> QED  BY <1>1, <1>3, <2>1 DEF TokensInv, RowSpent
<1>4. ASSUME NEW h \in Handler, Reserved(h)' PROVE SubmissionSpent(handler[h])'
  <2>1. handler[h].reserved \in Nat /\ now \in Nat /\ now' \in Nat
    BY <1>2, <1>4, SubmissionHas DEF TypeOK, Submission, Reserved, Reserving
  <2> QED  BY <1>2, <1>4, <2>1 DEF TokensInv, SubmissionSpent
<1>5. RowsApart'
  BY <1>1 DEF TokensInv, RowsApart, OneAfterTheOther
<1>6. RowsAndSubmissionsApart'
  BY <1>1, <1>2 DEF TokensInv, RowsAndSubmissionsApart, OneAfterTheOther
<1>7. SubmissionsApart'
  BY <1>2 DEF TokensInv, SubmissionsApart, OneAfterTheOther
<1> QED  BY <1>3, <1>4, <1>5, <1>6, <1>7 DEF TokensInv

LEMMA ReserveTokens ==
  ASSUME TypeOK, TokensInv, NEW h \in Handler, ReserveReplayToken(h)
  PROVE  TokensInv'
<1> DEFINE r == handler[h]
           key == KeyOf(handler[h])
<1>1. /\ r \in Submission /\ key \in ReplayKey
      /\ r.ttl \in Nat /\ Margin \in Nat /\ MaxDelay \in Nat /\ now \in Nat
      /\ \A k \in ReplayKey : replay[k] \in Nat
  <2>1. r \in Submission
    BY SubmissionHas DEF ReserveReplayToken
  <2> QED  BY <2>1, ConfigAssumption DEF Submission, KeyOf, ReplayKey, TypeOK
<1>2. UNCHANGED <<now, messages>> /\ r.at = "checked"
  BY DEF ReserveReplayToken
<1>3. CASE now < replay[key]
  <2>1. UNCHANGED replay /\ handler' = [handler EXCEPT ![h] = Idle]
    BY <1>3 DEF ReserveReplayToken
  <2>2. \A g \in Handler : Reserved(g)' => handler'[g] = handler[g]
    BY <2>1 DEF Reserved, Reserving, Idle, TypeOK
  <2> QED
    BY <1>2, <2>1, <2>2 DEF TokensInv, RowSpent, SubmissionSpent, InTime, RowsApart,
       RowsAndSubmissionsApart, SubmissionsApart, OneAfterTheOther, Reserved, RowEnd,
       SubmissionEnd, KeyOf
<1>4. CASE ~(now < replay[key])
  <2>1. /\ handler' = [handler EXCEPT ![h] = [r EXCEPT !.at = "reserved", !.reserved = now]]
        /\ replay' = [replay EXCEPT ![key] = now + r.ttl + Margin]
    BY <1>4 DEF ReserveReplayToken
  <2>2. /\ handler'[h].reserved = now /\ KeyOf(handler[h])' = key /\ handler'[h].at = "reserved"
        /\ SubmissionEnd(handler[h])' = now + r.ttl + Margin
        /\ \A g \in Handler \ {h} : handler'[g] = handler[g]
    BY <1>1, <2>1 DEF TypeOK, Submission, KeyOf, SubmissionEnd
  <2>3. replay[key] <= now /\ \A k \in ReplayKey : replay[k] <= replay'[k]
    BY <1>1, <1>4, <2>1 DEF TypeOK
  <2>4. ASSUME NEW i \in MessageId, messages[i] # None
        PROVE  /\ KeyOf(messages[i]) \in ReplayKey /\ RowEnd(messages[i]) \in Int
               /\ RowSpent(messages[i])'
               /\ KeyOf(messages[i]) = key => RowEnd(messages[i]) <= now
    <3>1. messages[i] \in Row /\ RowSpent(messages[i])
      BY <2>4 DEF TypeOK, TokensInv
    <3>2. KeyOf(messages[i]) \in ReplayKey /\ RowEnd(messages[i]) \in Int
      BY <1>1, <3>1 DEF Row, KeyOf, ReplayKey, RowEnd
    <3>3. replay'[KeyOf(messages[i])] \in Int /\ replay[KeyOf(messages[i])] \in Int
      BY <1>1, <2>1, <3>2 DEF TypeOK
    <3>4. RowEnd(messages[i]) <= replay'[KeyOf(messages[i])]
      BY <2>3, <3>1, <3>2, <3>3 DEF RowSpent
    <3>5. RowSpent(messages[i])'
      BY <1>2, <3>1, <3>4 DEF RowSpent, KeyOf, RowEnd
    <3>6. KeyOf(messages[i]) = key => RowEnd(messages[i]) <= now
      BY <1>1, <2>3, <3>1, <3>2, <3>3 DEF RowSpent
    <3> QED  BY <3>2, <3>5, <3>6
  <2>5. ASSUME NEW g \in Handler \ {h}, Reserved(g)
        PROVE  /\ SubmissionSpent(handler[g])'
               /\ KeyOf(handler[g]) = key => SubmissionEnd(handler[g]) <= now
    <3>1. handler[g] \in Submission /\ SubmissionSpent(handler[g])
      BY <2>5, SubmissionHas DEF TokensInv, Reserved, Reserving
    <3>2. KeyOf(handler[g]) \in ReplayKey /\ SubmissionEnd(handler[g]) \in Int
      <4>1. handler[g].ttl \in Nat
        BY <3>1, ConfigAssumption DEF Submission
      <4> QED  BY <1>1, <3>1, <4>1 DEF Submission, KeyOf, ReplayKey, SubmissionEnd
    <3>3. replay'[KeyOf(handler[g])] \in Int /\ replay[KeyOf(handler[g])] \in Int
      BY <1>1, <2>1, <3>2 DEF TypeOK
    <3>4. SubmissionEnd(handler[g]) <= replay'[KeyOf(handler[g])]
      BY <2>3, <3>1, <3>2, <3>3 DEF SubmissionSpent
    <3>5. SubmissionSpent(handler[g])'
      BY <1>2, <2>2, <3>1, <3>4 DEF SubmissionSpent, KeyOf, SubmissionEnd, InTime
    <3>6. KeyOf(handler[g]) = key => SubmissionEnd(handler[g]) <= now
      BY <1>1, <2>3, <3>1, <3>2, <3>3 DEF SubmissionSpent
    <3> QED  BY <3>5, <3>6
  <2>6. SubmissionSpent(handler[h])'
    <3>1. replay'[key] = now + r.ttl + Margin
      BY <1>1, <2>1 DEF TypeOK
    <3>2. now <= now + MaxDelay /\ now + r.ttl + Margin <= now + r.ttl + Margin
      BY <1>1
    <3> QED  BY <1>1, <1>2, <2>2, <3>1, <3>2 DEF SubmissionSpent, InTime
  <2>7. \A g \in Handler \ {h} : Reserved(g)' <=> Reserved(g)
    BY <2>2 DEF Reserved
  <2>8. RowsApart'
    BY <1>2 DEF TokensInv, RowsApart, OneAfterTheOther, KeyOf, RowEnd
  <2>9. RowsAndSubmissionsApart'
    <3> SUFFICES ASSUME NEW i \in MessageId, NEW g \in Handler, messages[i] # None, Reserved(g)'
                 PROVE  OneAfterTheOther(messages[i], RowEnd(messages[i]), handler'[g],
                                         SubmissionEnd(handler[g])')
      BY <1>2 DEF RowsAndSubmissionsApart, OneAfterTheOther, KeyOf, RowEnd
    <3>1. CASE g = h
      <4>1. KeyOf(handler'[h]) = key
        BY <2>2 DEF KeyOf
      <4> QED  BY <2>2, <2>4, <3>1, <4>1 DEF OneAfterTheOther
    <3>2. CASE g # h
      BY <2>2, <2>7, <3>2 DEF TokensInv, RowsAndSubmissionsApart, SubmissionEnd
    <3> QED  BY <3>1, <3>2
  <2>10. SubmissionsApart'
    <3> SUFFICES ASSUME NEW f \in Handler, NEW g \in Handler, f # g, Reserved(f)', Reserved(g)'
                 PROVE  OneAfterTheOther(handler'[f], SubmissionEnd(handler[f])', handler'[g],
                                         SubmissionEnd(handler[g])')
      BY DEF SubmissionsApart, OneAfterTheOther, KeyOf
    <3>1. \A k \in Handler \ {h} : handler'[k] = handler[k]
            /\ SubmissionEnd(handler[k])' = SubmissionEnd(handler[k])
      BY <2>2 DEF SubmissionEnd
    <3>2. KeyOf(handler'[h]) = key
      BY <2>2 DEF KeyOf
    <3>3. CASE f # h /\ g # h
      BY <2>7, <3>1, <3>3 DEF TokensInv, SubmissionsApart
    <3>4. CASE f = h
      BY <2>2, <2>5, <2>7, <3>1, <3>2, <3>4 DEF OneAfterTheOther
    <3>5. CASE g = h
      BY <2>2, <2>5, <2>7, <3>1, <3>2, <3>5 DEF OneAfterTheOther
    <3> QED  BY <3>3, <3>4, <3>5
  <2> QED
    BY <1>2, <2>4, <2>5, <2>6, <2>7, <2>8, <2>9, <2>10 DEF TokensInv
<1> QED  BY <1>3, <1>4

(* The row inherits the reservation of its submission; it expires within   *)
(* the reservation because the stamp is at most Margin late.               *)
LEMMA InsertTokens ==
  ASSUME MaxDelay <= Margin, TypeOK, TokensInv, NEW h \in Handler, InsertMessage(h),
         handler'[h].at = "stored"
  PROVE  TokensInv'
<1> DEFINE r == handler[h]
           w == RowOf(handler[h])
<1>1. /\ r \in Submission /\ w \in Row /\ w # None /\ r.id \in MessageId
      /\ r.ttl \in Nat /\ Margin \in Nat /\ MaxDelay \in Nat
      /\ r.reserved \in Nat /\ r.received \in Nat
  <2>1. r \in Submission
    BY SubmissionHas DEF InsertMessage
  <2> QED  BY <2>1, RowTyped, ConfigAssumption DEF Submission
<1>2. /\ UNCHANGED <<now, replay>> /\ r.at = "stamped" /\ messages[r.id] = None
      /\ messages' = [messages EXCEPT ![r.id] = w]
      /\ handler' = [handler EXCEPT ![h].at = "stored"]
  BY DEF InsertMessage, TypeOK, Idle
<1>3. Reserved(h) /\ SubmissionSpent(r)
  BY <1>2 DEF TokensInv, Reserved, Reserving
<1>4. RowEnd(w) = SubmissionEnd(r) /\ KeyOf(w) = KeyOf(r) /\ w.reserved = r.reserved
  BY <1>1 DEF RowEnd, SubmissionEnd, RowOf, KeyOf
<1>5. RowSpent(w)
  <2>1. w.expires = r.received + r.ttl /\ r.received <= r.reserved + MaxDelay
    BY <1>2, <1>3 DEF SubmissionSpent, InTime, RowOf
  <2>2. w.expires <= SubmissionEnd(r)
    BY <1>1, <2>1 DEF SubmissionEnd
  <2> QED  BY <1>3, <1>4, <2>2 DEF RowSpent, SubmissionSpent
<1>6. \A i \in MessageId : messages'[i] = IF i = r.id THEN w ELSE messages[i]
  BY <1>2 DEF TypeOK
<1>7. ~Reserved(h)' /\ \A g \in Handler \ {h} : handler'[g] = handler[g]
  BY <1>2 DEF TypeOK, Reserved, Reserving
<1> HIDE DEF w
<1>8. ASSUME NEW i \in MessageId, messages'[i] # None PROVE RowSpent(messages[i])'
  <2>1. RowSpent(messages'[i])
    BY <1>5, <1>6, <1>8 DEF TokensInv
  <2> QED  BY <1>2, <2>1 DEF RowSpent, RowEnd, KeyOf
<1>9. ASSUME NEW g \in Handler, Reserved(g)' PROVE SubmissionSpent(handler[g])'
  BY <1>2, <1>7, <1>9 DEF TokensInv, Reserved, SubmissionSpent, SubmissionEnd, KeyOf, InTime
<1>10. RowsApart'
  <2> SUFFICES ASSUME NEW i \in MessageId, NEW j \in MessageId, i # j,
                      messages'[i] # None, messages'[j] # None
               PROVE  OneAfterTheOther(messages'[i], RowEnd(messages'[i]),
                                       messages'[j], RowEnd(messages'[j]))
    BY DEF RowsApart, OneAfterTheOther, KeyOf, RowEnd
  <2>1. CASE i # r.id /\ j # r.id
    BY <1>6, <2>1 DEF TokensInv, RowsApart
  <2>2. CASE i = r.id
    <3>1. OneAfterTheOther(messages[j], RowEnd(messages[j]), r, SubmissionEnd(r))
      BY <1>3, <1>6, <2>2 DEF TokensInv, RowsAndSubmissionsApart
    <3> QED  BY <1>4, <1>6, <2>2, <3>1 DEF OneAfterTheOther
  <2>3. CASE j = r.id
    <3>1. OneAfterTheOther(messages[i], RowEnd(messages[i]), r, SubmissionEnd(r))
      BY <1>3, <1>6, <2>3 DEF TokensInv, RowsAndSubmissionsApart
    <3> QED  BY <1>4, <1>6, <2>3, <3>1 DEF OneAfterTheOther
  <2> QED  BY <2>1, <2>2, <2>3
<1>11. RowsAndSubmissionsApart'
  <2> SUFFICES ASSUME NEW i \in MessageId, NEW g \in Handler, messages'[i] # None, Reserved(g)'
               PROVE  OneAfterTheOther(messages'[i], RowEnd(messages'[i]), handler'[g],
                                       SubmissionEnd(handler'[g]))
    BY DEF RowsAndSubmissionsApart, OneAfterTheOther, KeyOf, RowEnd, SubmissionEnd
  <2>1. g # h /\ handler'[g] = handler[g] /\ Reserved(g)
    BY <1>7 DEF Reserved
  <2>2. CASE i # r.id
    BY <1>6, <2>1, <2>2 DEF TokensInv, RowsAndSubmissionsApart
  <2>3. CASE i = r.id
    <3>1. OneAfterTheOther(r, SubmissionEnd(r), handler[g], SubmissionEnd(handler[g]))
      BY <1>3, <2>1 DEF TokensInv, SubmissionsApart
    <3> QED  BY <1>4, <1>6, <2>1, <2>3, <3>1 DEF OneAfterTheOther
  <2> QED  BY <2>2, <2>3
<1>12. SubmissionsApart'
  BY <1>7 DEF TokensInv, SubmissionsApart, OneAfterTheOther, KeyOf, SubmissionEnd, Reserved
<1> QED  BY <1>8, <1>9, <1>10, <1>11, <1>12 DEF TokensInv

LEMMA TokensStep == MaxDelay <= Margin /\ TypeOK /\ TokensInv /\ [Next]_vars => TokensInv'
<1> SUFFICES ASSUME MaxDelay <= Margin, TypeOK, TokensInv, [Next]_vars PROVE TokensInv'
  OBVIOUS
<1>1. TypeOK' /\ now \in Nat /\ now' \in Nat /\ now <= now'
  BY TypedStep, HistoryGrows
<1>2. ASSUME NEW h \in Handler, handler[h].at \in Reserving, handler'[h] = handler[h], now' = now
      PROVE  SameReservation(handler'[h], handler[h]) /\ InTime(handler[h])'
  BY <1>2 DEF SameReservation, InTime, TokensInv, SubmissionSpent, Reserved
<1>3. \A i \in MessageId : SameRow(messages[i], messages[i])
  BY DEF SameRow
<1>4. ASSUME NEW h \in Handler,
             \/ \E mb \in Mailbox, token \in Token, id \in MessageId, ttl \in Ttl :
                  Submit(h, mb, token, id, ttl)
             \/ Stamp(h) \/ Accept(h) \/ Abandon(h)
             \/ InsertMessage(h) /\ handler'[h].at # "stored"
      PROVE  TokensInv'
  <2>4. InsertMessage(h) /\ handler'[h].at # "stored" =>
          handler' = [handler EXCEPT ![h] = Idle] /\ UNCHANGED <<now, replay, messages>>
    <3> SUFFICES ASSUME InsertMessage(h), handler' = [handler EXCEPT ![h].at = "stored"]
                 PROVE  handler'[h].at = "stored"
      BY DEF InsertMessage
    <3>1. handler[h] \in Submission
      BY SubmissionHas DEF InsertMessage
    <3> QED  BY <3>1 DEF Submission, TypeOK
  <2>1. UNCHANGED <<now, replay, messages>>
    BY <1>4, <2>4 DEF Submit, Stamp, Accept, Abandon
  <2>2. \A g \in Handler \ {h} : handler'[g] = handler[g]
    BY <1>4 DEF Submit, Stamp, Accept, Abandon, InsertMessage, TypeOK
  <2>3. Reserved(h)' => Reserved(h) /\ SameReservation(handler'[h], handler[h]) /\ InTime(handler[h])'
    <3>1. CASE Stamp(h)
      <4>1. handler[h] \in Submission
        BY <3>1, SubmissionHas DEF Stamp
      <4>2. /\ handler'[h].at = "stamped" /\ handler'[h].received = now
            /\ SameReservation(handler'[h], handler[h])
        BY <3>1, <4>1 DEF Stamp, SameReservation, Submission, TypeOK
      <4>3. Reserved(h) /\ now <= handler[h].reserved + MaxDelay
        BY <3>1 DEF Stamp, Reserved, Reserving, TokensInv, SubmissionSpent, InTime
      <4> QED  BY <4>2, <4>3 DEF InTime, SameReservation
    <3>2. CASE ~Stamp(h)
      <4>1. handler'[h].at \in {"checked", "idle"}
        BY <1>4, <2>4, <3>2 DEF Submit, Accept, Abandon, TypeOK, Idle
      <4> QED  BY <4>1 DEF Reserved, Reserving
    <3> QED  BY <3>1, <3>2
  <2> QED  BY <1>1, <1>2, <1>3, <2>1, <2>2, <2>3, TokensStay DEF Reserved
<1>5. ASSUME NEW h \in Handler, InsertMessage(h), handler'[h].at = "stored" PROVE TokensInv'
  BY <1>5, InsertTokens
<1>6. ASSUME NEW h \in Handler, ReserveReplayToken(h) PROVE TokensInv'
  BY <1>6, ReserveTokens
<1>7. CASE Tick
  <2>1. \A h \in Handler : Reserved(h)' => Reserved(h)
          /\ SameReservation(handler'[h], handler[h]) /\ InTime(handler[h])'
    <3> SUFFICES ASSUME NEW h \in Handler, Reserved(h)
                 PROVE  SameReservation(handler'[h], handler[h]) /\ InTime(handler[h])'
      BY <1>7 DEF Tick, Reserved
    <3>1. handler'[h] = handler[h] /\ InTime(handler[h])
      BY <1>7 DEF Tick, TokensInv, SubmissionSpent
    <3>2. handler[h].at = "reserved" => now' <= handler[h].reserved + MaxDelay
      <4>1. handler[h].reserved \in Nat /\ MaxDelay \in Nat
        BY SubmissionHas, ConfigAssumption DEF Reserved, Reserving, Submission
      <4>2. handler[h].at = "reserved" => now < handler[h].reserved + MaxDelay
        BY <1>7 DEF Tick
      <4>3. now' = now + 1
        BY <1>7 DEF Tick
      <4> QED  BY <1>1, <4>1, <4>2, <4>3
    <3> QED  BY <3>1, <3>2 DEF InTime, SameReservation
  <2> QED  BY <1>1, <1>3, <1>7, <2>1, TokensStay DEF Tick
<1>8. CASE UNCHANGED <<now, replay, handler>>
           /\ \A i \in MessageId : messages'[i] # None =>
                messages[i] # None /\ SameRow(messages'[i], messages[i])
  <2>1. \A h \in Handler : Reserved(h)' => Reserved(h)
          /\ SameReservation(handler'[h], handler[h]) /\ InTime(handler[h])'
    BY <1>2, <1>8 DEF Reserved
  <2> QED  BY <1>1, <1>8, <2>1, TokensStay
<1>9. ASSUME NEW mb \in Mailbox, NEW i \in MessageId, DeleteMessage(mb, i) PROVE TokensInv'
  <2>1. messages[i] \in Row /\ messages' = [messages EXCEPT ![i] = [messages[i] EXCEPT !.deleted = TRUE]]
    BY <1>9 DEF DeleteMessage, TypeOK
  <2>2. SameRow([messages[i] EXCEPT !.deleted = TRUE], messages[i])
    BY <2>1 DEF SameRow, Row
  <2>3. messages[i] # None
    BY <1>9 DEF DeleteMessage
  <2> QED  BY <1>3, <1>8, <1>9, <2>1, <2>2, <2>3 DEF DeleteMessage, TypeOK
<1>10. CASE \/ CleanupMessages
            \/ \E mb \in Mailbox : ListMessages(mb) \/ DeleteMailbox(mb) \/ CreateMailbox(mb)
            \/ UNCHANGED vars
  BY <1>3, <1>8, <1>10 DEF CleanupMessages, ListMessages, DeleteMailbox, CreateMailbox, vars
<1> QED  BY <1>4, <1>5, <1>6, <1>7, <1>9, <1>10 DEF Next, Submitting

(* When a handler is never later with its stamp than the margin, one       *)
(* message at most of those submitted with one token is not expired.       *)
THEOREM TokensAreUsedOnce ==
  ASSUME MaxDelay <= Margin
  PROVE  Spec => []OneLiveMessagePerToken
<1>1. TypeOK /\ TokensInv => OneLiveMessagePerToken
  <2> SUFFICES ASSUME TypeOK, TokensInv, NEW i \in MessageId, NEW j \in MessageId, i # j,
                      messages[i] # None, now < messages[i].expires,
                      messages[j] # None, now < messages[j].expires,
                      KeyOf(messages[i]) = KeyOf(messages[j])
               PROVE  FALSE
    BY DEF OneLiveMessagePerToken
  <2>1. \/ RowEnd(messages[i]) <= messages[j].reserved
        \/ RowEnd(messages[j]) <= messages[i].reserved
    BY DEF TokensInv, RowsApart, OneAfterTheOther
  <2>2. \A k \in {i, j} : /\ messages[k].expires <= RowEnd(messages[k])
                          /\ messages[k].reserved <= now
                          /\ messages[k].expires \in Int /\ messages[k].reserved \in Int
                          /\ RowEnd(messages[k]) \in Int
    BY ConfigAssumption DEF TokensInv, RowSpent, RowEnd, TypeOK, Row
  <2>3. now \in Int
    BY DEF TypeOK
  <2> QED  BY <2>1, <2>2, <2>3
<1> QED  BY TypedInit, TypedStep, TokensInit, TokensStep, <1>1, PTL DEF Spec

-----------------------------------------------------------------------------
(* The rate limiter.                                                       *)

Since(c)  == {u \in Nat : c <= u}
Before(c) == {u \in Nat : c - Window <= u /\ u < c}

Creating == \E h \in Caller : creating[h] # Never

(* The counter counts since c: the requests of its life were counted and   *)
(* admitted since then, and those of the life before it within a window.   *)
CountsSince(c) ==
  /\ c \in Nat /\ c <= clock
  /\ Total(admitted, Before(c)) <= Limit
  /\ Total(admitted, Since(c)) <= Limit
  /\ Total(admitted, Since(c)) <= count
  /\ count <= Total(hits, Since(c))
  /\ count = 0 => c = clock /\ expiry = Never /\ ~Creating
  /\ expiry # Never => /\ c + Window <= expiry /\ expiry <= c + MaxGap + Window
                       /\ ~Creating
  /\ \A h \in Caller : creating[h] # Never =>
       /\ creating[h] = c /\ clock <= c + MaxGap
       /\ Total(admitted, Since(c)) < count
       /\ Limit > 0 => Total(admitted, Since(c)) < Limit
       /\ \A g \in Caller : creating[g] # Never => g = h

NothingAhead ==
  /\ \A i \in DOMAIN hits : hits[i] <= clock
  /\ \A i \in DOMAIN admitted : admitted[i] <= clock

LimiterInv == LimiterTypeOK /\ NothingAhead /\ BurstIsBounded /\ \E c \in Nat : CountsSince(c)

(* As long as no handler ends between the round trips, a counter that has  *)
(* no time to live is about to get it.                                     *)
TimeToLiveComes == count > 0 /\ expiry = Never => Creating

LEMMA TotalType ==
  ASSUME NEW f \in Seq(Nat), NEW S
  PROVE  Total(f, S) \in Nat /\ IsFiniteSet({i \in DOMAIN f : f[i] \in S})
<1>1. DOMAIN f = 1 .. Len(f) /\ Len(f) \in Nat
  OBVIOUS
<1>2. IsFiniteSet(1 .. Len(f))
  BY <1>1, FS_Interval
<1>3. IsFiniteSet({i \in DOMAIN f : f[i] \in S})
  BY <1>1, <1>2, FS_Subset
<1> QED  BY <1>3, FS_CardinalityType DEF Total

LEMMA TotalMonotone ==
  ASSUME NEW f \in Seq(Nat), NEW S, NEW T, \A i \in DOMAIN f : f[i] \in S => f[i] \in T
  PROVE  Total(f, S) <= Total(f, T)
<1>1. {i \in DOMAIN f : f[i] \in S} \subseteq {i \in DOMAIN f : f[i] \in T}
  OBVIOUS
<1> QED  BY <1>1, TotalType, FS_Subset DEF Total

LEMMA TotalOfNone ==
  ASSUME NEW f \in Seq(Nat), NEW S, \A i \in DOMAIN f : f[i] \notin S
  PROVE  Total(f, S) = 0
<1>1. {i \in DOMAIN f : f[i] \in S} = {}
  OBVIOUS
<1> QED  BY <1>1, FS_EmptySet DEF Total

LEMMA TotalSplit ==
  ASSUME NEW f \in Seq(Nat), NEW S, NEW T, NEW U,
         \A i \in DOMAIN f : f[i] \in S => f[i] \in T \/ f[i] \in U
  PROVE  Total(f, S) <= Total(f, T) + Total(f, U)
<1> DEFINE s == {i \in DOMAIN f : f[i] \in S}
           t == {i \in DOMAIN f : f[i] \in T}
           u == {i \in DOMAIN f : f[i] \in U}
<1>1. s \subseteq t \cup u
  OBVIOUS
<1>2. IsFiniteSet(s) /\ IsFiniteSet(t) /\ IsFiniteSet(u)
  BY TotalType
<1>3. Total(f, S) = Cardinality(s) /\ Total(f, T) = Cardinality(t) /\ Total(f, U) = Cardinality(u)
  BY DEF Total
<1> HIDE DEF s, t, u
<1>4. /\ IsFiniteSet(t \cup u) /\ IsFiniteSet(t \cap u)
      /\ Cardinality(t \cup u) = Cardinality(t) + Cardinality(u) - Cardinality(t \cap u)
  BY <1>2, FS_Union, FS_Subset
<1>5. /\ Cardinality(s) \in Nat /\ Cardinality(t) \in Nat /\ Cardinality(u) \in Nat
      /\ Cardinality(t \cup u) \in Nat /\ Cardinality(t \cap u) \in Nat
  BY <1>2, <1>4, FS_CardinalityType
<1>6. Cardinality(s) <= Cardinality(t \cup u)
  BY <1>1, <1>4, FS_Subset
<1> QED  BY <1>3, <1>4, <1>5, <1>6

LEMMA TotalAppend ==
  ASSUME NEW f \in Seq(Nat), NEW x \in Nat, NEW S
  PROVE  Total(Append(f, x), S) = Total(f, S) + IF x \in S THEN 1 ELSE 0
<1> DEFINE g == Append(f, x)
           k == Len(f) + 1
           s == {i \in DOMAIN f : f[i] \in S}
           t == {i \in DOMAIN g : g[i] \in S}
<1>1. /\ DOMAIN f = 1 .. k - 1 /\ DOMAIN g = 1 .. k /\ k \in Nat /\ k >= 1 /\ g[k] = x
      /\ \A i \in DOMAIN f : g[i] = f[i]
  OBVIOUS
<1>2. IsFiniteSet(s) /\ Cardinality(s) \in Nat
  BY TotalType, FS_CardinalityType
<1>3. Total(f, S) = Cardinality(s) /\ Total(g, S) = Cardinality(t)
  BY DEF Total
<1> HIDE DEF g, k
<1>4. ASSUME x \in S PROVE Cardinality(t) = Cardinality(s) + 1
  <2>1. t = s \cup {k} /\ k \notin s
    BY <1>1, <1>4
  <2> HIDE DEF s, t
  <2> QED  BY <1>2, <2>1, FS_AddElement
<1>5. ASSUME x \notin S PROVE t = s
  BY <1>1, <1>5
<1> HIDE DEF s, t
<1>6. Total(g, S) = Total(f, S) + IF x \in S THEN 1 ELSE 0
  BY <1>2, <1>3, <1>4, <1>5
<1> QED  BY <1>6 DEF g

LEMMA SeqOfInstants ==
  /\ Instant \subseteq Nat
  /\ \A f \in Seq(Instant) : f \in Seq(Nat) /\ \A t \in Instant : Append(f, t) \in Seq(Instant)
<1>1. Instant \subseteq Nat
  BY LimiterAssumption DEF Instant
<1>2. ASSUME NEW f \in Seq(Instant) PROVE f \in Seq(Nat)
  <2>1. Len(f) \in Nat /\ f = [i \in 1 .. Len(f) |-> f[i]] /\ \A i \in 1 .. Len(f) : f[i] \in Nat
    BY <1>1
  <2> QED  BY <2>1
<1> QED  BY <1>1, <1>2

LEMMA HistoriesTyped ==
  ASSUME LimiterTypeOK
  PROVE  /\ Instant \subseteq Nat /\ clock \in Nat /\ MaxClock \in Nat
         /\ hits \in Seq(Nat) /\ admitted \in Seq(Nat)
         /\ Append(hits, clock) \in Seq(Instant) /\ Append(admitted, clock) \in Seq(Instant)
         /\ Limit \in Nat /\ Window \in Nat /\ Window > 0 /\ MaxGap \in Nat
<1>1. Limit \in Nat /\ Window \in Nat /\ Window > 0 /\ MaxGap \in Nat /\ MaxClock \in Nat
  BY LimiterAssumption
<1>2. clock \in Instant /\ hits \in Seq(Instant) /\ admitted \in Seq(Instant)
  BY DEF LimiterTypeOK
<1> QED  BY <1>1, <1>2, SeqOfInstants

(* A window that reaches the clock holds at most what one life of the      *)
(* counter admitted, and the life before it.                               *)
LEMMA BurstOfTwoLives ==
  ASSUME NEW f \in Seq(Nat), NEW x \in Nat, \A i \in DOMAIN f : f[i] <= x,
         NEW c \in Nat, c <= x,
         Total(f, Before(c)) <= Limit, Total(f, Since(c)) <= Limit,
         NEW t \in Nat, x < t + Window
  PROVE  Total(f, {u \in Instant : t <= u /\ u < t + Window}) <= 2 * Limit
<1> DEFINE S == {u \in Instant : t <= u /\ u < t + Window}
<1>1. Limit \in Nat /\ Window \in Nat
  BY LimiterAssumption
<1>2. \A i \in DOMAIN f : f[i] \in S => f[i] \in Before(c) \/ f[i] \in Since(c)
  BY <1>1 DEF Before, Since
<1>3. Total(f, S) \in Nat /\ Total(f, Before(c)) \in Nat /\ Total(f, Since(c)) \in Nat
  BY TotalType
<1>4. Total(f, S) <= Total(f, Before(c)) + Total(f, Since(c))
  BY <1>2, TotalSplit
<1> QED  BY <1>1, <1>3, <1>4

(* What the decision of a request adds to what was admitted.               *)
LEMMA DecideEffect ==
  ASSUME LimiterTypeOK, NothingAhead, BurstIsBounded, NEW c \in Nat, c <= clock,
         Total(admitted, Before(c)) <= Limit, Total(admitted, Since(c)) <= Limit,
         NEW n \in Nat, n > Limit \/ Total(admitted, Since(c)) < Limit,
         Decide(n), clock' = clock
  PROVE  /\ admitted' \in Seq(Instant) /\ \A i \in DOMAIN admitted' : admitted'[i] <= clock
         /\ refused' \subseteq Instant
         /\ Total(admitted', Before(c)) <= Limit
         /\ Total(admitted', Since(c)) <= Limit
         /\ Total(admitted', Since(c)) <= Total(admitted, Since(c)) + 1
         /\ BurstIsBounded'
<1>1. /\ Instant \subseteq Nat /\ clock \in Nat /\ admitted \in Seq(Nat) /\ Limit \in Nat
      /\ Append(admitted, clock) \in Seq(Instant)
  BY HistoriesTyped
<1>2. Total(admitted, Before(c)) \in Nat /\ Total(admitted, Since(c)) \in Nat
  BY <1>1, TotalType
<1>3. CASE admitted' = admitted /\ refused' = refused \cup {clock}
  <2>1. BurstIsBounded'
    BY <1>3 DEF BurstIsBounded
  <2> QED  BY <1>1, <1>2, <1>3, <2>1 DEF LimiterTypeOK, NothingAhead
<1>4. CASE n <= Limit /\ admitted' = Append(admitted, clock) /\ refused' = refused
  <2> DEFINE f == admitted
             g == Append(f, clock)
  <2>1. g \in Seq(Nat)
    BY <1>1
  <2>2. \A i \in DOMAIN g : g[i] <= clock
    BY <1>1 DEF NothingAhead
  <2>3. \A S : Total(g, S) = Total(f, S) + IF clock \in S THEN 1 ELSE 0
    BY <1>1, TotalAppend
  <2>4. clock \notin Before(c) /\ clock \in Since(c)
    BY <1>1 DEF Before, Since
  <2>5. Total(g, Before(c)) = Total(f, Before(c)) /\ Total(g, Since(c)) = Total(f, Since(c)) + 1
    BY <1>2, <2>3, <2>4
  <2>6. Total(f, Since(c)) < Limit
    BY <1>1, <1>4
  <2>7. Total(g, Before(c)) <= Limit /\ Total(g, Since(c)) <= Limit
    BY <1>1, <1>2, <2>5, <2>6
  <2> HIDE DEF f, g
  <2>8. ASSUME NEW t \in Instant
        PROVE  Total(g, {u \in Instant : t <= u /\ u < t + Window}) <= 2 * Limit
    <3> DEFINE S == {u \in Instant : t <= u /\ u < t + Window}
    <3>1. CASE clock \in S
      <4>1. clock < t + Window /\ t \in Nat
        BY <1>1, <3>1
      <4> QED  BY <1>1, <2>1, <2>2, <2>7, <4>1, BurstOfTwoLives
    <3>2. CASE clock \notin S
      <4>1. Total(f, S) \in Nat
        BY <1>1, TotalType DEF f
      <4>2. Total(f, S) <= 2 * Limit
        BY DEF BurstIsBounded, f
      <4> QED  BY <2>3, <3>2, <4>1, <4>2
    <3> QED  BY <3>1, <3>2
  <2>9. BurstIsBounded'
    <3>1. admitted' = g
      BY <1>4 DEF f, g
    <3> QED  BY <2>8, <3>1 DEF BurstIsBounded
  <2> QED  BY <1>1, <1>2, <1>4, <2>2, <2>5, <2>7, <2>9 DEF f, g, LimiterTypeOK
<1> QED  BY <1>1, <1>3, <1>4 DEF Decide

LEMMA CountEffect ==
  ASSUME LimiterTypeOK, NothingAhead, NEW c \in Nat, c <= clock,
         hits' = Append(hits, clock)
  PROVE  /\ hits' \in Seq(Instant) /\ \A i \in DOMAIN hits' : hits'[i] <= clock
         /\ Total(hits', Since(c)) = Total(hits, Since(c)) + 1
         /\ Total(hits, Since(c)) \in Nat
<1>1. clock \in Nat /\ hits \in Seq(Nat) /\ Append(hits, clock) \in Seq(Instant)
  BY HistoriesTyped
<1>2. clock \in Since(c)
  BY <1>1 DEF Since
<1>3. Total(Append(hits, clock), Since(c)) = Total(hits, Since(c)) + 1
  BY <1>1, <1>2, TotalAppend
<1>4. Total(hits, Since(c)) \in Nat
  BY <1>1, TotalType
<1>5. \A i \in DOMAIN Append(hits, clock) : Append(hits, clock)[i] <= clock
  BY <1>1 DEF NothingAhead
<1> QED  BY <1>1, <1>3, <1>4, <1>5

LEMMA InitLimiterInv == LimiterInit => LimiterInv
<1> SUFFICES ASSUME LimiterInit PROVE LimiterInv
  OBVIOUS
<1>1. Limit \in Nat /\ 0 \in Instant
  BY LimiterAssumption DEF Instant
<1>2. <<>> \in Seq(Nat) /\ DOMAIN <<>> = {} /\ <<>> \in Seq(Instant)
  OBVIOUS
<1>3. \A S : Total(<<>>, S) = 0
  BY <1>2, TotalOfNone
<1>4. CountsSince(0)
  BY <1>1, <1>3 DEF LimiterInit, CountsSince, Creating
<1>5. LimiterTypeOK
  BY <1>1, <1>2 DEF LimiterInit, LimiterTypeOK
<1>6. NothingAhead /\ BurstIsBounded
  BY <1>1, <1>2, <1>3 DEF LimiterInit, NothingAhead, BurstIsBounded
<1> QED  BY <1>4, <1>5, <1>6 DEF LimiterInv

LEMMA IncrementLimiterInv ==
  ASSUME LimiterInv, NEW h \in Caller, Increment(h)
  PROVE  LimiterInv'
<1>0. LimiterTypeOK /\ NothingAhead /\ BurstIsBounded
  BY DEF LimiterInv
<1>1. PICK c \in Nat : CountsSince(c)
  BY DEF LimiterInv
<1>2. /\ clock' = clock /\ expiry' = expiry /\ creating' = creating
      /\ count > 0 /\ count' = count + 1 /\ hits' = Append(hits, clock) /\ Decide(count + 1)
  BY DEF Increment
<1>3. /\ admitted \in Seq(Nat) /\ clock \in Nat /\ Limit \in Nat /\ count \in Nat
      /\ Total(admitted, Since(c)) \in Nat
  BY <1>0, HistoriesTyped, TotalType DEF LimiterTypeOK
<1>4. /\ c <= clock /\ Total(admitted, Before(c)) <= Limit /\ Total(admitted, Since(c)) <= Limit
      /\ Total(admitted, Since(c)) <= count /\ count <= Total(hits, Since(c))
  BY <1>1 DEF CountsSince
<1>5. count + 1 \in Nat /\ (count + 1 > Limit \/ Total(admitted, Since(c)) < Limit)
  BY <1>3, <1>4
<1>6. /\ admitted' \in Seq(Instant) /\ \A i \in DOMAIN admitted' : admitted'[i] <= clock
      /\ refused' \subseteq Instant
      /\ Total(admitted', Before(c)) <= Limit
      /\ Total(admitted', Since(c)) <= Limit
      /\ Total(admitted', Since(c)) <= Total(admitted, Since(c)) + 1
      /\ BurstIsBounded'
  BY <1>0, <1>2, <1>4, <1>5, DecideEffect
<1>7. /\ hits' \in Seq(Instant) /\ \A i \in DOMAIN hits' : hits'[i] <= clock
      /\ Total(hits', Since(c)) = Total(hits, Since(c)) + 1
      /\ Total(hits, Since(c)) \in Nat
  BY <1>0, <1>2, <1>4, CountEffect
<1>8. Total(admitted', Since(c)) \in Nat
  BY <1>0, <1>6, HistoriesTyped, TotalType, SeqOfInstants
<1>9. LimiterTypeOK'
  BY <1>0, <1>2, <1>3, <1>6, <1>7 DEF LimiterTypeOK
<1>10. NothingAhead'
  BY <1>2, <1>6, <1>7 DEF NothingAhead
<1>11. ASSUME NEW g \in Caller, creating[g] # Never
       PROVE  /\ Total(admitted', Since(c)) < count'
              /\ Limit > 0 => Total(admitted', Since(c)) < Limit
  <2>1. /\ Total(admitted, Since(c)) < count
        /\ Limit > 0 => Total(admitted, Since(c)) < Limit
    BY <1>1, <1>11 DEF CountsSince
  <2>2. count + 1 <= Limit => Total(admitted, Since(c)) + 1 < Limit
    BY <1>2, <1>3, <2>1
  <2>3. count + 1 > Limit => admitted' = admitted
    BY <1>2 DEF Decide
  <2> QED  BY <1>2, <1>3, <1>6, <1>8, <2>1, <2>2, <2>3
<1>12. CountsSince(c)'
  BY <1>1, <1>2, <1>3, <1>4, <1>6, <1>7, <1>8, <1>11 DEF CountsSince, Creating
<1> QED  BY <1>6, <1>9, <1>10, <1>12 DEF LimiterInv

LEMMA CreateLimiterInv ==
  ASSUME LimiterInv, NEW h \in Caller, Create(h)
  PROVE  LimiterInv'
<1>0. LimiterTypeOK /\ NothingAhead /\ BurstIsBounded
  BY DEF LimiterInv
<1>1. PICK c \in Nat : CountsSince(c)
  BY DEF LimiterInv
<1>2. /\ clock' = clock /\ expiry' = expiry /\ creating' = [creating EXCEPT ![h] = clock]
      /\ count = 0 /\ count' = 1 /\ hits' = Append(hits, clock)
      /\ admitted' = admitted /\ refused' = refused
  BY DEF Create
<1>3. /\ admitted \in Seq(Nat) /\ clock \in Nat /\ Limit \in Nat /\ MaxGap \in Nat
      /\ Total(admitted, Since(c)) \in Nat
      /\ creating \in [Caller -> Instant \cup {Never}]
  BY <1>0, HistoriesTyped, TotalType DEF LimiterTypeOK
<1>4. /\ c = clock /\ Total(admitted, Before(c)) <= Limit /\ Total(admitted, Since(c)) = 0
      /\ expiry = Never /\ \A g \in Caller : creating[g] = Never
  BY <1>1, <1>2, <1>3 DEF CountsSince, Creating
<1>5. /\ hits' \in Seq(Instant) /\ \A i \in DOMAIN hits' : hits'[i] <= clock
      /\ Total(hits', Since(c)) = Total(hits, Since(c)) + 1
      /\ Total(hits, Since(c)) \in Nat
  BY <1>0, <1>2, <1>3, <1>4, CountEffect
<1>6. /\ creating' \in [Caller -> Instant \cup {Never}]
      /\ \A g \in Caller : creating'[g] # Never => g = h /\ creating'[g] = c
  BY <1>0, <1>2, <1>3, <1>4 DEF LimiterTypeOK
<1>7. LimiterTypeOK'
  BY <1>0, <1>2, <1>4, <1>5, <1>6 DEF LimiterTypeOK
<1>8. NothingAhead' /\ BurstIsBounded'
  BY <1>0, <1>2, <1>5 DEF NothingAhead, BurstIsBounded
<1>9. CountsSince(c)'
  BY <1>2, <1>3, <1>4, <1>5, <1>6 DEF CountsSince, Creating
<1> QED  BY <1>7, <1>8, <1>9 DEF LimiterInv

LEMMA ExpireLimiterInv ==
  ASSUME LimiterInv, NEW h \in Caller, Expire(h)
  PROVE  LimiterInv'
<1>0. LimiterTypeOK /\ NothingAhead /\ BurstIsBounded
  BY DEF LimiterInv
<1>1. PICK c \in Nat : CountsSince(c)
  BY DEF LimiterInv
<1>2. /\ clock' = clock /\ expiry' = clock + Window /\ creating' = [creating EXCEPT ![h] = Never]
      /\ creating[h] # Never /\ count' = count /\ hits' = hits /\ Decide(1)
  BY DEF Expire
<1>3. /\ admitted \in Seq(Nat) /\ clock \in Nat /\ Limit \in Nat /\ MaxGap \in Nat
      /\ Window \in Nat /\ Window > 0 /\ Never \notin Nat /\ count \in Nat
      /\ Total(admitted, Since(c)) \in Nat
      /\ creating \in [Caller -> Instant \cup {Never}]
  BY <1>0, HistoriesTyped, TotalType, LimiterAssumption DEF LimiterTypeOK
<1>4. /\ c <= clock /\ clock <= c + MaxGap
      /\ Total(admitted, Before(c)) <= Limit /\ Total(admitted, Since(c)) <= Limit
      /\ Total(admitted, Since(c)) < count /\ count <= Total(hits, Since(c))
      /\ Limit > 0 => Total(admitted, Since(c)) < Limit
      /\ \A g \in Caller : creating[g] # Never => g = h
  BY <1>1, <1>2 DEF CountsSince
<1>5. 1 > Limit \/ Total(admitted, Since(c)) < Limit
  BY <1>3, <1>4
<1>6. /\ admitted' \in Seq(Instant) /\ \A i \in DOMAIN admitted' : admitted'[i] <= clock
      /\ refused' \subseteq Instant
      /\ Total(admitted', Before(c)) <= Limit
      /\ Total(admitted', Since(c)) <= Limit
      /\ Total(admitted', Since(c)) <= Total(admitted, Since(c)) + 1
      /\ BurstIsBounded'
  BY <1>0, <1>2, <1>4, <1>5, DecideEffect
<1>7. Total(admitted', Since(c)) \in Nat
  BY <1>6, TotalType, SeqOfInstants
<1>8. /\ creating' \in [Caller -> Instant \cup {Never}]
      /\ \A g \in Caller : creating'[g] = Never
  BY <1>2, <1>3, <1>4
<1>9. /\ expiry' \in Nat /\ expiry' # Never /\ clock < expiry' /\ count > 0
      /\ c + Window <= expiry' /\ expiry' <= c + MaxGap + Window
  BY <1>2, <1>3, <1>4
<1>10. LimiterTypeOK'
  BY <1>0, <1>2, <1>6, <1>8, <1>9 DEF LimiterTypeOK
<1>11. NothingAhead'
  BY <1>0, <1>2, <1>6 DEF NothingAhead
<1>12. CountsSince(c)'
  BY <1>2, <1>3, <1>4, <1>6, <1>7, <1>8, <1>9 DEF CountsSince, Creating
<1> QED  BY <1>6, <1>10, <1>11, <1>12 DEF LimiterInv

LEMMA HangUpLimiterInv ==
  ASSUME LimiterInv, NEW h \in Caller, HangUp(h)
  PROVE  LimiterInv'
<1>0. LimiterTypeOK /\ NothingAhead /\ BurstIsBounded
  BY DEF LimiterInv
<1>1. PICK c \in Nat : CountsSince(c)
  BY DEF LimiterInv
<1>2. UNCHANGED <<clock, count, expiry, hits, admitted, refused>>
  BY DEF HangUp
<1>3. /\ creating' \in [Caller -> Instant \cup {Never}]
      /\ \A g \in Caller : creating'[g] # Never => creating'[g] = creating[g]
  BY <1>0 DEF HangUp, LimiterTypeOK
<1>4. LimiterTypeOK' /\ NothingAhead' /\ BurstIsBounded'
  BY <1>0, <1>2, <1>3 DEF LimiterTypeOK, NothingAhead, BurstIsBounded
<1>5. CountsSince(c)'
  <2>1. Creating' => Creating
    BY <1>3 DEF Creating
  <2> QED  BY <1>1, <1>2, <1>3, <2>1 DEF CountsSince
<1> QED  BY <1>4, <1>5 DEF LimiterInv

LEMMA ElapseLimiterInv ==
  ASSUME LimiterInv, Elapse
  PROVE  LimiterInv'
<1>0. LimiterTypeOK /\ NothingAhead /\ BurstIsBounded
  BY DEF LimiterInv
<1>1. PICK c \in Nat : CountsSince(c)
  BY DEF LimiterInv
<1>2. /\ clock < MaxClock /\ clock' = clock + 1
      /\ creating' = creating /\ hits' = hits /\ admitted' = admitted /\ refused' = refused
      /\ \A h \in Caller : creating[h] # Never => clock < creating[h] + MaxGap
      /\ \/ expiry = clock + 1 /\ count' = 0 /\ expiry' = Never
         \/ expiry # clock + 1 /\ count' = count /\ expiry' = expiry
  BY DEF Elapse
<1>3. /\ admitted \in Seq(Nat) /\ hits \in Seq(Nat) /\ clock \in Nat /\ Limit \in Nat /\ MaxGap \in Nat
      /\ Window \in Nat /\ Window > 0 /\ Never \notin Nat /\ count \in Nat /\ MaxClock \in Nat
      /\ expiry \in Nat \cup {Never} /\ (expiry # Never => clock < expiry /\ count > 0)
  BY <1>0, HistoriesTyped, LimiterAssumption DEF LimiterTypeOK
<1>4. /\ c <= clock
      /\ Total(admitted, Before(c)) <= Limit /\ Total(admitted, Since(c)) <= Limit
      /\ Total(admitted, Since(c)) <= count /\ count <= Total(hits, Since(c))
      /\ count = 0 => c = clock /\ expiry = Never /\ ~Creating
      /\ expiry # Never => c + Window <= expiry /\ ~Creating
  BY <1>1 DEF CountsSince
<1>5. LimiterTypeOK'
  <2>1. clock' \in Instant
    BY <1>2, <1>3 DEF Instant
  <2>2. count' \in Nat /\ expiry' \in Nat \cup {Never} /\ (expiry' # Never => clock' < expiry' /\ count' > 0)
    BY <1>2, <1>3
  <2> QED  BY <1>0, <1>2, <2>1, <2>2 DEF LimiterTypeOK
<1>6. NothingAhead'
  <2>1. /\ \A i \in DOMAIN hits : hits[i] \in Nat /\ hits[i] <= clock
        /\ \A i \in DOMAIN admitted : admitted[i] \in Nat /\ admitted[i] <= clock
    BY <1>0, <1>3 DEF NothingAhead
  <2> QED  BY <1>2, <1>3, <2>1 DEF NothingAhead
<1>7. BurstIsBounded'
  BY <1>0, <1>2 DEF BurstIsBounded
<1>8. Total(admitted, Before(c)) \in Nat /\ Total(admitted, Since(c)) \in Nat
      /\ Total(hits, Since(clock + 1)) \in Nat
  BY <1>3, TotalType
<1>9. \E d \in Nat : CountsSince(d)'
  <2>0. PICK d \in Nat : d = clock + 1
    BY <1>3
  <2>1. ASSUME ~Creating, count' = 0, expiry' = Never, Total(admitted, Before(d)) <= Limit
        PROVE  CountsSince(d)'
    <3>1. \A i \in DOMAIN admitted : admitted[i] \notin Since(d)
      BY <1>0, <1>3, <2>0 DEF NothingAhead, Since
    <3>2. Total(admitted, Since(d)) = 0 /\ Total(hits, Since(d)) \in Nat
      BY <1>3, <3>1, TotalOfNone, TotalType
    <3>3. \A h \in Caller : creating'[h] = Never
      BY <1>2, <2>1 DEF Creating
    <3> QED  BY <1>2, <1>3, <2>0, <2>1, <3>2, <3>3 DEF CountsSince, Creating
  <2>2. CASE expiry = clock + 1
    <3>1. c + Window <= d /\ ~Creating
      BY <1>3, <1>4, <2>0, <2>2
    <3>2. \A i \in DOMAIN admitted : admitted[i] \in Before(d) => admitted[i] \in Since(c)
      BY <1>3, <3>1 DEF Before, Since
    <3>3. Total(admitted, Before(d)) <= Limit
      <4>1. Total(admitted, Before(d)) \in Nat /\ Total(admitted, Before(d)) <= Total(admitted, Since(c))
        BY <1>3, <3>2, TotalMonotone, TotalType
      <4> QED  BY <1>3, <1>4, <1>8, <4>1
    <3>4. CountsSince(d)'
      BY <1>2, <2>1, <2>2, <3>1, <3>3
    <3> QED  BY <3>4
  <2>3. CASE expiry # clock + 1 /\ count = 0
    <3>1. \A i \in DOMAIN admitted : admitted[i] \in Before(d) =>
                                        admitted[i] \in Before(c) \/ admitted[i] \in Since(c)
      BY <1>3, <1>4, <2>0, <2>3 DEF Before, Since
    <3>2. Total(admitted, Before(d)) <= Limit
      <4>1. /\ Total(admitted, Before(d)) \in Nat
            /\ Total(admitted, Before(d)) <= Total(admitted, Before(c)) + Total(admitted, Since(c))
        BY <1>3, <3>1, TotalSplit, TotalType
      <4> QED  BY <1>3, <1>4, <1>8, <2>3, <4>1
    <3>3. CountsSince(d)'
      BY <1>2, <1>4, <2>1, <2>3, <3>2
    <3> QED  BY <3>3
  <2>4. CASE expiry # clock + 1 /\ count # 0
    <3>1. \A h \in Caller : creating[h] # Never => creating[h] = c
      BY <1>1 DEF CountsSince
    <3>2. \A h \in Caller : creating'[h] # Never => clock' <= c + MaxGap
      BY <1>2, <1>3, <3>1
    <3>3. Creating' => Creating
      BY <1>2 DEF Creating
    <3>4. CountsSince(c)'
      BY <1>1, <1>2, <1>3, <2>4, <3>2, <3>3 DEF CountsSince
    <3> QED  BY <3>4
  <2> QED  BY <2>2, <2>3, <2>4
<1> QED  BY <1>5, <1>6, <1>7, <1>9 DEF LimiterInv

LEMMA NextLimiterInv == LimiterInv /\ [LimiterNextAbandoning]_limiterVars => LimiterInv'
<1> SUFFICES ASSUME LimiterInv, [LimiterNextAbandoning]_limiterVars PROVE LimiterInv'
  OBVIOUS
<1>1. CASE UNCHANGED limiterVars
  <2>1. PICK c \in Nat : CountsSince(c)
    BY DEF LimiterInv
  <2>2. CountsSince(c)'
    BY <1>1, <2>1 DEF limiterVars, CountsSince, Creating
  <2>3. LimiterTypeOK' /\ NothingAhead' /\ BurstIsBounded'
    BY <1>1 DEF limiterVars, LimiterInv, LimiterTypeOK, NothingAhead, BurstIsBounded
  <2> QED  BY <2>2, <2>3 DEF LimiterInv
<1> QED
  BY <1>1, IncrementLimiterInv, CreateLimiterInv, ExpireLimiterInv, HangUpLimiterInv, ElapseLimiterInv
  DEF LimiterNextAbandoning, LimiterNext, Deciding

LEMMA AlwaysLimiterInv == LimiterSpecAbandoning => []LimiterInv
BY InitLimiterInv, NextLimiterInv, PTL DEF LimiterSpecAbandoning

(* Every behaviour in which the handlers finish is one in which they may   *)
(* not.                                                                    *)
LEMMA FinishingMayAbandon == LimiterSpec => LimiterSpecAbandoning
<1>1. [LimiterNext]_limiterVars => [LimiterNextAbandoning]_limiterVars
  BY DEF LimiterNextAbandoning
<1> QED  BY <1>1, PTL DEF LimiterSpec, LimiterSpecAbandoning

(* The counter, its time to live and the handlers between the two round    *)
(* trips have their types, whether or not handlers end between them.       *)
THEOREM LimiterTyped == LimiterSpec \/ LimiterSpecAbandoning => []LimiterTypeOK
<1>1. LimiterInv => LimiterTypeOK
  BY DEF LimiterInv
<1> QED  BY <1>1, AlwaysLimiterInv, FinishingMayAbandon, PTL

(* In any window at most twice the limit is admitted, for every limit,     *)
(* window and number of handlers, and also when handlers end between INCR  *)
(* and EXPIRE.                                                             *)
THEOREM BurstsAreBounded == LimiterSpec \/ LimiterSpecAbandoning => []BurstIsBounded
<1>1. LimiterInv => BurstIsBounded
  BY DEF LimiterInv
<1> QED  BY <1>1, AlwaysLimiterInv, FinishingMayAbandon, PTL

(* The window that a refusal is judged by.                                 *)
Recent(t) == {u \in Instant : t - (Window + MaxGap) < u /\ u <= t}

(* A refusal was over the limit, and later requests do not change that.    *)
LEMMA NextRefused ==
  ASSUME LimiterInv, TimeToLiveComes, RefusedOnlyOverTheLimit, [LimiterNext]_limiterVars
  PROVE  RefusedOnlyOverTheLimit'
<1>0. LimiterTypeOK /\ NothingAhead
  BY DEF LimiterInv
<1>1. PICK c \in Nat : CountsSince(c)
  BY DEF LimiterInv
<1>2. /\ hits \in Seq(Nat) /\ hits \in Seq(Instant) /\ clock \in Nat /\ clock \in Instant
      /\ Limit \in Nat /\ MaxGap \in Nat
      /\ Window \in Nat /\ Window > 0 /\ Never \notin Nat /\ count \in Nat
      /\ expiry \in Nat \cup {Never} /\ (expiry # Never => clock < expiry)
  BY <1>0, HistoriesTyped, LimiterAssumption DEF LimiterTypeOK
<1>3. hits' = hits \/ hits' = Append(hits, clock)
  BY DEF LimiterNext, Deciding, Increment, Create, Expire, Elapse, limiterVars
<1>4. \A S : Total(hits, S) \in Nat /\ Total(hits', S) \in Nat /\ Total(hits, S) <= Total(hits', S)
  <2>1. ASSUME NEW S
        PROVE  Total(hits, S) \in Nat /\ Total(hits', S) \in Nat /\ Total(hits, S) <= Total(hits', S)
    <3>1. Total(hits, S) \in Nat
      BY <1>2, TotalType
    <3>2. Total(Append(hits, clock), S) = Total(hits, S) + IF clock \in S THEN 1 ELSE 0
      BY <1>2, TotalAppend
    <3>3. Total(Append(hits, clock), S) \in Nat /\ Total(hits, S) <= Total(Append(hits, clock), S)
      BY <3>1, <3>2
    <3>4. CASE hits' = hits
      BY <3>1, <3>4
    <3>5. CASE hits' = Append(hits, clock)
      BY <3>1, <3>3, <3>5
    <3> QED  BY <1>3, <3>4, <3>5
  <2> QED  BY <2>1
<1>5. \A t \in refused : Total(hits', Recent(t)) > Limit
  <2>1. \A t \in refused : Total(hits, Recent(t)) > Limit
    BY DEF RefusedOnlyOverTheLimit, Recent
  <2> QED  BY <1>2, <1>4, <2>1
<1>6. (clock < c + Window + MaxGap /\ c <= clock) \/ count = 0
  <2>1. CASE expiry # Never
    BY <1>1, <1>2, <2>1 DEF CountsSince
  <2>2. CASE expiry = Never
    BY <1>1, <1>2, <2>2 DEF CountsSince, TimeToLiveComes, Creating
  <2> QED  BY <2>1, <2>2
<1>7. ASSUME NEW h \in Caller, NEW n \in Nat, Decide(n), n <= Total(hits', Since(c)),
             count # 0, refused' # refused
      PROVE  refused' = refused \cup {clock} /\ Total(hits', Recent(clock)) > Limit
  <2>1. n > Limit /\ refused' = refused \cup {clock}
    BY <1>7 DEF Decide
  <2>2. hits' \in Seq(Nat) /\ hits' \in Seq(Instant) /\ \A i \in DOMAIN hits' : hits'[i] <= clock
    <3>1. Append(hits, clock) \in Seq(Instant) /\ Append(hits, clock) \in Seq(Nat)
      BY <1>2, SeqOfInstants
    <3>2. \A i \in DOMAIN Append(hits, clock) : Append(hits, clock)[i] <= clock
      BY <1>0, <1>2 DEF NothingAhead
    <3> QED  BY <1>0, <1>2, <1>3, <3>1, <3>2 DEF NothingAhead
  <2>3. \A i \in DOMAIN hits' : hits'[i] \in Since(c) => hits'[i] \in Recent(clock)
    BY <1>2, <1>6, <1>7, <2>2 DEF Since, Recent
  <2>4. Total(hits', Since(c)) <= Total(hits', Recent(clock))
    BY <2>2, <2>3, TotalMonotone
  <2> QED  BY <1>2, <1>4, <1>7, <2>1, <2>4
<1>8. ASSUME NEW h \in Caller, Increment(h)
      PROVE  \A t \in refused' : Total(hits', Recent(t)) > Limit
  <2>1. /\ count # 0 /\ hits' = Append(hits, clock) /\ Decide(count + 1)
        /\ c <= clock /\ count <= Total(hits, Since(c)) /\ count + 1 \in Nat
    BY <1>1, <1>2, <1>8 DEF Increment, CountsSince
  <2>2. Total(hits', Since(c)) = Total(hits, Since(c)) + 1 /\ Total(hits, Since(c)) \in Nat
    BY <1>0, <2>1, CountEffect
  <2>3. count + 1 <= Total(hits', Since(c))
    BY <1>2, <2>1, <2>2
  <2> QED  BY <1>5, <1>7, <2>1, <2>3
<1>9. ASSUME NEW h \in Caller, Expire(h)
      PROVE  \A t \in refused' : Total(hits', Recent(t)) > Limit
  <2>1. count # 0 /\ hits' = hits /\ Decide(1) /\ count <= Total(hits, Since(c))
    BY <1>1, <1>9 DEF Expire, CountsSince, Creating
  <2>2. 1 <= Total(hits', Since(c))
    BY <1>2, <1>4, <2>1
  <2> QED  BY <1>5, <1>7, <2>1, <2>2
<1>10. ASSUME refused' = refused PROVE \A t \in refused' : Total(hits', Recent(t)) > Limit
  BY <1>5, <1>10
<1>11. \A t \in refused' : Total(hits', Recent(t)) > Limit
  BY <1>8, <1>9, <1>10 DEF LimiterNext, Deciding, Create, Elapse, limiterVars
<1> QED  BY <1>11 DEF RefusedOnlyOverTheLimit, Recent

LEMMA NextTimeToLiveComes ==
  ASSUME LimiterInv, TimeToLiveComes, [LimiterNext]_limiterVars
  PROVE  TimeToLiveComes'
<1>0. /\ count \in Nat /\ clock \in Nat /\ Window \in Nat /\ Never \notin Nat
      /\ DOMAIN creating = Caller
  BY HistoriesTyped, LimiterAssumption DEF LimiterInv, LimiterTypeOK
<1>1. ASSUME NEW h \in Caller, Increment(h) PROVE TimeToLiveComes'
  BY <1>0, <1>1 DEF Increment, TimeToLiveComes, Creating
<1>2. ASSUME NEW h \in Caller, Create(h) PROVE TimeToLiveComes'
  <2>1. creating'[h] # Never
    BY <1>0, <1>2 DEF Create
  <2> QED  BY <2>1 DEF TimeToLiveComes, Creating
<1>3. ASSUME NEW h \in Caller, Expire(h) PROVE TimeToLiveComes'
  <2>1. expiry' # Never
    BY <1>0, <1>3 DEF Expire
  <2> QED  BY <2>1 DEF TimeToLiveComes
<1>4. CASE Elapse
  BY <1>4 DEF Elapse, TimeToLiveComes, Creating
<1>5. CASE UNCHANGED limiterVars
  BY <1>5 DEF limiterVars, TimeToLiveComes, Creating
<1> QED  BY <1>1, <1>2, <1>3, <1>4, <1>5 DEF LimiterNext, Deciding

(* When every handler that created the counter sends its EXPIRE within     *)
(* MaxGap, a request is refused only if more than Limit requests came in   *)
(* the window before it, lengthened by MaxGap.                             *)
THEOREM RefusalsAreOverTheLimit == LimiterSpec => []RefusedOnlyOverTheLimit
<1>1. LimiterInit => TimeToLiveComes /\ RefusedOnlyOverTheLimit
  BY DEF LimiterInit, TimeToLiveComes, RefusedOnlyOverTheLimit
<1>2. LimiterSpec => []LimiterInv
  BY AlwaysLimiterInv, FinishingMayAbandon, PTL
<1> QED  BY <1>1, <1>2, NextTimeToLiveComes, NextRefused, PTL DEF LimiterSpec
=============================================================================
