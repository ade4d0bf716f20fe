------------------------- MODULE FeedPosting_proofs -------------------------
(***************************************************************************)
(* The feed with its images, for any number of mailboxes, posts, replies   *)
(* and uploads: replies are listed to both ends, what a reader is offered  *)
(* is accepted, and a listed image can be fetched.                         *)
(***************************************************************************)
EXTENDS FeedPosting, TLAPS

PostRow ==
  [author : Mailbox, to : SUBSET Mailbox, policy : Policy, payload : Payload, expires : Nat]
ReplyRow == [post : Post, author : Mailbox, to : Mailbox, expires : Nat]
GrantRow == [object : Upload, owner : Mailbox, expires : Nat, redeemed : BOOLEAN]

FeedRequest ==
  {Idle}
    \cup [at : {"post"}, post : Post, to : SUBSET Mailbox, policy : Policy, payload : Payload]
    \cup [at : {"insert"}, post : Post, row : PostRow]
    \cup [at : {"target"}, reply : Reply, post : Post, author : Mailbox, until : Nat]
    \cup [at : {"reply"}, reply : Reply, row : ReplyRow]

MediaCall ==
  {Hangup}
    \cup [at : {"intent"}, upload : Upload, expires : Nat]
    \cup [at : {"manifest"}, upload : Upload]
    \cup [at : {"grant"}, upload : Upload, grant : Grant, expires : Nat]

Draft ==
  [at : {"intent", "put", "manifest", "grant", "post"}, upload : Upload, until : Nat,
   grant : Grant \cup {None}]

DirectoryTyped ==
  /\ now \in Nat /\ contacts \subseteq Mailbox \X Mailbox
  /\ status \in [Mailbox -> Status \cup {"absent", "bare"}]

FeedTyped ==
  /\ posts \in [Post -> PostRow \cup {None}]
  /\ replies \in [Reply -> ReplyRow \cup {None}]
  /\ request \in [Mailbox -> FeedRequest]

MediaTyped ==
  /\ intents \in [Upload -> [owner : Mailbox, expires : Nat] \cup {None}]
  /\ blobs \subseteq Upload
  /\ objects \in [Upload -> Mailbox \cup {None}]
  /\ grants \in [Grant -> GrantRow \cup {None}]
  /\ call \in [Mailbox -> MediaCall]

PageTyped ==
  /\ draft \in [Mailbox -> Draft \cup {None}]
  /\ due \in [Grant -> Nat \cup {None}]
  /\ deleted \subseteq Mailbox

Typed == DirectoryTyped /\ FeedTyped /\ MediaTyped /\ PageTyped

-----------------------------------------------------------------------------
(* Typed is inductive, module by module.                                   *)

LEMMA TypedInit == Init => Typed
BY TimeAssumption
   DEF Init, FeedInit, MediaInit, Typed, DirectoryTyped, FeedTyped, MediaTyped, PageTyped, Status,
       FeedRequest, MediaCall

LEMMA RequestHas ==
  ASSUME FeedTyped, NEW m \in Mailbox
  PROVE  /\ request[m].at = "post" =>
              request[m] \in [at : {"post"}, post : Post, to : SUBSET Mailbox, policy : Policy,
                              payload : Payload]
         /\ request[m].at = "insert" => request[m] \in [at : {"insert"}, post : Post, row : PostRow]
         /\ request[m].at = "target" =>
              request[m] \in [at : {"target"}, reply : Reply, post : Post, author : Mailbox,
                              until : Nat]
         /\ request[m].at = "reply" => request[m] \in [at : {"reply"}, reply : Reply, row : ReplyRow]
BY DEF FeedTyped, FeedRequest, Idle

LEMMA CallHas ==
  ASSUME MediaTyped, NEW m \in Mailbox
  PROVE  /\ call[m].at = "intent" =>
              call[m] \in [at : {"intent"}, upload : Upload, expires : Nat]
         /\ call[m].at = "manifest" => call[m] \in [at : {"manifest"}, upload : Upload]
         /\ call[m].at = "grant" =>
              call[m] \in [at : {"grant"}, upload : Upload, grant : Grant, expires : Nat]
         /\ call[m] # Hangup => call[m].upload \in Upload
                                /\ call[m].at \in {"intent", "manifest", "grant"}
BY DEF MediaTyped, MediaCall, Hangup

(* A step of a directory, feed or media handler is one of these.           *)
LEMMA DirectoryTypedStep ==
  ASSUME DirectoryTyped,
         \/ Tick \/ ChangeContact \/ UNCHANGED directory
         \/ \E m \in Mailbox : ChangeAccount(m) \/ RemoveMailbox(m) \/ EnsureProfile(m)
  PROVE  DirectoryTyped'
BY DEF DirectoryTyped, Tick, ChangeContact, AddContact, DropContact, ChangeAccount, Register,
       SetStatus, RemoveMailbox, EnsureProfile, directory, Status

FeedStep(m) ==
  \/ \E p \in Post, to \in SUBSET Mailbox, policy \in Policy, payload \in Payload :
       PostCheck(m, p, to, policy, payload)
  \/ PostStamp(m, Ttl) \/ PostInsert(m)
  \/ \E p \in Post, r \in Reply : ReplyCheck(m, p, r)
  \/ (\E t \in Mailbox, ttl \in 1..Ttl : ReplyStamp(m, t, ttl)) \/ ReplyInsert(m)
  \/ FeedAbandon(m)

FeedCleanup == CleanupPosts \/ CleanupReplies

LEMMA FeedTypedStep ==
  ASSUME DirectoryTyped, FeedTyped,
         \/ FeedCleanup \/ UNCHANGED feed
         \/ \E m \in Mailbox : FeedStep(m) \/ (FeedWithout(m) /\ UNCHANGED request)
  PROVE  FeedTyped'
<1>a. Ttl \in Nat /\ now \in Nat /\ \A ttl \in 1..Ttl : now + ttl \in Nat
  BY PageAssumption DEF DirectoryTyped
<1>1. CASE FeedCleanup
  BY <1>1 DEF FeedCleanup, CleanupPosts, CleanupReplies, RepliesTo, FeedTyped
<1>2. CASE UNCHANGED feed
  BY <1>2 DEF feed, FeedTyped
<1>3. ASSUME NEW m \in Mailbox, FeedWithout(m), UNCHANGED request PROVE FeedTyped'
  <2>1. \A p \in Post : posts[p] # None => [posts[p] EXCEPT !.to = @ \ {m}] \in PostRow
    BY DEF FeedTyped, PostRow
  <2> QED  BY <1>3, <2>1 DEF FeedWithout, FeedTyped
<1>4. ASSUME NEW m \in Mailbox, FeedStep(m) PROVE FeedTyped'
  <2>1. ASSUME NEW p \in Post, NEW to \in SUBSET Mailbox, NEW policy \in Policy,
               NEW payload \in Payload, PostCheck(m, p, to, policy, payload)
        PROVE  FeedTyped'
    BY <2>1 DEF PostCheck, FeedTyped, FeedRequest
  <2>2. CASE PostStamp(m, Ttl)
    <3>1. now + Ttl \in Nat
      BY <1>a
    <3>2. [author |-> m, to |-> request[m].to, policy |-> request[m].policy,
           payload |-> request[m].payload, expires |-> now + Ttl] \in PostRow
          /\ request[m].post \in Post
      BY <2>2, <3>1, RequestHas DEF PostStamp, PostRow
    <3> QED  BY <2>2, <3>2 DEF PostStamp, FeedTyped, FeedRequest
  <2>3. CASE PostInsert(m)
    BY <2>3, RequestHas DEF PostInsert, Finish, FeedTyped, FeedRequest
  <2>4. ASSUME NEW p \in Post, NEW r \in Reply, ReplyCheck(m, p, r) PROVE FeedTyped'
    <3>1. posts[p] \in PostRow
      BY <2>4 DEF ReplyCheck, MayReply, Visible, LivePost, FeedTyped
    <3> QED  BY <2>4, <3>1 DEF ReplyCheck, FeedTyped, FeedRequest, PostRow
  <2>5. ASSUME NEW t \in Mailbox, NEW ttl \in 1..Ttl, ReplyStamp(m, t, ttl) PROVE FeedTyped'
    <3>1. ReplyExpiry(request[m], ttl) \in Nat
      BY <1>a, <2>5, RequestHas DEF ReplyStamp, ReplyExpiry
    <3>2. [post |-> request[m].post, author |-> m, to |-> t,
           expires |-> ReplyExpiry(request[m], ttl)] \in ReplyRow
          /\ request[m].reply \in Reply
      BY <2>5, <3>1, RequestHas DEF ReplyStamp, ReplyRow
    <3> QED  BY <2>5, <3>2 DEF ReplyStamp, Finish, FeedTyped, FeedRequest
  <2>6. CASE ReplyInsert(m)
    BY <2>6, RequestHas DEF ReplyInsert, Finish, FeedTyped, FeedRequest
  <2>7. CASE FeedAbandon(m)
    BY <2>7 DEF FeedAbandon, Finish, FeedTyped, FeedRequest
  <2> QED  BY <1>4, <2>1, <2>2, <2>3, <2>4, <2>5, <2>6, <2>7 DEF FeedStep
<1> QED  BY <1>1, <1>2, <1>3, <1>4

MediaStep(m) ==
  \/ \E u \in Upload : IntentBegin(m, u) \/ ManifestSelect(m, u)
                       \/ \E g \in Grant : GrantSelect(m, u, g, Ttl)
  \/ IntentInsert(m) \/ ManifestInsert(m) \/ GrantInsert(m) \/ MediaAbandon(m)

MediaByAnyone ==
  \/ \E g \in Grant : Redeem(g)
  \/ \E u \in Upload, until \in Nat : Put(u, until)
  \/ CleanupIntents \/ CleanupGrants

LEMMA MediaTypedStep ==
  ASSUME DirectoryTyped, MediaTyped,
         \/ MediaByAnyone \/ UNCHANGED media
         \/ \E m \in Mailbox : MediaStep(m) \/ MediaWithout(m)
  PROVE  MediaTyped'
<1>a. IntentTtl \in Nat /\ Ttl \in Nat /\ now + IntentTtl \in Nat /\ now + Ttl \in Nat
  BY IntentAssumption, PageAssumption DEF DirectoryTyped
<1>1. CASE MediaByAnyone
  <2>1. ASSUME NEW g \in Grant, Redeem(g) PROVE MediaTyped'
    <3>1. [grants[g] EXCEPT !.redeemed = TRUE] \in GrantRow
      BY <2>1 DEF Redeem, Granted, MediaTyped, GrantRow
    <3> QED  BY <2>1, <3>1 DEF Redeem, MediaTyped
  <2> QED
    BY <1>1, <2>1 DEF MediaByAnyone, Put, CleanupIntents, CleanupGrants, MediaTyped
<1>2. CASE UNCHANGED media
  BY <1>2 DEF media, MediaTyped
<1>3. ASSUME NEW m \in Mailbox, MediaWithout(m) PROVE MediaTyped'
  BY <1>3 DEF MediaWithout, MediaTyped
<1>4. ASSUME NEW m \in Mailbox, MediaStep(m) PROVE MediaTyped'
  <2>1. ASSUME NEW u \in Upload,
               IntentBegin(m, u) \/ ManifestSelect(m, u) \/ \E g \in Grant : GrantSelect(m, u, g, Ttl)
        PROVE  MediaTyped'
    BY <1>a, <2>1 DEF IntentBegin, ManifestSelect, GrantSelect, MediaTyped, MediaCall
  <2>2. CASE IntentInsert(m)
    BY <2>2, CallHas DEF IntentInsert, Return, MediaTyped, MediaCall
  <2>3. CASE ManifestInsert(m)
    BY <2>3 DEF ManifestInsert, Return, MediaTyped, MediaCall
  <2>4. CASE GrantInsert(m)
    <3>1. [object |-> call[m].upload, owner |-> m, expires |-> call[m].expires,
           redeemed |-> FALSE] \in GrantRow
      BY <2>4, CallHas DEF GrantInsert, GrantRow
    <3> QED  BY <2>4, <3>1 DEF GrantInsert, Return, MediaTyped, MediaCall
  <2>5. CASE MediaAbandon(m)
    BY <2>5 DEF MediaAbandon, Return, MediaTyped, MediaCall
  <2> QED  BY <1>4, <2>1, <2>2, <2>3, <2>4, <2>5 DEF MediaStep
<1> QED  BY <1>1, <1>2, <1>3, <1>4

(* What a step of the system is to the directory, the feed and the media.  *)
ActionsOf(m) ==
  \/ \E u \in Upload : AskIntent(m, u)
  \/ IntentAnswer(m) \/ PutBytes(m) \/ AskManifest(m) \/ ManifestAnswer(m)
  \/ (\E g \in Grant : AskGrant(m, g)) \/ GrantAnswer(m)
  \/ \E p \in Post, to \in SUBSET Mailbox, policy \in Policy : SubmitPost(m, p, to, policy)
  \/ StampPost(m) \/ PostAnswer(m) \/ Leave(m)
  \/ \E p \in Post, r \in Reply : SubmitReply(m, p, r)
  \/ ReplyStep(m)

LEMMA DraftHas ==
  ASSUME PageTyped, NEW m \in Mailbox, draft[m] # None
  PROVE  draft[m] \in Draft /\ \A at \in {"put", "manifest", "grant", "post"} :
                                  [draft[m] EXCEPT !.at = at] \in Draft
BY DEF PageTyped, Draft

LEMMA ActionsDecomposed ==
  ASSUME Typed, NEW m \in Mailbox, ActionsOf(m)
  PROVE  /\ UNCHANGED directory \/ EnsureProfile(m)
         /\ UNCHANGED feed \/ FeedStep(m)
         /\ UNCHANGED media \/ MediaStep(m) \/ MediaByAnyone
         /\ UNCHANGED <<deleted, changes>>
         /\ \A n \in Mailbox \ {m} : draft'[n] = draft[n]
<1> USE DEF Typed
<1>1. CASE \/ \E u \in Upload : AskIntent(m, u)
           \/ IntentAnswer(m) \/ ManifestAnswer(m) \/ GrantAnswer(m)
           \/ \E g \in Grant : AskGrant(m, g)
           \/ AskManifest(m)
  <2>1. \A u : At(m, u) => draft[m].upload \in Upload
    BY DraftHas DEF At, Draft
  <2>2. \/ \E u \in Upload : IntentBegin(m, u) \/ ManifestSelect(m, u)
                             \/ \E g \in Grant : GrantSelect(m, u, g, Ttl)
        \/ IntentInsert(m) \/ ManifestInsert(m) \/ GrantInsert(m)
    BY <1>1, <2>1 DEF AskIntent, IntentAnswer, AskManifest, ManifestAnswer, AskGrant, GrantAnswer
  <2>3. UNCHANGED <<directory, feed, deleted, changes>>
    BY <1>1 DEF AskIntent, IntentAnswer, AskManifest, ManifestAnswer, AskGrant, GrantAnswer,
       IntentBegin, IntentInsert, ManifestSelect, ManifestInsert, GrantSelect, GrantInsert, history
  <2>4. \A n \in Mailbox \ {m} : draft'[n] = draft[n]
    BY <1>1 DEF AskIntent, IntentAnswer, AskManifest, ManifestAnswer, AskGrant, GrantAnswer,
       AdvanceIf, Advance, To, page, PageTyped
  <2> QED  BY <2>2, <2>3, <2>4 DEF MediaStep
<1>2. CASE PutBytes(m)
  <2>1. draft[m].upload \in Upload /\ draft[m].until \in Nat
    BY <1>2, DraftHas DEF PutBytes, At, Draft
  <2> QED
    BY <1>2, <2>1 DEF PutBytes, Put, Advance, To, PageTyped, MediaByAnyone, history, directory, feed
<1>3. CASE \/ \E p \in Post, to \in SUBSET Mailbox, policy \in Policy : SubmitPost(m, p, to, policy)
           \/ StampPost(m) \/ PostAnswer(m)
           \/ \E p \in Post, r \in Reply : SubmitReply(m, p, r)
           \/ ReplyStep(m)
  <2>1. draft[m] # None => draft[m].grant \in Payload
    BY DraftHas, PageAssumption DEF Draft
  <2>2. FeedStep(m)
    BY <1>3, <2>1, PageAssumption
       DEF SubmitPost, StampPost, PostAnswer, SubmitReply, ReplyStep, FeedStep
  <2>3. UNCHANGED directory \/ EnsureProfile(m)
    BY <1>3 DEF SubmitPost, StampPost, PostAnswer, SubmitReply, ReplyStep, PostCheck, PostStamp,
       PostInsert, ReplyCheck, ReplyStamp, ReplyInsert
  <2>4. UNCHANGED <<media, deleted, changes>> /\ \A n \in Mailbox \ {m} : draft'[n] = draft[n]
    BY <1>3 DEF SubmitPost, StampPost, PostAnswer, SubmitReply, ReplyStep, To, page, history,
       PageTyped
  <2> QED  BY <2>2, <2>3, <2>4
<1>4. CASE Leave(m)
  BY <1>4 DEF Leave, MediaAbandon, FeedAbandon, To, PageTyped, FeedStep, MediaStep, directory,
     feed, media, history
<1> QED  BY <1>1, <1>2, <1>3, <1>4 DEF ActionsOf

LEMMA PageTypedStep ==
  ASSUME Typed, MediaTyped', NEW m \in Mailbox, ActionsOf(m)
  PROVE  PageTyped'
<1> USE DEF Typed
<1>a. now + IntentTtl \in Nat
  BY IntentAssumption DEF DirectoryTyped
<1>1. draft' \in [Mailbox -> Draft \cup {None}]
  <2>1. ASSUME NEW u \in Upload, AskIntent(m, u) PROVE draft'[m] \in Draft
    BY <1>a, <2>1 DEF AskIntent, To, Draft, PageTyped
  <2>2. ASSUME NEW g \in Grant, AskGrant(m, g) PROVE draft'[m] \in Draft
    <3>1. [draft[m] EXCEPT !.grant = g] \in Draft
      BY <2>2, DraftHas DEF AskGrant, At, Draft
    <3> QED  BY <2>2, <3>1 DEF AskGrant, To, PageTyped
  <2>3. ASSUME IntentAnswer(m) \/ PutBytes(m) \/ ManifestAnswer(m) \/ GrantAnswer(m)
        PROVE  draft'[m] \in Draft \cup {None}
    <3>1. draft[m] # None /\ \E at \in {"put", "manifest", "grant", "post"} :
            draft'[m] \in {[draft[m] EXCEPT !.at = at], None}
      BY <2>3 DEF IntentAnswer, PutBytes, ManifestAnswer, GrantAnswer, At, AdvanceIf, Advance, To,
         PageTyped
    <3> QED  BY <3>1, DraftHas
  <2>4. draft'[m] \in Draft \cup {None}
    BY <2>1, <2>2, <2>3 DEF ActionsOf, AskManifest, SubmitPost, StampPost, PostAnswer, Leave,
       SubmitReply, ReplyStep, To, page, PageTyped
  <2>5. DOMAIN draft' = Mailbox /\ draft' = [n \in Mailbox |-> draft'[n]]
    BY DEF ActionsOf, AskIntent, IntentAnswer, PutBytes, AskManifest, ManifestAnswer, AskGrant,
       GrantAnswer, SubmitPost, StampPost, PostAnswer, Leave, SubmitReply, ReplyStep, AdvanceIf,
       Advance, To, page, PageTyped
  <2> QED  BY <2>4, <2>5, ActionsDecomposed DEF PageTyped
<1>2. due' \in [Grant -> Nat \cup {None}]
  <2>1. CASE GrantAnswer(m)
    <3>1. \A g \in Grant : grants'[g] # None => grants'[g].expires \in Nat
      BY DEF MediaTyped, GrantRow
    <3> QED  BY <2>1, <3>1 DEF GrantAnswer, PageTyped
  <2>2. CASE UNCHANGED due
    BY <2>2 DEF PageTyped
  <2> QED
    BY <2>1, <2>2 DEF ActionsOf, AskIntent, IntentAnswer, PutBytes, AskManifest, ManifestAnswer,
       AskGrant, SubmitPost, StampPost, PostAnswer, Leave, SubmitReply, ReplyStep, page
<1>3. deleted' = deleted
  BY ActionsDecomposed
<1> QED  BY <1>1, <1>2, <1>3 DEF PageTyped

LEMMA NextCases ==
  ASSUME Typed, [Next]_vars
  PROVE  \/ \E m \in Mailbox : ActionsOf(m)
         \/ \E g \in Grant : FetchImage(g)
         \/ Cleanup \/ AdvanceClock
         \/ /\ ChangeContact \/ \E m \in Mailbox : ChangeAccount(m)
            /\ UNCHANGED <<feed, media, page, deleted>>
         \/ \E m \in Mailbox :
              /\ RemoveMailbox(m) /\ FeedWithout(m) /\ MediaWithout(m)
              /\ deleted' = deleted \cup {m} /\ UNCHANGED <<request, used, page>>
         \/ UNCHANGED vars
BY DEF Next, ChangeDirectory, ActionsOf

LEMMA TypedStep == Typed /\ [Next]_vars => Typed'
<1> SUFFICES ASSUME Typed, [Next]_vars PROVE Typed'
  OBVIOUS
<1>0. DirectoryTyped /\ FeedTyped /\ MediaTyped /\ PageTyped
  BY DEF Typed
<1>1. ASSUME NEW m \in Mailbox, ActionsOf(m) PROVE Typed'
  <2>1. DirectoryTyped' /\ FeedTyped' /\ MediaTyped'
    BY <1>0, <1>1, ActionsDecomposed, DirectoryTypedStep, FeedTypedStep, MediaTypedStep
  <2> QED  BY <1>1, <2>1, PageTypedStep DEF Typed
<1>2. ASSUME UNCHANGED page, deleted' \subseteq Mailbox PROVE PageTyped'
  BY <1>0, <1>2 DEF PageTyped, page
<1>3. ASSUME NEW g \in Grant, FetchImage(g) PROVE Typed'
  <2>1. Redeem(g) /\ UNCHANGED <<directory, feed, page, deleted>>
    BY <1>3 DEF FetchImage, Redeem, history
  <2> QED
    BY <1>0, <1>2, <2>1, DirectoryTypedStep, FeedTypedStep, MediaTypedStep
       DEF Typed, MediaByAnyone, PageTyped
<1>4. CASE Cleanup
  <2>1. /\ UNCHANGED <<directory, page, deleted>>
        /\ FeedCleanup \/ UNCHANGED feed
        /\ MediaByAnyone \/ UNCHANGED media
    BY <1>4 DEF Cleanup, FeedCleanup, MediaByAnyone, CleanupPosts, CleanupReplies, CleanupIntents,
       CleanupGrants, history
  <2> QED
    BY <1>0, <1>2, <2>1, DirectoryTypedStep, FeedTypedStep, MediaTypedStep DEF Typed, PageTyped
<1>5. CASE \/ AdvanceClock
           \/ /\ ChangeContact \/ \E m \in Mailbox : ChangeAccount(m)
              /\ UNCHANGED <<feed, media, page, deleted>>
           \/ UNCHANGED vars
  <2>1. /\ UNCHANGED <<feed, media, page, deleted>>
        /\ \/ Tick \/ ChangeContact \/ UNCHANGED directory
           \/ \E m \in Mailbox : ChangeAccount(m)
    BY <1>5 DEF AdvanceClock, vars, history
  <2> QED
    BY <1>0, <1>2, <2>1, DirectoryTypedStep, FeedTypedStep, MediaTypedStep DEF Typed, PageTyped
<1>6. ASSUME NEW m \in Mailbox, RemoveMailbox(m), FeedWithout(m), MediaWithout(m),
             deleted' = deleted \cup {m}, UNCHANGED <<request, used, page>>
      PROVE  Typed'
  <2>1. deleted' \subseteq Mailbox
    BY <1>0, <1>6 DEF PageTyped
  <2> QED
    BY <1>0, <1>2, <1>6, <2>1, DirectoryTypedStep, FeedTypedStep, MediaTypedStep DEF Typed
<1> QED  BY <1>1, <1>3, <1>4, <1>5, <1>6, NextCases

-----------------------------------------------------------------------------
(* The feed.                                                               *)

(* A post id drawn by a request in progress is nobody else's yet.          *)
Holds(m, p) == request[m].at \in {"post", "insert"} /\ request[m].post = p

Refers(m, p) ==
  \/ request[m].at = "target" /\ request[m].post = p
  \/ request[m].at = "reply" /\ request[m].row.post = p

Known(p) ==
  \/ posts[p] # None
  \/ \E r \in Reply : replies[r] # None /\ replies[r].post = p
  \/ \E m \in Mailbox : Refers(m, p)

PostIds ==
  /\ \A p \in Post : Known(p) => p \in used
  /\ \A m \in Mailbox, p \in Post : Holds(m, p) =>
       p \in used /\ ~Known(p) /\ \A n \in Mailbox : Holds(n, p) => n = m

\* Who sees a post, or was deleted.
Ends(p) == {posts[p].author} \cup posts[p].to \cup deleted

(* A reply ends with its post, and is between mailboxes that see it.       *)
ReplyFits(row) ==
  posts[row.post] # None =>
    row.expires <= posts[row.post].expires /\ {row.author, row.to} \subseteq Ends(row.post)

TargetFits(m) ==
  LET r == request[m] IN
  posts[r.post] # None =>
    r.until = posts[r.post].expires /\ r.author = posts[r.post].author /\ m \in Ends(r.post)

RequestFits(m) ==
  /\ request[m].at = "post" => m \notin request[m].to
  /\ request[m].at = "insert" => request[m].row.author = m /\ m \notin request[m].row.to
  /\ request[m].at = "target" => TargetFits(m)
  /\ request[m].at = "reply" =>
       ReplyFits(request[m].row) /\ request[m].row.author = m /\ request[m].row.to # m

PostRowOK(p) ==
  posts[p].to \subseteq Mailbox \ {posts[p].author}
    /\ \A m \in {posts[p].author} \cup posts[p].to : Exists(m)

ReplyRowOK(r) ==
  /\ posts[replies[r].post] # None /\ ReplyFits(replies[r])
  /\ replies[r].author # replies[r].to
  /\ Exists(replies[r].author) /\ Exists(replies[r].to)

FeedInv ==
  /\ PostIds
  /\ \A m \in Mailbox : RequestFits(m)
  /\ \A p \in Post : posts[p] # None => PostRowOK(p)
  /\ \A r \in Reply : replies[r] # None => ReplyRowOK(r)

LEMMA FeedInvInit == Init => FeedInv
BY DEF Init, FeedInit, FeedInv, PostIds, Known, Holds, Refers, RequestFits, Idle

(* A post that is left as it was, or loses a mailbox that was deleted.     *)
PostStays(p) ==
  posts'[p] # None =>
    /\ posts[p] # None
    /\ posts'[p].expires = posts[p].expires /\ posts'[p].author = posts[p].author
    /\ Ends(p) \subseteq Ends(p)'

LEMMA FitsStay ==
  ASSUME FeedTyped
  PROVE  /\ \A row \in ReplyRow : PostStays(row.post) /\ ReplyFits(row) => ReplyFits(row)'
         /\ \A m \in Mailbox :
              request[m].at = "target" /\ request'[m] = request[m]
                /\ PostStays(request[m].post) /\ TargetFits(m) => TargetFits(m)'
BY DEF PostStays, ReplyFits, TargetFits

LEMMA RequestStays ==
  ASSUME FeedTyped, FeedInv, NEW m \in Mailbox, request'[m] = request[m],
         \A p \in Post : Refers(m, p) => PostStays(p)
  PROVE  RequestFits(m)'
<1>1. CASE request[m].at = "target"
  <2>1. PostStays(request[m].post)
    BY <1>1, RequestHas DEF Refers
  <2>2. TargetFits(m)
    BY <1>1 DEF FeedInv, RequestFits
  <2> QED  BY <1>1, <2>1, <2>2, FitsStay DEF RequestFits
<1>2. CASE request[m].at = "reply"
  <2>1. request[m].row \in ReplyRow /\ request[m].row.post \in Post
    BY <1>2, RequestHas DEF ReplyRow
  <2>2. PostStays(request[m].row.post) /\ ReplyFits(request[m].row)
    BY <1>2, <2>1 DEF Refers, FeedInv, RequestFits
  <2>3. ReplyFits(request[m].row)'
    BY <2>1, <2>2, FitsStay DEF ReplyFits
  <2> QED  BY <1>2, <2>3 DEF FeedInv, RequestFits
<1>3. CASE request[m].at \notin {"target", "reply"}
  BY <1>3 DEF FeedInv, RequestFits
<1> QED  BY <1>1, <1>2, <1>3

(* Nothing of the feed is disturbed by changes of accounts.                *)
LEMMA FeedUnchanged ==
  ASSUME Typed, FeedInv, UNCHANGED <<feed, deleted>>,
         \A m \in Mailbox : Exists(m) => Exists(m)'
  PROVE  FeedInv'
<1>1. UNCHANGED <<posts, replies, request, used>> /\ FeedTyped
  BY DEF feed, Typed
<1>2. \A p \in Post : PostStays(p)
  BY <1>1 DEF PostStays, Ends
<1>3. PostIds'
  BY <1>1 DEF FeedInv, PostIds, Known, Holds, Refers
<1>4. \A m \in Mailbox : RequestFits(m)'
  BY <1>1, <1>2, RequestStays
<1>5. ASSUME NEW p \in Post, posts'[p] # None PROVE PostRowOK(p)'
  <2>1. PostRowOK(p) /\ posts[p].author \in Mailbox /\ posts[p].to \subseteq Mailbox
    BY <1>1, <1>5 DEF FeedInv, FeedTyped, PostRow
  <2> QED  BY <1>1, <2>1 DEF PostRowOK
<1>6. ASSUME NEW r \in Reply, replies'[r] # None PROVE ReplyRowOK(r)'
  <2>1. ReplyRowOK(r) /\ replies[r] \in ReplyRow
    BY <1>1, <1>6 DEF FeedInv, FeedTyped
  <2>2. ReplyFits(replies[r])'
    BY <1>1, <2>1 DEF ReplyRowOK, ReplyFits, Ends
  <2> QED  BY <1>1, <2>1, <2>2 DEF ReplyRowOK, ReplyRow
<1> QED  BY <1>3, <1>4, <1>5, <1>6 DEF FeedInv

(* Rows go: the posts that are left stay, and so do the replies whose post *)
(* is left.                                                                *)
LEMMA FeedRowsGo ==
  ASSUME Typed, FeedInv, UNCHANGED <<request, used>>,
         \A p \in Post : PostStays(p) /\ (posts'[p] # None => PostRowOK(p)'),
         \A r \in Reply : replies'[r] # None =>
           /\ replies'[r] = replies[r] /\ posts'[replies[r].post] # None
           /\ Exists(replies[r].author)' /\ Exists(replies[r].to)'
  PROVE  FeedInv'
<1>1. FeedTyped
  BY DEF Typed
<1>2. \A p \in Post : Known(p)' => Known(p)
  BY DEF Known, PostStays, Refers
<1>3. PostIds'
  BY <1>2 DEF FeedInv, PostIds, Holds
<1>4. \A m \in Mailbox : RequestFits(m)'
  BY <1>1, RequestStays
<1>5. ASSUME NEW r \in Reply, replies'[r] # None PROVE ReplyRowOK(r)'
  <2>1. replies'[r] = replies[r] /\ replies[r] \in ReplyRow /\ ReplyRowOK(r)
    BY <1>1, <1>5 DEF FeedInv, FeedTyped
  <2>2. replies[r].post \in Post /\ ReplyFits(replies[r])
    BY <2>1 DEF ReplyRow, ReplyRowOK
  <2>3. ReplyFits(replies[r])'
    BY <2>1, <2>2, FitsStay, <1>1 DEF ReplyFits
  <2> QED  BY <1>5, <2>1, <2>3 DEF ReplyRowOK
<1> QED  BY <1>3, <1>4, <1>5 DEF FeedInv

LEMMA AccountsStay ==
  ASSUME NEW m \in Mailbox, UNCHANGED directory \/ EnsureProfile(m), Typed
  PROVE  \A n \in Mailbox : Exists(n) => Exists(n)'
BY DEF EnsureProfile, Exists, directory, Typed, DirectoryTyped

(* What a step of a feed handler leaves of the invariant to show: the      *)
(* request it moves, the ids it draws and the row it may store.            *)
LEMMA FeedStepInv ==
  ASSUME Typed, FeedInv, UNCHANGED deleted, NEW m \in Mailbox, FeedStep(m),
         UNCHANGED directory \/ EnsureProfile(m)
  PROVE  FeedInv'
<1>a. FeedTyped /\ DirectoryTyped
  BY DEF Typed
<1>b. \A n \in Mailbox : Exists(n) => Exists(n)'
  BY AccountsStay
<1>c. ASSUME posts' = posts PROVE \A p \in Post : posts'[p] # None => PostRowOK(p)'
  <2>1. ASSUME NEW p \in Post, posts'[p] # None PROVE PostRowOK(p)'
    <3>1. PostRowOK(p) /\ posts[p] \in PostRow
      BY <1>a, <1>c, <2>1 DEF FeedInv, FeedTyped
    <3> QED  BY <1>b, <1>c, <3>1 DEF PostRowOK, PostRow
  <2> QED  BY <2>1
<1>d. ASSUME posts' = posts, replies' = replies
      PROVE  \A r \in Reply : replies'[r] # None => ReplyRowOK(r)'
  <2>1. ASSUME NEW r \in Reply, replies'[r] # None PROVE ReplyRowOK(r)'
    <3>1. ReplyRowOK(r) /\ replies[r] \in ReplyRow
      BY <1>a, <1>d, <2>1 DEF FeedInv, FeedTyped
    <3>2. ReplyFits(replies[r])'
      BY <1>d, <3>1 DEF ReplyRowOK, ReplyFits, Ends
    <3> QED  BY <1>b, <1>d, <3>1, <3>2 DEF ReplyRowOK, ReplyRow
  <2> QED  BY <2>1
<1>e. ASSUME posts' = posts, \A n \in Mailbox \ {m} : request'[n] = request[n],
             RequestFits(m)'
      PROVE  \A n \in Mailbox : RequestFits(n)'
  <2>1. \A p \in Post : PostStays(p)
    BY <1>e DEF PostStays, Ends
  <2> QED  BY <1>a, <1>e, <2>1, RequestStays
<1>1. ASSUME NEW p \in Post, NEW to \in SUBSET Mailbox, NEW policy \in Policy,
             NEW payload \in Payload, PostCheck(m, p, to, policy, payload)
      PROVE  FeedInv'
  <2>1. /\ UNCHANGED <<posts, replies>> /\ used' = used \cup {p} /\ p \notin used
        /\ \A n \in Mailbox \ {m} : request'[n] = request[n]
        /\ request'[m].at = "post" /\ request'[m].post = p
        /\ request'[m].to = to /\ m \notin to
    BY <1>1, <1>a DEF PostCheck, FeedTyped
  <2>2. RequestFits(m)'
    BY <2>1 DEF RequestFits
  <2>3. \A q \in Post : Known(q)' => Known(q)
    BY <2>1 DEF Known, Refers
  <2>4. PostIds'
    BY <2>1, <2>3 DEF FeedInv, PostIds, Holds
  <2> QED  BY <1>c, <1>d, <1>e, <2>1, <2>2, <2>4 DEF FeedInv
<1>2. CASE PostStamp(m, Ttl)
  <2>1. /\ UNCHANGED <<posts, replies, used>>
        /\ \A n \in Mailbox \ {m} : request'[n] = request[n]
        /\ request[m].at = "post" /\ request'[m].at = "insert"
        /\ request'[m].post = request[m].post
        /\ request'[m].row.author = m /\ request'[m].row.to = request[m].to
    BY <1>2, <1>a DEF PostStamp, FeedTyped
  <2>2. RequestFits(m)'
    BY <2>1 DEF RequestFits, FeedInv
  <2>3. \A q \in Post : Known(q)' => Known(q)
    BY <2>1 DEF Known, Refers
  <2>4. PostIds'
    BY <2>1, <2>3 DEF FeedInv, PostIds, Holds
  <2> QED  BY <1>c, <1>d, <1>e, <2>1, <2>2, <2>4 DEF FeedInv
<1>3. ASSUME UNCHANGED <<posts, replies>>, used \subseteq used',
             \A n \in Mailbox \ {m} : request'[n] = request[n], request'[m] = Idle
      PROVE  FeedInv'
  <2>1. RequestFits(m)'
    BY <1>3 DEF RequestFits, Idle
  <2>2. \A q \in Post : Known(q)' => Known(q)
    BY <1>3 DEF Known, Refers, Idle
  <2>3. PostIds'
    BY <1>3, <2>2 DEF FeedInv, PostIds, Holds, Idle
  <2> QED  BY <1>c, <1>d, <1>e, <1>3, <2>1, <2>3 DEF FeedInv
<1>4. CASE PostInsert(m)
  <2> DEFINE q == request[m].post
             row == request[m].row
  <2>1. CASE \A t \in {m} \cup row.to : Exists(t)
    <3>1. /\ posts' = [posts EXCEPT ![q] = row] /\ UNCHANGED <<replies, used>>
          /\ \A n \in Mailbox \ {m} : request'[n] = request[n]
          /\ request'[m] = Idle /\ Holds(m, q)
          /\ row.author = m /\ m \notin row.to /\ q \in Post /\ row \in PostRow /\ row # None
      BY <1>4, <1>a, <2>1, RequestHas, NoneAssumption
         DEF PostInsert, Finish, FeedTyped, Holds, FeedInv, RequestFits, PostRow
    <3>2. q \in used /\ ~Known(q) /\ \A n \in Mailbox : Holds(n, q) => n = m
      BY <3>1 DEF FeedInv, PostIds
    <3>3. posts'[q] = row /\ \A p \in Post \ {q} : posts'[p] = posts[p]
      BY <3>1, <1>a DEF FeedTyped
    <3>4. \A p \in Post : Known(p)' => Known(p) \/ p = q
      BY <3>1, <3>3 DEF Known, Refers, Idle
    <3>5. PostIds'
      <4>1. \A n \in Mailbox, p \in Post : Holds(n, p)' => Holds(n, p) /\ n # m
        BY <3>1 DEF Holds, Idle
      <4> QED  BY <3>1, <3>2, <3>4, <4>1 DEF FeedInv, PostIds
    <3>6. ASSUME NEW n \in Mailbox PROVE RequestFits(n)'
      <4>1. CASE n = m
        BY <3>1, <4>1 DEF RequestFits, Idle
      <4>2. CASE n # m
        <5>1. \A p \in Post : Refers(n, p) => PostStays(p)
          BY <3>2, <3>3 DEF Known, PostStays, Ends
        <5> QED  BY <1>a, <3>1, <4>2, <5>1, RequestStays
      <4> QED  BY <4>1, <4>2
    <3>7. ASSUME NEW p \in Post, posts'[p] # None PROVE PostRowOK(p)'
      <4>1. CASE p = q
        BY <1>b, <2>1, <3>1, <3>3, <4>1 DEF PostRowOK, PostRow
      <4>2. CASE p # q
        <5>1. PostRowOK(p) /\ posts'[p] = posts[p] /\ posts[p] \in PostRow
          BY <1>a, <3>3, <3>7, <4>2 DEF FeedInv, FeedTyped
        <5> QED  BY <1>b, <5>1 DEF PostRowOK, PostRow
      <4> QED  BY <4>1, <4>2
    <3>8. ASSUME NEW r \in Reply, replies'[r] # None PROVE ReplyRowOK(r)'
      <4>1. ReplyRowOK(r) /\ replies[r] \in ReplyRow /\ replies'[r] = replies[r]
        BY <1>a, <3>1, <3>8 DEF FeedInv, FeedTyped
      <4>2. replies[r].post # q
        BY <3>1, <3>2, <3>8 DEF Known
      <4>3. replies[r].post \in Post /\ posts'[replies[r].post] = posts[replies[r].post]
        BY <3>3, <4>1, <4>2 DEF ReplyRow
      <4>4. ReplyFits(replies[r])'
        BY <4>1, <4>3 DEF ReplyRowOK, ReplyFits, Ends
      <4> QED  BY <1>b, <4>1, <4>3, <4>4 DEF ReplyRowOK, ReplyRow
    <3> QED  BY <3>5, <3>6, <3>7, <3>8 DEF FeedInv
  <2>2. CASE ~\A t \in {m} \cup row.to : Exists(t)
    BY <1>3, <1>4, <1>a, <2>2 DEF PostInsert, Finish, FeedTyped
  <2> QED  BY <2>1, <2>2
<1>5. ASSUME NEW p \in Post, NEW r \in Reply, ReplyCheck(m, p, r) PROVE FeedInv'
  <2>1. /\ UNCHANGED <<posts, replies>> /\ used' = used \cup {r}
        /\ \A n \in Mailbox \ {m} : request'[n] = request[n]
        /\ request'[m] = [at |-> "target", reply |-> r, post |-> p,
                          author |-> posts[p].author, until |-> posts[p].expires]
        /\ Visible(m, p)
    BY <1>5, <1>a DEF ReplyCheck, FeedTyped, MayReply
  <2>2. RequestFits(m)'
    BY <2>1 DEF RequestFits, TargetFits, Ends, Visible
  <2>3. \A q \in Post : Known(q)' => Known(q)
    BY <2>1 DEF Known, Refers, Visible, LivePost
  <2>4. PostIds'
    BY <2>1, <2>3 DEF FeedInv, PostIds, Holds
  <2> QED  BY <1>c, <1>d, <1>e, <2>1, <2>2, <2>4 DEF FeedInv
<1>6. ASSUME NEW t \in Mailbox, NEW ttl \in 1..Ttl, ReplyStamp(m, t, ttl) PROVE FeedInv'
  <2> DEFINE r == request[m]
  <2>1. CASE MayAddress(m, r.post, r.author, t)
    <3>1. /\ UNCHANGED <<posts, replies, used>>
          /\ \A n \in Mailbox \ {m} : request'[n] = request[n]
          /\ r.at = "target" /\ request'[m].at = "reply"
          /\ request'[m].row = [post |-> r.post, author |-> m, to |-> t,
                                expires |-> ReplyExpiry(r, ttl)]
      BY <1>6, <1>a, <2>1 DEF ReplyStamp, FeedTyped
    <3>2. r.until \in Nat /\ now + ttl \in Nat /\ r.post \in Post
      BY <1>a, <3>1, RequestHas, PageAssumption DEF DirectoryTyped
    <3>3. ReplyExpiry(r, ttl) <= r.until
      BY <3>2 DEF ReplyExpiry
    <3>4. TargetFits(m)
      BY <3>1 DEF FeedInv, RequestFits
    <3>5. PICK row : row = request'[m].row
      OBVIOUS
    <3>6. RequestFits(m)'
      <4>1. ReplyFits(row)'
        BY <2>1, <3>1, <3>3, <3>4, <3>5 DEF ReplyFits, TargetFits, MayAddress, Ends
      <4>2. (request[m].row)' = row
        BY <3>5
      <4>3. row.author = m /\ row.to # m
        BY <2>1, <3>1, <3>5 DEF MayAddress
      <4> QED  BY <3>1, <4>1, <4>2, <4>3 DEF RequestFits, ReplyFits
    <3>7. \A q \in Post : Known(q)' => Known(q)
      BY <3>1 DEF Known, Refers
    <3>8. PostIds'
      BY <3>1, <3>7 DEF FeedInv, PostIds, Holds
    <3> QED  BY <1>c, <1>d, <1>e, <3>1, <3>6, <3>8 DEF FeedInv
  <2>2. CASE ~MayAddress(m, r.post, r.author, t)
    BY <1>3, <1>6, <1>a, <2>2 DEF ReplyStamp, Finish, FeedTyped
  <2> QED  BY <2>1, <2>2
<1>7. CASE ReplyInsert(m)
  <2> PICK row : row = request[m].row
    OBVIOUS
  <2> PICK i : i = request[m].reply
    OBVIOUS
  <2>1. CASE posts[row.post] # None /\ Exists(m) /\ Exists(row.to)
    <3>1. /\ UNCHANGED <<posts, used>> /\ UNCHANGED directory
          /\ \A n \in Mailbox \ {m} : request'[n] = request[n]
          /\ request'[m] = Idle /\ Refers(m, row.post) /\ i \in Reply /\ row \in ReplyRow
          /\ replies'[i] = row /\ \A r \in Reply \ {i} : replies'[r] = replies[r]
          /\ ReplyFits(row) /\ row.author = m /\ row.to # m
      BY <1>7, <1>a, <2>1, RequestHas
         DEF ReplyInsert, Finish, FeedTyped, Refers, FeedInv, RequestFits
    <3>2. RequestFits(m)'
      BY <3>1 DEF RequestFits, Idle
    <3>3. \A q \in Post : Known(q)' => Known(q)
      BY <3>1 DEF Known, Refers, Idle
    <3>4. PostIds'
      BY <3>1, <3>3 DEF FeedInv, PostIds, Holds, Idle
    <3>5. ASSUME NEW r \in Reply, replies'[r] # None PROVE ReplyRowOK(r)'
      <4>1. CASE r = i
        <5>1. ReplyFits(row)'
          BY <3>1 DEF ReplyFits, Ends
        <5> QED  BY <1>b, <2>1, <3>1, <4>1, <5>1 DEF ReplyRowOK, ReplyRow
      <4>2. CASE r # i
        <5>1. ReplyRowOK(r) /\ replies[r] \in ReplyRow /\ replies'[r] = replies[r]
          BY <1>a, <3>1, <3>5, <4>2 DEF FeedInv, FeedTyped
        <5>2. ReplyFits(replies[r])'
          BY <3>1, <5>1 DEF ReplyRowOK, ReplyFits, Ends
        <5> QED  BY <1>b, <3>1, <5>1, <5>2 DEF ReplyRowOK, ReplyRow
      <4> QED  BY <4>1, <4>2
    <3> QED  BY <1>c, <1>e, <3>1, <3>2, <3>4, <3>5 DEF FeedInv
  <2>2. CASE ~(posts[row.post] # None /\ Exists(m) /\ Exists(row.to))
    BY <1>3, <1>7, <1>a, <2>2 DEF ReplyInsert, Finish, FeedTyped
  <2> QED  BY <2>1, <2>2
<1>8. CASE FeedAbandon(m)
  BY <1>3, <1>8, <1>a DEF FeedAbandon, Finish, FeedTyped
<1> QED  BY <1>1, <1>2, <1>4, <1>5, <1>6, <1>7, <1>8 DEF FeedStep

LEMMA FeedInvStep == Typed /\ FeedInv /\ [Next]_vars => FeedInv'
<1> SUFFICES ASSUME Typed, FeedInv, [Next]_vars PROVE FeedInv'
  OBVIOUS
<1>a. FeedTyped /\ DirectoryTyped /\ PageTyped
  BY DEF Typed
<1>1. ASSUME NEW m \in Mailbox, ActionsOf(m) PROVE FeedInv'
  <2>1. CASE FeedStep(m)
    BY <1>1, <2>1, ActionsDecomposed, FeedStepInv
  <2>2. CASE UNCHANGED feed
    <3>1. (UNCHANGED directory \/ EnsureProfile(m)) /\ UNCHANGED deleted
      BY <1>1, ActionsDecomposed
    <3> QED  BY <2>2, <3>1, AccountsStay, FeedUnchanged
  <2> QED  BY <1>1, <2>1, <2>2, ActionsDecomposed
<1>2. CASE CleanupPosts /\ UNCHANGED deleted
  <2>1. ASSUME NEW p \in Post PROVE PostStays(p) /\ (posts'[p] # None => PostRowOK(p)')
    <3>1. posts'[p] # None => LivePost(p) /\ posts[p] # None /\ posts'[p] = posts[p]
      BY <1>2, <1>a DEF CleanupPosts, FeedTyped, LivePost
    <3>2. posts'[p] # None => PostRowOK(p)
      BY <3>1 DEF FeedInv
    <3> QED  BY <1>2, <3>1, <3>2 DEF PostStays, Ends, PostRowOK, CleanupPosts, directory, Exists
  <2>2. ASSUME NEW r \in Reply, replies'[r] # None
        PROVE  /\ replies'[r] = replies[r] /\ posts'[replies[r].post] # None
               /\ Exists(replies[r].author)' /\ Exists(replies[r].to)'
    <3>1. replies'[r] = replies[r] /\ replies[r] # None /\ LivePost(replies[r].post)
          /\ replies[r].post \in Post
      BY <1>2, <1>a, <2>2 DEF CleanupPosts, RepliesTo, FeedTyped, ReplyRow
    <3>2. posts'[replies[r].post] # None
      BY <1>2, <3>1 DEF CleanupPosts, LivePost
    <3> QED  BY <1>2, <3>1, <3>2 DEF FeedInv, ReplyRowOK, CleanupPosts, directory, Exists
  <2> QED  BY <1>2, <2>1, <2>2, FeedRowsGo DEF CleanupPosts
<1>3. CASE CleanupReplies /\ UNCHANGED deleted
  <2>1. ASSUME NEW p \in Post PROVE PostStays(p) /\ (posts'[p] # None => PostRowOK(p)')
    BY <1>3 DEF PostStays, Ends, PostRowOK, CleanupReplies, directory, Exists, FeedInv
  <2>2. ASSUME NEW r \in Reply, replies'[r] # None
        PROVE  /\ replies'[r] = replies[r] /\ posts'[replies[r].post] # None
               /\ Exists(replies[r].author)' /\ Exists(replies[r].to)'
    <3>1. replies'[r] = replies[r] /\ replies[r] # None
      BY <1>3, <2>2 DEF CleanupReplies
    <3> QED  BY <1>3, <3>1 DEF FeedInv, ReplyRowOK, CleanupReplies, directory, Exists
  <2> QED  BY <1>3, <2>1, <2>2, FeedRowsGo DEF CleanupReplies
<1>4. ASSUME NEW m \in Mailbox, RemoveMailbox(m), FeedWithout(m), deleted' = deleted \cup {m},
             UNCHANGED <<request, used>>
      PROVE  FeedInv'
  <2>a. \A n \in Mailbox \ {m} : Exists(n) => Exists(n)'
    BY <1>4, <1>a DEF RemoveMailbox, Exists, DirectoryTyped
  <2>1. ASSUME NEW p \in Post PROVE PostStays(p) /\ (posts'[p] # None => PostRowOK(p)')
    <3>1. CASE posts'[p] # None
      <4>1. /\ posts[p] # None /\ posts[p].author # m /\ posts[p] \in PostRow
            /\ posts'[p] = [posts[p] EXCEPT !.to = posts[p].to \ {m}]
        BY <1>4, <1>a, <3>1 DEF FeedWithout, FeedTyped
      <4>2. /\ posts'[p].author = posts[p].author /\ posts'[p].expires = posts[p].expires
            /\ posts'[p].to = posts[p].to \ {m}
        BY <4>1 DEF PostRow
      <4>3. PostStays(p)
        BY <1>4, <4>1, <4>2 DEF PostStays, Ends
      <4>4. PostRowOK(p) /\ posts[p].author \in Mailbox
        BY <4>1 DEF FeedInv, PostRow
      <4>5. PostRowOK(p)'
        BY <2>a, <4>1, <4>2, <4>4 DEF PostRowOK
      <4> QED  BY <4>3, <4>5
    <3> QED  BY <3>1 DEF PostStays
  <2>2. ASSUME NEW r \in Reply, replies'[r] # None
        PROVE  /\ replies'[r] = replies[r] /\ posts'[replies[r].post] # None
               /\ Exists(replies[r].author)' /\ Exists(replies[r].to)'
    <3>1. /\ replies'[r] = replies[r] /\ replies[r] # None
          /\ replies[r].author # m /\ replies[r].to # m /\ posts[replies[r].post].author # m
      BY <1>4, <2>2 DEF FeedWithout
    <3>2. ReplyRowOK(r) /\ replies[r] \in ReplyRow
      BY <1>a, <3>1 DEF FeedInv, FeedTyped
    <3>3. replies[r].post \in Post /\ posts[replies[r].post] # None
          /\ posts[replies[r].post] \in PostRow
      BY <1>a, <3>2 DEF ReplyRowOK, ReplyRow, FeedTyped
    <3>4. [posts[replies[r].post] EXCEPT !.to = @ \ {m}] \in PostRow
      BY <3>3 DEF PostRow
    <3>5. posts'[replies[r].post] # None
      BY <1>4, <3>1, <3>3, <3>4, NoneAssumption DEF FeedWithout, PostRow
    <3> QED  BY <2>a, <3>1, <3>2, <3>5 DEF ReplyRowOK, ReplyRow
  <2> QED  BY <1>4, <2>1, <2>2, FeedRowsGo
<1>5. ASSUME UNCHANGED <<feed, deleted>>,
             \/ UNCHANGED status
             \/ \E m \in Mailbox : ChangeAccount(m)
      PROVE  FeedInv'
  <2>1. \A n \in Mailbox : Exists(n) => Exists(n)'
    BY <1>5, <1>a DEF Exists, ChangeAccount, Register, SetStatus, Status, DirectoryTyped
  <2> QED  BY <1>5, <2>1, FeedUnchanged
<1>6. CASE \E g \in Grant : FetchImage(g)
  BY <1>5, <1>6 DEF FetchImage, Redeem, history, directory
<1>7. CASE Cleanup
  BY <1>2, <1>3, <1>5, <1>7 DEF Cleanup, CleanupIntents, CleanupGrants, history, directory
<1>8. CASE \/ AdvanceClock
           \/ /\ ChangeContact \/ \E m \in Mailbox : ChangeAccount(m)
              /\ UNCHANGED <<feed, media, page, deleted>>
           \/ UNCHANGED vars
  BY <1>5, <1>8 DEF AdvanceClock, Tick, ChangeContact, AddContact, DropContact, vars, history,
     directory
<1> QED  BY <1>1, <1>4, <1>6, <1>7, <1>8, NextCases

LEMMA FeedIsInvariant == Spec => [](Typed /\ FeedInv)
<1>1. Init => Typed /\ FeedInv
  BY TypedInit, FeedInvInit
<1>2. Typed /\ FeedInv /\ [Next]_vars => Typed' /\ FeedInv'
  BY TypedStep, FeedInvStep
<1> QED  BY <1>1, <1>2, PTL DEF Spec

(* RelayFeed's replies: whatever goes between the statements of a reply,   *)
(* one that is stored is listed to both of its ends while it lives.        *)
THEOREM Replies == Spec => []RepliesAreListed
<1>1. Typed /\ FeedInv => RepliesAreListed
  <2> SUFFICES ASSUME Typed, FeedInv, NEW r \in Reply, LiveReply(r),
                      NEW m \in {replies[r].author, replies[r].to}, m \notin deleted
               PROVE  Visible(m, replies[r].post)
    BY DEF RepliesAreListed
  <2>1. replies[r] \in ReplyRow /\ ReplyRowOK(r)
    BY DEF Typed, FeedTyped, FeedInv, LiveReply
  <2>2. /\ replies[r].post \in Post /\ posts[replies[r].post] # None
        /\ posts[replies[r].post] \in PostRow
        /\ replies[r].expires <= posts[replies[r].post].expires
        /\ m \in Ends(replies[r].post)
    BY <2>1 DEF Typed, FeedTyped, ReplyRowOK, ReplyFits, ReplyRow
  <2>3. now < posts[replies[r].post].expires
    BY <2>1, <2>2 DEF LiveReply, Typed, DirectoryTyped, ReplyRow, PostRow
  <2> QED  BY <2>2, <2>3 DEF Visible, LivePost, Ends
<1> QED  BY <1>1, FeedIsInvariant, PTL

(* RelayFeed's listing and its reply handler agree on who may be answered. *)
THEOREM Targets == Spec => []OfferedIsAccepted
<1>1. Typed /\ FeedInv => OfferedIsAccepted
  <2> SUFFICES ASSUME Typed, FeedInv, NEW m \in Mailbox, NEW p \in Post, Visible(m, p)
               PROVE  ReplyTargets(m, p) =
                        {t \in Mailbox : MayReply(m, p) /\ MayAddress(m, p, posts[p].author, t)}
    BY DEF OfferedIsAccepted
  <2>1. /\ posts[p] # None /\ posts[p] \in PostRow /\ PostRowOK(p)
        /\ posts[p].author \in Mailbox /\ posts[p].to \subseteq Mailbox \ {posts[p].author}
    BY DEF Visible, LivePost, Typed, FeedTyped, FeedInv, PostRow, PostRowOK
  <2>2. CASE posts[p].policy = "no_replies"
    BY <2>2 DEF ReplyTargets, MayReply
  <2>3. CASE posts[p].policy # "no_replies" /\ m = posts[p].author
    BY <2>1, <2>3 DEF ReplyTargets, MayReply, MayAddress
  <2>4. CASE posts[p].policy # "no_replies" /\ m # posts[p].author
    BY <2>1, <2>4 DEF ReplyTargets, MayReply, MayAddress
  <2> QED  BY <2>2, <2>3, <2>4
<1> QED  BY <1>1, FeedIsInvariant, PTL

-----------------------------------------------------------------------------
(* The media.                                                              *)

(* An upload is one mailbox's.                                             *)
UploadOf(m, u) ==
  \/ call[m] # Hangup /\ call[m].upload = u
  \/ draft[m] # None /\ draft[m].upload = u
  \/ intents[u] # None /\ intents[u].owner = m
  \/ objects[u] = m

MediaInv ==
  /\ \A u \in Upload, m, n \in Mailbox : UploadOf(m, u) /\ UploadOf(n, u) => m = n
  /\ \A u \in Upload :
       /\ intents[u] # None => Exists(intents[u].owner)
       /\ objects[u] # None => Exists(objects[u])
  /\ \A g \in Grant : grants[g] # None => objects[grants[g].object] = grants[g].owner

LEMMA MediaInvInit == Init => MediaInv
BY NoneAssumption DEF Init, MediaInit, MediaInv, UploadOf

(* What a mailbox's step does to whose the uploads are.                    *)
LEMMA UploadsStep ==
  ASSUME Typed, MediaInv, NEW m \in Mailbox, ActionsOf(m), NEW u \in Upload, NEW n \in Mailbox,
         UploadOf(n, u)'
  PROVE  UploadOf(n, u) \/ (n = m /\ ~Drawn(u))
<1> USE DEF Typed, MediaTyped, PageTyped
<1>1. ASSUME NEW v \in Upload, AskIntent(m, v) PROVE UploadOf(n, u) \/ (n = m /\ ~Drawn(u))
  BY <1>1 DEF AskIntent, IntentBegin, To, UploadOf
<1>2. CASE IntentAnswer(m)
  <2>1. call[m] # Hangup /\ call[m].upload \in Upload
    BY <1>2, CallHas DEF IntentAnswer, IntentInsert, Hangup
  <2>2. draft'[m] # None => draft'[m].upload = draft[m].upload /\ draft[m] # None
    BY <1>2, DraftHas DEF IntentAnswer, AdvanceIf, Advance, To, At, Draft
  <2> QED
    BY <1>2, <2>1, <2>2 DEF IntentAnswer, IntentInsert, Return, AdvanceIf, Advance, To, UploadOf, Hangup
<1>3. CASE PutBytes(m)
  <2>1. draft'[m] # None => draft'[m].upload = draft[m].upload /\ draft[m] # None
    BY <1>3, DraftHas DEF PutBytes, Advance, To, At, Draft
  <2> QED  BY <1>3, <2>1 DEF PutBytes, Put, Advance, To, UploadOf
<1>4. CASE AskManifest(m)
  BY <1>4 DEF AskManifest, ManifestSelect, UploadOf, At, page
<1>5. CASE ManifestAnswer(m)
  <2>1. call[m] # Hangup /\ call[m].upload \in Upload
    BY <1>5, CallHas DEF ManifestAnswer, ManifestInsert, Hangup
  <2>2. draft'[m] # None => draft'[m].upload = draft[m].upload /\ draft[m] # None
    BY <1>5, DraftHas DEF ManifestAnswer, AdvanceIf, Advance, To, At, Draft
  <2> QED
    BY <1>5, <2>1, <2>2
       DEF ManifestAnswer, ManifestInsert, Return, AdvanceIf, Advance, To, UploadOf, Hangup
<1>6. ASSUME NEW g \in Grant, AskGrant(m, g) PROVE UploadOf(n, u)
  <2>1. draft'[m].upload = draft[m].upload /\ draft[m] # None
    BY <1>6, DraftHas DEF AskGrant, To, At, Draft
  <2> QED  BY <1>6, <2>1 DEF AskGrant, GrantSelect, To, UploadOf
<1>7. CASE GrantAnswer(m)
  <2>2. draft'[m] # None => draft'[m].upload = draft[m].upload /\ draft[m] # None
    BY <1>7, DraftHas DEF GrantAnswer, AdvanceIf, Advance, To, At, Draft
  <2> QED
    BY <1>7, <2>2 DEF GrantAnswer, GrantInsert, Return, AdvanceIf, Advance, To, UploadOf
<1>8. CASE \/ \E p \in Post, to \in SUBSET Mailbox, policy \in Policy : SubmitPost(m, p, to, policy)
           \/ StampPost(m) \/ PostAnswer(m) \/ Leave(m)
           \/ \E p \in Post, r \in Reply : SubmitReply(m, p, r)
           \/ ReplyStep(m)
  BY <1>8 DEF SubmitPost, StampPost, PostAnswer, Leave, SubmitReply, ReplyStep, To, media, page,
     MediaAbandon, Return, UploadOf
<1> QED  BY <1>1, <1>2, <1>3, <1>4, <1>5, <1>6, <1>7, <1>8 DEF ActionsOf

Owned ==
  /\ \A u \in Upload :
       /\ intents[u] # None => Exists(intents[u].owner)
       /\ objects[u] # None => Exists(objects[u])
  /\ \A g \in Grant : grants[g] # None => objects[grants[g].object] = grants[g].owner

(* What the rows say of each other, after a step of the media's handlers.  *)
LEMMA OwnedStep ==
  ASSUME Typed, MediaInv, \A n \in Mailbox : Exists(n) => Exists(n)',
         UNCHANGED media \/ MediaByAnyone \/ \E m \in Mailbox : MediaStep(m)
  PROVE  Owned'
<1>a. MediaTyped /\ DirectoryTyped /\ Owned
  BY DEF Typed, MediaInv, Owned
<1>c. ASSUME \A u \in Upload : \/ intents'[u] = None \/ intents'[u] = intents[u]
                               \/ Exists(intents'[u].owner) /\ intents'[u].owner \in Mailbox,
             \A u \in Upload : \/ objects'[u] = objects[u]
                               \/ objects[u] = None /\ objects'[u] \in Mailbox /\ Exists(objects'[u]),
             \A g \in Grant : \/ grants'[g] = None
                              \/ /\ grants'[g].object \in Upload /\ grants'[g].owner \in Mailbox
                                 /\ objects[grants'[g].object] = grants'[g].owner
      PROVE  Owned'
  <2>1. ASSUME NEW u \in Upload, intents'[u] # None PROVE Exists(intents[u].owner)'
    BY <1>a, <1>c, <2>1 DEF Owned, MediaTyped, Exists
  <2>2. ASSUME NEW u \in Upload, objects'[u] # None PROVE Exists(objects[u])'
    BY <1>a, <1>c, <2>2 DEF Owned, MediaTyped, Exists
  <2>3. ASSUME NEW g \in Grant, grants'[g] # None
        PROVE  objects'[grants'[g].object] = grants'[g].owner
    BY <1>c, <2>3, NoneAssumption
  <2> QED  BY <2>1, <2>2, <2>3 DEF Owned
<1>d. \A g \in Grant : grants[g] # None =>
        /\ grants[g].object \in Upload /\ grants[g].owner \in Mailbox
        /\ objects[grants[g].object] = grants[g].owner
  BY <1>a DEF Owned, MediaTyped, GrantRow
<1>1. ASSUME NEW m \in Mailbox, IntentInsert(m) PROVE Owned'
  <2>1. call[m].upload \in Upload
    BY <1>1, <1>a, CallHas DEF IntentInsert
  <2> QED  BY <1>1, <1>a, <1>c, <1>d, <2>1 DEF IntentInsert, MediaTyped
<1>2. ASSUME NEW m \in Mailbox, ManifestInsert(m) PROVE Owned'
  <2>1. call[m].upload \in Upload
    BY <1>2, <1>a, CallHas DEF ManifestInsert
  <2> QED  BY <1>2, <1>a, <1>c, <1>d, <2>1 DEF ManifestInsert, MediaTyped
<1>3. ASSUME NEW m \in Mailbox, GrantInsert(m) PROVE Owned'
  <2>1. call[m].upload \in Upload /\ call[m].grant \in Grant /\ UploadOf(m, call[m].upload)
    BY <1>3, <1>a, CallHas DEF GrantInsert, UploadOf, Hangup
  <2>2. objects[call[m].upload] # None => objects[call[m].upload] = m
    <3>1. objects[call[m].upload] # None => UploadOf(objects[call[m].upload], call[m].upload)
                                            /\ objects[call[m].upload] \in Mailbox
      BY <1>a, <2>1 DEF MediaTyped, UploadOf
    <3> QED  BY <2>1, <3>1 DEF MediaInv
  <2> QED  BY <1>3, <1>a, <1>c, <1>d, <2>1, <2>2 DEF GrantInsert, MediaTyped
<1>4. ASSUME NEW g \in Grant, Redeem(g) PROVE Owned'
  <2>1. \A h \in Grant : \/ grants'[h] = grants[h]
                         \/ /\ grants'[h].object = grants[h].object
                            /\ grants'[h].owner = grants[h].owner /\ grants[h] # None
    BY <1>4, <1>a DEF Redeem, Granted, MediaTyped, GrantRow
  <2>2. \A h \in Grant : grants'[h] = None
          \/ /\ grants'[h].object \in Upload /\ grants'[h].owner \in Mailbox
             /\ objects[grants'[h].object] = grants'[h].owner
    BY <1>d, <2>1
  <2> QED  BY <1>4, <1>c, <2>2 DEF Redeem
<1>5. CASE CleanupGrants \/ CleanupIntents
  BY <1>5, <1>a, <1>c, <1>d DEF CleanupGrants, CleanupIntents
<1>6. CASE UNCHANGED <<intents, objects, grants>>
  BY <1>6, <1>c, <1>d
<1> QED
  BY <1>1, <1>2, <1>3, <1>4, <1>5, <1>6
     DEF MediaStep, MediaByAnyone, IntentBegin, ManifestSelect, GrantSelect, MediaAbandon, Put, media

LEMMA MediaInvStep == Typed /\ MediaInv /\ [Next]_vars => MediaInv'
<1> SUFFICES ASSUME Typed, MediaInv, [Next]_vars PROVE MediaInv'
  OBVIOUS
<1>a. MediaTyped /\ DirectoryTyped /\ PageTyped
  BY DEF Typed
<1>1. ASSUME NEW m \in Mailbox, ActionsOf(m) PROVE MediaInv'
  <2>1. Owned'
    BY <1>1, ActionsDecomposed, AccountsStay, OwnedStep
  <2>2. \A u \in Upload, n \in Mailbox : UploadOf(n, u) => Drawn(u)
    BY <1>a, NoneAssumption DEF UploadOf, Drawn
  <2>3. \A u \in Upload, n \in Mailbox : UploadOf(n, u)' => UploadOf(n, u) \/ (n = m /\ ~Drawn(u))
    BY <1>1, UploadsStep
  <2>4. \A u \in Upload, n, k \in Mailbox : UploadOf(n, u)' /\ UploadOf(k, u)' => n = k
    BY <2>2, <2>3 DEF MediaInv
  <2> QED  BY <2>1, <2>4 DEF MediaInv, Owned
<1>b. ASSUME UNCHANGED <<call, draft>>,
             \A u \in Upload : intents'[u] \in {intents[u], None},
             \A u \in Upload : objects'[u] \in {objects[u], None},
             Owned'
      PROVE  MediaInv'
  <2>1. \A u \in Upload, n \in Mailbox : UploadOf(n, u)' => UploadOf(n, u)
    BY <1>b, NoneAssumption DEF UploadOf
  <2> QED  BY <1>b, <2>1 DEF MediaInv, Owned
<1>2. CASE (\E g \in Grant : FetchImage(g)) \/ Cleanup
  <2>1. \/ UNCHANGED media
        \/ MediaByAnyone
    BY <1>2 DEF FetchImage, Cleanup, MediaByAnyone
  <2>2. UNCHANGED directory /\ UNCHANGED <<call, draft, objects>>
    BY <1>2 DEF FetchImage, Cleanup, Redeem, CleanupPosts, CleanupReplies, CleanupIntents,
       CleanupGrants, page, media
  <2>3. \A u \in Upload : intents'[u] \in {intents[u], None}
    BY <1>2 DEF FetchImage, Cleanup, Redeem, CleanupIntents, CleanupGrants, media
  <2>4. Owned'
    BY <2>1, <2>2, OwnedStep DEF directory, Exists
  <2> QED  BY <1>b, <2>2, <2>3, <2>4
<1>3. CASE \/ AdvanceClock
           \/ /\ ChangeContact \/ \E m \in Mailbox : ChangeAccount(m)
              /\ UNCHANGED <<feed, media, page, deleted>>
           \/ UNCHANGED vars
  <2>1. UNCHANGED media /\ UNCHANGED page
    BY <1>3 DEF AdvanceClock, vars
  <2>2. \A n \in Mailbox : Exists(n) => Exists(n)'
    BY <1>3, <1>a DEF AdvanceClock, Tick, ChangeContact, AddContact, DropContact, ChangeAccount,
       Register, SetStatus, Exists, Status, vars, directory, DirectoryTyped
  <2>3. Owned'
    BY <1>a, <2>1, <2>2 DEF Owned, MediaInv, media, MediaTyped
  <2> QED  BY <1>b, <2>1, <2>3 DEF media, page
<1>4. ASSUME NEW m \in Mailbox, RemoveMailbox(m), MediaWithout(m), UNCHANGED page PROVE MediaInv'
  <2>1. \A n \in Mailbox \ {m} : Exists(n) => Exists(n)'
    BY <1>4, <1>a DEF RemoveMailbox, Exists, DirectoryTyped
  <2>2. Owned'
    <3>1. ASSUME NEW u \in Upload
          PROVE  /\ intents'[u] # None => Exists(intents[u].owner)'
                 /\ objects'[u] # None => Exists(objects[u])'
      <4>1. /\ intents'[u] # None => intents'[u] = intents[u] /\ intents[u].owner \in Mailbox \ {m}
            /\ objects'[u] # None => objects'[u] = objects[u] /\ objects[u] \in Mailbox \ {m}
        BY <1>4, <1>a DEF MediaWithout, MediaTyped
      <4> QED  BY <2>1, <4>1 DEF MediaInv
    <3>2. ASSUME NEW g \in Grant, grants'[g] # None
          PROVE  objects'[grants'[g].object] = grants'[g].owner
      <4>1. grants'[g] = grants[g] /\ grants[g] # None /\ grants[g].owner # m
            /\ grants[g].object \in Upload
        BY <1>4, <1>a, <3>2 DEF MediaWithout, MediaTyped, GrantRow
      <4>2. objects[grants[g].object] = grants[g].owner
        BY <4>1 DEF MediaInv
      <4> QED  BY <1>4, <4>1, <4>2 DEF MediaWithout
    <3> QED  BY <3>1, <3>2 DEF Owned
  <2>3. \A u \in Upload : intents'[u] \in {intents[u], None} /\ objects'[u] \in {objects[u], None}
    BY <1>4 DEF MediaWithout
  <2> QED  BY <1>4, <1>b, <2>2, <2>3 DEF MediaWithout, page
<1> QED  BY <1>1, <1>2, <1>3, <1>4, NextCases

LEMMA MediaIsInvariant == Spec => [](Typed /\ FeedInv /\ MediaInv)
<1>1. Init => Typed /\ FeedInv /\ MediaInv
  BY TypedInit, FeedInvInit, MediaInvInit
<1>2. Typed /\ FeedInv /\ MediaInv /\ [Next]_vars => Typed' /\ FeedInv' /\ MediaInv'
  BY TypedStep, FeedInvStep, MediaInvStep
<1> QED  BY <1>1, <1>2, PTL DEF Spec

(* The types, and the foreign keys of posts, deliveries, replies, intents, *)
(* objects and grants.                                                     *)
THEOREM TypeCorrect == Spec => []TypeOK
<1>1. Typed /\ FeedInv /\ MediaInv => TypeOK
  <2> SUFFICES ASSUME Typed, FeedInv, MediaInv PROVE TypeOK
    OBVIOUS
  <2>1. \A p \in Post : posts[p] # None => posts[p] \in PostRow /\ PostRowOK(p)
    BY DEF Typed, FeedTyped, FeedInv
  <2>2. \A r \in Reply : replies[r] # None => ReplyRowOK(r)
    BY DEF FeedInv
  <2>3. \A p \in Post : posts[p] # None =>
          /\ posts[p].to \subseteq Mailbox \ {posts[p].author}
          /\ \A m \in {posts[p].author} \cup posts[p].to : Exists(m)
          /\ posts[p].policy \in Policy /\ posts[p].payload \in Payload
          /\ posts[p].expires \in Nat
    BY <2>1 DEF PostRow, PostRowOK
  <2> QED
    BY <2>2, <2>3 DEF TypeOK, ReplyRowOK, MediaInv, Typed, DirectoryTyped, MediaTyped, PageTyped
<1> QED  BY <1>1, MediaIsInvariant, PTL

-----------------------------------------------------------------------------
(* The images.                                                             *)

(* What an answered grant promises: until it expires it is its owner's and *)
(* its bytes are there.                                                    *)
Link(m, g) ==
  /\ due[g] # None
  /\ now < due[g] =>
       /\ grants[g] # None /\ grants[g].owner = m /\ grants[g].expires = due[g]
       /\ grants[g].object \in blobs

(* Who relies on the promise: a flow, a request or a post.                 *)
Claims(m, g) ==
  \/ At(m, "post") /\ draft[m].grant = g
  \/ request[m].at = "post" /\ request[m].payload = g
  \/ request[m].at = "insert" /\ request[m].row.payload = g
  \/ \E p \in Post : posts[p] # None /\ posts[p].author = m /\ posts[p].payload = g

DraftOK(m) ==
  /\ draft[m].at \in {"manifest", "grant"} => draft[m].upload \in blobs
  /\ draft[m].at \in {"intent", "put", "manifest"} => draft[m].grant = None
  /\ draft[m].at = "grant" /\ draft[m].grant # None =>
       due[draft[m].grant] = None /\ grants[draft[m].grant] = None

CallFits(m) ==
  call[m].at = "grant" =>
    \/ draft[m] = None
    \/ At(m, "grant") /\ draft[m].grant = call[m].grant /\ draft[m].upload = call[m].upload

ImageInv ==
  /\ \A m, n \in Mailbox :
       draft[m] # None /\ draft[n] # None /\ draft[m].grant # None
         /\ draft[m].grant = draft[n].grant => m = n
  /\ \A m \in Mailbox : (draft[m] # None => DraftOK(m)) /\ CallFits(m)
  /\ \A m \in Mailbox \ deleted, g \in Grant : g # None /\ Claims(m, g) => Link(m, g)

LEMMA ImageInvInit == Init => ImageInv
BY DEF Init, FeedInit, MediaInit, ImageInv, CallFits, Claims, At, Hangup, Idle

(* A grant's row and promise change only by its own flow, the expiry, a    *)
(* redemption or its owner's deletion.                                     *)
LEMMA LinkStays ==
  ASSUME Typed, ImageInv, [Next]_vars, NEW a \in Mailbox, a \notin deleted', NEW g \in Grant,
         g # None, Link(a, g)
  PROVE  Link(a, g)'
<1>a. MediaTyped /\ DirectoryTyped /\ PageTyped
  BY DEF Typed
<1>b. due[g] \in Nat /\ now \in Nat
  BY <1>a DEF Link, PageTyped, DirectoryTyped
<1>c. ASSUME due'[g] = due[g], blobs \subseteq blobs', now' \in Nat, now <= now',
             grants'[g] = grants[g]
      PROVE  Link(a, g)'
  BY <1>b, <1>c DEF Link
<1>1. ASSUME NEW m \in Mailbox, ActionsOf(m), ~GrantAnswer(m) PROVE Link(a, g)'
  <2>1. due' = due /\ grants' = grants /\ blobs \subseteq blobs' /\ now' = now
    BY <1>1 DEF ActionsOf, AskIntent, IntentAnswer, PutBytes, AskManifest, ManifestAnswer, AskGrant,
       SubmitPost, StampPost, PostAnswer, Leave, SubmitReply, ReplyStep, IntentBegin, IntentInsert,
       Put, ManifestSelect, ManifestInsert, GrantSelect, MediaAbandon, FeedAbandon, PostCheck,
       PostStamp, PostInsert, ReplyCheck, ReplyStamp, ReplyInsert, EnsureProfile, directory, media,
       page
  <2> QED  BY <1>b, <1>c, <2>1
<1>2. ASSUME NEW m \in Mailbox, GrantAnswer(m) PROVE Link(a, g)'
  <2> DEFINE h == draft[m].grant
  <2>1. draft[m] # None /\ draft[m].at = "grant" /\ call[m].at = "grant" /\ call[m].grant = h
        /\ call[m].grant \in Grant
    BY <1>2, <1>a, CallHas DEF GrantAnswer, GrantInsert, At, ImageInv, CallFits
  <2>2. h # g
    <3>1. h # None => due[h] = None
      BY <2>1 DEF ImageInv, DraftOK
    <3> QED  BY <3>1 DEF Link
  <2>3. due'[g] = due[g] /\ grants'[g] = grants[g] /\ blobs' = blobs /\ now' = now
    BY <1>2, <1>a, <2>1, <2>2 DEF GrantAnswer, GrantInsert, MediaTyped, PageTyped, directory
  <2> QED  BY <1>b, <1>c, <2>3
<1>3. ASSUME NEW h \in Grant, FetchImage(h) PROVE Link(a, g)'
  <2>1. due' = due /\ blobs' = blobs /\ now' = now
        /\ grants' = [grants EXCEPT ![h].redeemed = TRUE]
    BY <1>3 DEF FetchImage, Redeem, page, directory
  <2>2. grants[g] # None => grants'[g] # None /\ grants'[g].owner = grants[g].owner
          /\ grants'[g].expires = grants[g].expires /\ grants'[g].object = grants[g].object
    <3>1. grants[g] # None => [grants[g] EXCEPT !.redeemed = TRUE] \in GrantRow
      BY <1>a DEF MediaTyped, GrantRow
    <3> QED  BY <1>a, <2>1, <3>1, NoneAssumption DEF MediaTyped, GrantRow
  <2> QED  BY <2>1, <2>2 DEF Link
<1>4. CASE Cleanup
  <2>1. due' = due /\ blobs' = blobs /\ now' = now
    BY <1>4 DEF Cleanup, CleanupPosts, CleanupReplies, CleanupIntents, CleanupGrants, media, page,
       directory
  <2>2. grants[g] # None /\ now < grants[g].expires => grants'[g] = grants[g]
    BY <1>4 DEF Cleanup, CleanupPosts, CleanupReplies, CleanupIntents, CleanupGrants, Granted, media
  <2> QED  BY <2>1, <2>2 DEF Link
<1>5. CASE \/ AdvanceClock
           \/ /\ ChangeContact \/ \E m \in Mailbox : ChangeAccount(m)
              /\ UNCHANGED <<feed, media, page, deleted>>
           \/ UNCHANGED vars
  <2>1. due' = due /\ grants' = grants /\ blobs' = blobs /\ (now' = now \/ now' = now + 1)
    BY <1>5 DEF AdvanceClock, Tick, ChangeContact, AddContact, DropContact, ChangeAccount, Register,
       SetStatus, vars, media, page, directory
  <2> QED  BY <1>b, <1>c, <2>1
<1>6. ASSUME NEW m \in Mailbox, RemoveMailbox(m), MediaWithout(m), deleted' = deleted \cup {m},
             UNCHANGED page
      PROVE  Link(a, g)'
  <2>1. due' = due /\ blobs' = blobs /\ now' = now /\ m # a
    BY <1>6 DEF RemoveMailbox, MediaWithout, page
  <2>2. grants[g] # None /\ grants[g].owner = a => grants'[g] = grants[g]
    BY <1>6, <2>1 DEF MediaWithout
  <2> QED  BY <2>1, <2>2 DEF Link
<1> QED  BY <1>1, <1>2, <1>3, <1>4, <1>5, <1>6, NextCases

(* A claim is an earlier one handed on, or begins with a grant's answer.   *)
LEMMA ClaimsStep ==
  ASSUME Typed, FeedInv, [Next]_vars, NEW n \in Mailbox, NEW g \in Grant, g # None, Claims(n, g)'
  PROVE  Claims(n, g) \/ (GrantAnswer(n) /\ g = draft[n].grant /\ grants'[g] # None)
<1>a. FeedTyped /\ MediaTyped /\ PageTyped
  BY DEF Typed
<1>b. ASSUME UNCHANGED <<draft, request>>,
             \A p \in Post : posts'[p] # None =>
               posts[p] # None /\ posts'[p].author = posts[p].author
                 /\ posts'[p].payload = posts[p].payload
      PROVE  Claims(n, g)
  BY <1>b DEF Claims, At
<1>1. ASSUME NEW m \in Mailbox,
             \/ \E u \in Upload : AskIntent(m, u)
             \/ IntentAnswer(m) \/ PutBytes(m) \/ AskManifest(m) \/ ManifestAnswer(m)
             \/ \E h \in Grant : AskGrant(m, h)
      PROVE  Claims(n, g)
  <2>1. UNCHANGED <<posts, request>>
    BY <1>1 DEF AskIntent, IntentAnswer, PutBytes, AskManifest, ManifestAnswer, AskGrant, feed
  <2>2. \/ draft' = draft
        \/ /\ \A k \in Mailbox \ {m} : draft'[k] = draft[k]
           /\ draft'[m] = None \/ draft'[m].at # "post"
    BY <1>1, <1>a, DraftHas DEF AskIntent, IntentAnswer, PutBytes, AskManifest, ManifestAnswer,
       AskGrant, page, AdvanceIf, Advance, To, At, PageTyped, Draft
  <2> QED  BY <2>1, <2>2 DEF Claims, At
<1>2. ASSUME NEW m \in Mailbox, GrantAnswer(m)
      PROVE  Claims(n, g) \/ (GrantAnswer(n) /\ g = draft[n].grant /\ grants'[g] # None)
  <2>1. UNCHANGED <<posts, request>>
    BY <1>2 DEF GrantAnswer, feed
  <2>2. /\ \A k \in Mailbox \ {m} : draft'[k] = draft[k]
        /\ draft'[m] # None => draft'[m].grant = draft[m].grant /\ grants'[draft[m].grant] # None
    BY <1>2, <1>a, DraftHas DEF GrantAnswer, AdvanceIf, Advance, To, At, PageTyped, Draft
  <2>3. CASE n = m /\ At(m, "post")' /\ draft'[m].grant = g
    BY <1>2, <2>2, <2>3 DEF At
  <2>4. CASE ~(n = m /\ At(m, "post")' /\ draft'[m].grant = g)
    BY <2>1, <2>2, <2>4 DEF Claims, At
  <2> QED  BY <2>3, <2>4
<1>c. ASSUME \A p \in Post : posts'[p] = posts[p],
             \A k \in Mailbox : draft'[k] \in {draft[k], None},
             NEW m \in Mailbox, \A k \in Mailbox \ {m} : request'[k] = request[k],
             \/ request'[m] = request[m] \/ request'[m].at \notin {"post", "insert"}
             \/ request'[m].at = "post" /\ (request'[m].payload = g => Claims(m, g))
             \/ request'[m].at = "insert" /\ (request'[m].row.payload = g => Claims(m, g))
      PROVE  Claims(n, g)
  BY <1>c DEF Claims, At
<1>3. ASSUME NEW m \in Mailbox, NEW p \in Post, NEW to \in SUBSET Mailbox, NEW policy \in Policy,
             SubmitPost(m, p, to, policy)
      PROVE  Claims(n, g)
  <2>1. /\ UNCHANGED <<posts, draft>> /\ \A k \in Mailbox \ {m} : request'[k] = request[k]
        /\ request'[m].at = "post"
        /\ request'[m].payload = (IF draft[m] = None THEN None ELSE draft[m].grant)
        /\ draft[m] = None \/ At(m, "post")
    BY <1>3, <1>a DEF SubmitPost, PostCheck, FeedTyped, page
  <2> QED  BY <1>c, <2>1 DEF Claims
<1>4. ASSUME NEW m \in Mailbox, StampPost(m) PROVE Claims(n, g)
  <2>1. /\ UNCHANGED <<posts, draft>> /\ \A k \in Mailbox \ {m} : request'[k] = request[k]
        /\ request[m].at = "post" /\ request'[m].at = "insert"
        /\ request'[m].row.payload = request[m].payload
    BY <1>4, <1>a DEF StampPost, PostStamp, FeedTyped, page
  <2> QED  BY <1>c, <2>1 DEF Claims
<1>5. ASSUME NEW m \in Mailbox, PostAnswer(m) PROVE Claims(n, g)
  <2>1. /\ \A k \in Mailbox : draft'[k] \in {draft[k], None}
        /\ \A k \in Mailbox \ {m} : request'[k] = request[k]
        /\ request'[m] = Idle /\ request[m].at = "insert" /\ request[m].row.author = m
        /\ request[m].post \in Post
        /\ posts' = posts \/ posts' = [posts EXCEPT ![request[m].post] = request[m].row]
    BY <1>5, <1>a, RequestHas
       DEF PostAnswer, PostInsert, Finish, To, FeedTyped, PageTyped, FeedInv, RequestFits
  <2>2. \A p \in Post : posts'[p] = posts[p] \/ posts'[p] = request[m].row
    BY <1>a, <2>1 DEF FeedTyped
  <2> QED  BY <2>1, <2>2 DEF Claims, At, Idle
<1>6. ASSUME NEW m \in Mailbox,
             \/ Leave(m) \/ ReplyStep(m) \/ \E p \in Post, r \in Reply : SubmitReply(m, p, r)
      PROVE  Claims(n, g)
  <2>1. \A p \in Post : posts'[p] = posts[p]
    BY <1>6 DEF Leave, ReplyStep, SubmitReply, MediaAbandon, FeedAbandon, ReplyCheck, ReplyStamp,
       ReplyInsert, feed
  <2>2. \A k \in Mailbox : draft'[k] \in {draft[k], None}
    BY <1>6, <1>a DEF Leave, ReplyStep, SubmitReply, To, page, PageTyped
  <2>3. /\ \A k \in Mailbox \ {m} : request'[k] = request[k]
        /\ request'[m] = request[m] \/ request'[m].at \notin {"post", "insert"}
    BY <1>6, <1>a DEF Leave, ReplyStep, SubmitReply, FeedAbandon, ReplyCheck, ReplyStamp,
       ReplyInsert, Finish, Idle, feed, FeedTyped
  <2> QED  BY <1>c, <2>1, <2>2, <2>3
<1>7. ASSUME NEW m \in Mailbox, FeedWithout(m), UNCHANGED <<request, page>> PROVE Claims(n, g)
  <2>1. \A p \in Post : posts'[p] # None =>
          posts[p] # None /\ posts'[p].author = posts[p].author
            /\ posts'[p].payload = posts[p].payload
    BY <1>7, <1>a DEF FeedWithout, FeedTyped, PostRow
  <2> QED  BY <1>7, <1>b, <2>1 DEF page
<1>8. CASE Cleanup \/ (\E h \in Grant : FetchImage(h)) \/ UNCHANGED <<feed, page>>
  <2>1. UNCHANGED <<draft, request>> /\ \A p \in Post : posts'[p] \in {posts[p], None}
    BY <1>8 DEF Cleanup, CleanupPosts, CleanupReplies, FetchImage, feed, page
  <2> QED  BY <1>b, <2>1
<1> QED
  BY <1>1, <1>2, <1>3, <1>4, <1>5, <1>6, <1>7, <1>8, NextCases DEF ActionsOf, AdvanceClock, vars

FlowsOK ==
  /\ \A m, n \in Mailbox :
       draft[m] # None /\ draft[n] # None /\ draft[m].grant # None
         /\ draft[m].grant = draft[n].grant => m = n
  /\ \A m \in Mailbox : (draft[m] # None => DraftOK(m)) /\ CallFits(m)

(* The flows keep their uploads and grants apart.                          *)
LEMMA FlowsStep ==
  ASSUME Typed, ImageInv, NEW m \in Mailbox, ActionsOf(m)
  PROVE  FlowsOK'
<1>a. MediaTyped /\ PageTyped /\ FlowsOK
  BY DEF Typed, ImageInv, FlowsOK
<1>b. ASSUME \A n \in Mailbox \ {m} : draft'[n] = draft[n] /\ call'[n] = call[n],
             \/ draft'[m] = None \/ draft'[m].grant = None
             \/ draft[m] # None /\ draft'[m].grant = draft[m].grant
             \/ \A n \in Mailbox : draft[n] # None => draft[n].grant # draft'[m].grant,
             blobs \subseteq blobs',
             \A n \in Mailbox \ {m}, g \in Grant :
               g # None /\ draft[n] # None /\ draft[n].at = "grant" /\ draft[n].grant = g =>
                 due'[g] = due[g] /\ grants'[g] = grants[g],
             draft'[m] # None => DraftOK(m)', CallFits(m)'
      PROVE  FlowsOK'
  <2>1. ASSUME NEW n \in Mailbox \ {m}, draft[n] # None PROVE DraftOK(n)'
    <3>1. DraftOK(n) /\ draft[n] \in Draft
      BY <1>a, <2>1 DEF FlowsOK, PageTyped
    <3> QED  BY <1>b, <2>1, <3>1 DEF DraftOK, Draft
  <2>2. \A n \in Mailbox \ {m} : CallFits(n)'
    BY <1>a, <1>b DEF FlowsOK, CallFits, At
  <2> QED  BY <1>a, <1>b, <2>1, <2>2 DEF FlowsOK
<1>1. ASSUME NEW u \in Upload, AskIntent(m, u) PROVE FlowsOK'
  <2>1. /\ \A n \in Mailbox \ {m} : draft'[n] = draft[n] /\ call'[n] = call[n]
        /\ UNCHANGED <<blobs, grants, due>>
        /\ draft'[m].at = "intent" /\ draft'[m].grant = None /\ call'[m].at = "intent"
    BY <1>1, <1>a DEF AskIntent, IntentBegin, To, PageTyped, MediaTyped
  <2> QED  BY <1>b, <2>1 DEF DraftOK, CallFits
<1>2. CASE IntentAnswer(m)
  <2>a. draft[m] # None /\ draft[m].at = "intent" /\ draft[m] \in Draft
    BY <1>2, <1>a, DraftHas DEF IntentAnswer, At
  <2>b. /\ \A n \in Mailbox \ {m} : draft'[n] = draft[n]
        /\ draft'[m] # None => draft'[m].at = "put" /\ draft'[m].grant = draft[m].grant
    BY <1>2, <1>a, <2>a DEF IntentAnswer, AdvanceIf, Advance, To, PageTyped, Draft
  <2>1. /\ \A n \in Mailbox \ {m} : draft'[n] = draft[n] /\ call'[n] = call[n]
        /\ UNCHANGED <<blobs, grants, due>> /\ call'[m].at = "idle" /\ draft[m] # None
        /\ draft[m].at = "intent"
        /\ draft'[m] # None => draft'[m].at = "put" /\ draft'[m].grant = draft[m].grant
    BY <1>2, <1>a, <2>a, <2>b DEF IntentAnswer, IntentInsert, Return, Hangup, MediaTyped
  <2>2. (draft'[m] # None => DraftOK(m)') /\ CallFits(m)'
    BY <1>a, <2>1 DEF FlowsOK, DraftOK, CallFits
  <2> QED  BY <1>b, <2>1, <2>2
<1>3. CASE PutBytes(m)
  <2>1. /\ \A n \in Mailbox \ {m} : draft'[n] = draft[n] /\ call'[n] = call[n]
        /\ UNCHANGED <<grants, due, call>> /\ blobs' = blobs \cup {draft[m].upload}
        /\ draft[m] # None /\ draft[m].at = "put" /\ draft'[m].at = "manifest"
        /\ draft'[m].grant = draft[m].grant /\ draft'[m].upload = draft[m].upload
    BY <1>3, <1>a, DraftHas
       DEF PutBytes, Put, At, Advance, To, PageTyped, MediaTyped, Draft
  <2>2. call[m].at # "grant"
    BY <1>a, <2>1 DEF FlowsOK, CallFits, At
  <2> QED  BY <1>a, <1>b, <2>1, <2>2 DEF FlowsOK, DraftOK, CallFits
<1>4. CASE AskManifest(m)
  <2>1. /\ \A n \in Mailbox \ {m} : call'[n] = call[n]
        /\ UNCHANGED <<draft, blobs, grants, due>> /\ call'[m].at = "manifest"
    BY <1>4, <1>a DEF AskManifest, ManifestSelect, MediaTyped, page
  <2>2. (draft'[m] # None => DraftOK(m)') /\ CallFits(m)'
    BY <1>a, <2>1 DEF FlowsOK, DraftOK, CallFits
  <2> QED  BY <1>b, <2>1, <2>2
<1>5. CASE ManifestAnswer(m)
  <2>a. draft[m] # None /\ draft[m].at = "manifest" /\ draft[m] \in Draft
    BY <1>5, <1>a, DraftHas DEF ManifestAnswer, At
  <2>b. /\ \A n \in Mailbox \ {m} : draft'[n] = draft[n]
        /\ draft'[m] # None => /\ draft'[m].at = "grant" /\ draft'[m].grant = draft[m].grant
                               /\ draft'[m].upload = draft[m].upload
    BY <1>5, <1>a, <2>a DEF ManifestAnswer, AdvanceIf, Advance, To, PageTyped, Draft
  <2>1. /\ \A n \in Mailbox \ {m} : draft'[n] = draft[n] /\ call'[n] = call[n]
        /\ UNCHANGED <<blobs, grants, due>> /\ call'[m].at = "idle" /\ draft[m] # None
        /\ draft[m].at = "manifest"
        /\ draft'[m] # None => /\ draft'[m].at = "grant" /\ draft'[m].grant = draft[m].grant
                               /\ draft'[m].upload = draft[m].upload
    BY <1>5, <1>a, <2>a, <2>b DEF ManifestAnswer, ManifestInsert, Return, Hangup, MediaTyped
  <2>2. (draft'[m] # None => DraftOK(m)') /\ CallFits(m)'
    BY <1>a, <2>1 DEF FlowsOK, DraftOK, CallFits
  <2> QED  BY <1>b, <2>1, <2>2
<1>6. ASSUME NEW g \in Grant, AskGrant(m, g) PROVE FlowsOK'
  <2>1. /\ \A n \in Mailbox \ {m} : draft'[n] = draft[n] /\ call'[n] = call[n]
        /\ UNCHANGED <<blobs, grants, due>> /\ due[g] = None /\ grants[g] = None
        /\ \A n \in Mailbox : draft[n] # None => draft[n].grant # g
        /\ draft[m] # None /\ draft[m].at = "grant"
        /\ draft'[m].at = "grant" /\ draft'[m].grant = g /\ draft'[m].upload = draft[m].upload
        /\ call'[m].at = "grant" /\ call'[m].grant = g /\ call'[m].upload = draft[m].upload
    BY <1>6, <1>a, DraftHas DEF AskGrant, GrantSelect, At, To, PageTyped, MediaTyped, Draft
  <2>2. CallFits(m)'
    BY <2>1 DEF CallFits, At
  <2> QED  BY <1>a, <1>b, <2>1, <2>2 DEF FlowsOK, DraftOK
<1>7. CASE GrantAnswer(m)
  <2>1. /\ \A n \in Mailbox \ {m} : draft'[n] = draft[n] /\ call'[n] = call[n]
        /\ UNCHANGED blobs /\ call'[m].at = "idle" /\ draft[m] # None
        /\ draft[m].at = "grant" /\ call[m].at = "grant" /\ call[m].grant = draft[m].grant
        /\ draft'[m] # None => draft'[m].at = "post" /\ draft'[m].grant = draft[m].grant
        /\ \A g \in Grant \ {draft[m].grant} : due'[g] = due[g] /\ grants'[g] = grants[g]
    BY <1>7, <1>a, DraftHas
       DEF GrantAnswer, GrantInsert, Return, Hangup, At, AdvanceIf, Advance, To, PageTyped,
           MediaTyped, Draft, FlowsOK, CallFits
  <2>2. \A n \in Mailbox \ {m}, g \in Grant :
          g # None /\ draft[n] # None /\ draft[n].grant = g => g # draft[m].grant
    BY <1>a, <2>1 DEF FlowsOK
  <2> QED  BY <1>a, <1>b, <2>1, <2>2 DEF DraftOK, CallFits
<1>8. CASE \/ \E p \in Post, to \in SUBSET Mailbox, policy \in Policy : SubmitPost(m, p, to, policy)
           \/ StampPost(m) \/ PostAnswer(m) \/ Leave(m)
           \/ \E p \in Post, r \in Reply : SubmitReply(m, p, r)
           \/ ReplyStep(m)
  <2>1. /\ \A n \in Mailbox \ {m} : draft'[n] = draft[n] /\ call'[n] = call[n]
        /\ UNCHANGED <<blobs, grants, due>> /\ draft'[m] \in {draft[m], None}
        /\ call'[m] = call[m] \/ call'[m].at = "idle"
    BY <1>8, <1>a
       DEF SubmitPost, StampPost, PostAnswer, Leave, SubmitReply, ReplyStep, MediaAbandon, Return,
           Hangup, To, media, page, PageTyped, MediaTyped
  <2>2. draft'[m] # None => DraftOK(m)'
    BY <1>a, <2>1 DEF FlowsOK, DraftOK
  <2>3. CallFits(m)'
    <3>1. CallFits(m)
      BY <1>a DEF FlowsOK
    <3>2. CASE draft'[m] = draft[m] /\ call'[m] = call[m]
      BY <3>1, <3>2 DEF CallFits, At
    <3>3. CASE draft'[m] = None \/ call'[m].at = "idle"
      BY <3>3 DEF CallFits
    <3> QED  BY <2>1, <3>2, <3>3
  <2> QED  BY <1>b, <2>1, <2>2, <2>3
<1> QED  BY <1>1, <1>2, <1>3, <1>4, <1>5, <1>6, <1>7, <1>8 DEF ActionsOf

LEMMA ImageInvStep == Typed /\ FeedInv /\ ImageInv /\ [Next]_vars => ImageInv'
<1> SUFFICES ASSUME Typed, FeedInv, ImageInv, [Next]_vars PROVE ImageInv'
  OBVIOUS
<1>a. MediaTyped /\ PageTyped
  BY DEF Typed
<1>1. FlowsOK'
  <2>1. ASSUME NEW m \in Mailbox, ActionsOf(m) PROVE FlowsOK'
    BY <2>1, FlowsStep
  <2>2. ASSUME UNCHANGED <<draft, call, blobs, due>>, \A g \in Grant : grants[g] = None => grants'[g] = None
        PROVE  FlowsOK'
    <3>1. ASSUME NEW m \in Mailbox, draft[m] # None PROVE DraftOK(m)'
      <4>1. DraftOK(m) /\ draft[m].grant \in Grant \cup {None}
        BY <3>1, <1>a, DraftHas DEF Typed, ImageInv, Draft
      <4> QED  BY <2>2, <4>1 DEF DraftOK
    <3> QED  BY <2>2, <3>1 DEF FlowsOK, ImageInv, CallFits, At
  <2>3. ASSUME NEW g \in Grant, FetchImage(g) PROVE FlowsOK'
    BY <1>a, <2>2, <2>3 DEF FetchImage, Redeem, Granted, MediaTyped, page
  <2>4. CASE Cleanup
    BY <2>2, <2>4 DEF Cleanup, CleanupPosts, CleanupReplies, CleanupIntents, CleanupGrants, media,
       page
  <2>5. CASE UNCHANGED <<media, page>>
    BY <2>2, <2>5 DEF media, page
  <2>6. ASSUME NEW m \in Mailbox, MediaWithout(m), UNCHANGED page PROVE FlowsOK'
    BY <2>2, <2>6 DEF MediaWithout, page
  <2> QED  BY <2>1, <2>3, <2>4, <2>5, <2>6, NextCases DEF AdvanceClock, vars
<1>2. ASSUME NEW n \in Mailbox, n \notin deleted', NEW g \in Grant, g # None, Claims(n, g)'
      PROVE  Link(n, g)'
  <2>1. n \notin deleted
    <3>1. deleted \subseteq deleted'
      BY NextCases, ActionsDecomposed DEF FetchImage, Cleanup, AdvanceClock, history, vars
    <3> QED  BY <1>2, <3>1
  <2>2. CASE Claims(n, g)
    <3>1. Link(n, g)
      BY <1>2, <2>1, <2>2 DEF ImageInv
    <3> QED  BY <1>2, <3>1, LinkStays
  <2>3. CASE GrantAnswer(n) /\ g = draft[n].grant /\ grants'[g] # None
    <3>1. /\ draft[n] # None /\ draft[n].at = "grant" /\ call[n].at = "grant"
          /\ call[n].grant = g /\ call[n].upload = draft[n].upload
          /\ grants[g] = None /\ draft[n].upload \in blobs
      BY <1>2, <2>3 DEF GrantAnswer, GrantInsert, At, ImageInv, CallFits, DraftOK
    <3>2. /\ grants'[g] = [object |-> draft[n].upload, owner |-> n, expires |-> call[n].expires,
                           redeemed |-> FALSE]
          /\ blobs' = blobs /\ due'[g] = grants'[g].expires
      BY <1>a, <2>3, <3>1 DEF GrantAnswer, GrantInsert, MediaTyped, PageTyped
    <3>3. due'[g] # None
      BY <1>a, <3>1, <3>2, CallHas, NoneAssumption
    <3> QED  BY <2>3, <3>1, <3>2, <3>3 DEF Link
  <2> QED  BY <1>2, <2>2, <2>3, ClaimsStep
<1> QED  BY <1>1, <1>2 DEF ImageInv, FlowsOK

(* RelayMedia and the page's flow: a listed post's image can be fetched    *)
(* until its grant expires.                                                *)
THEOREM Images == Spec => []ListedImageIsFetchable
<1>1. Typed /\ ImageInv => ListedImageIsFetchable
  <2> SUFFICES ASSUME Typed, ImageInv, NEW m \in Mailbox, NEW p \in Post, Visible(m, p),
                      posts[p].payload # None, posts[p].author \notin deleted
               PROVE  due[posts[p].payload] # None
                        /\ (now < due[posts[p].payload] => Fetchable(posts[p].payload))
    BY DEF ListedImageIsFetchable
  <2>1. posts[p] # None /\ posts[p].author \in Mailbox /\ posts[p].payload \in Grant
    BY PageAssumption DEF Visible, LivePost, Typed, FeedTyped, PostRow
  <2>2. Link(posts[p].author, posts[p].payload)
    BY <2>1 DEF ImageInv, Claims
  <2> QED  BY <2>2 DEF Link, Fetchable, Granted
<1>2. Spec => [](Typed /\ FeedInv /\ ImageInv)
  <2>1. Init => Typed /\ FeedInv /\ ImageInv
    BY TypedInit, FeedInvInit, ImageInvInit
  <2>2. Typed /\ FeedInv /\ ImageInv /\ [Next]_vars => Typed' /\ FeedInv' /\ ImageInv'
    BY TypedStep, FeedInvStep, ImageInvStep
  <2> QED  BY <2>1, <2>2, PTL DEF Spec
<1> QED  BY <1>1, <1>2, PTL
=============================================================================
