----------------------------- MODULE RelayFeed -----------------------------
(***************************************************************************)
(* The relay's feed: posts to contacts, and replies between a post's       *)
(* author and one of its recipients.  A request is its statements; a post  *)
(* and its deliveries are one transaction.  Post and reply ids are random, *)
(* ciphertexts, codenames and the listing's limit are left out.            *)
(***************************************************************************)
EXTENDS RelayDirectory

CONSTANTS Post, Reply,
          Payload      \* what a post says, as far as the relay's clients use it

VARIABLES posts,       \* relay_feed_posts with their deliveries: a row or None
          replies,     \* relay_feed_post_replies: a row or None
          request,     \* a mailbox's request in progress
          used         \* the ids drawn

feed == <<posts, replies, request, used>>

Policy == {"no_replies", "contacts_only"}
Idle == [at |-> "idle"]

FeedInit ==
  /\ posts = [p \in Post |-> None]
  /\ replies = [r \in Reply |-> None]
  /\ request = [m \in Mailbox |-> Idle]
  /\ used = {}

LivePost(p) == posts[p] # None /\ now < posts[p].expires
LiveReply(r) == replies[r] # None /\ now < replies[r].expires

Finish(m) == request' = [request EXCEPT ![m] = Idle]

(* ensure_account_profile: a mailbox without an account gets one.          *)
EnsureProfile(m) ==
  /\ status' = IF status[m] = "bare" THEN [status EXCEPT ![m] = "active"] ELSE status
  /\ UNCHANGED <<now, contacts>>

-----------------------------------------------------------------------------
(* What list_feed_posts shows.                                             *)

Visible(m, p) == LivePost(p) /\ m \in {posts[p].author} \cup posts[p].to

(* Mutant: recipients that are no longer active are offered.                *)
ReplyTargetsAll(m, p) ==
  IF posts[p].policy = "no_replies" THEN {}
  ELSE IF m = posts[p].author THEN posts[p].to ELSE {posts[p].author}

(* resolve_feed_reply_targets.                                             *)
ReplyTargets(m, p) ==
  IF posts[p].policy = "no_replies" THEN {}
  ELSE IF m = posts[p].author THEN {t \in posts[p].to : Active(t)} ELSE {posts[p].author}

-----------------------------------------------------------------------------
(* create_feed_post.                                                       *)

(* The checks, up to the SELECT of the recipients.                         *)
PostCheck(m, p, to, policy, payload) ==
  /\ request[m] = Idle /\ p \notin used
  /\ Authenticates(m)
  /\ to # {} /\ m \notin to
  /\ \A t \in to : <<m, t>> \in contacts /\ Active(t)
  /\ request' = [request EXCEPT ![m] =
       [at |-> "post", post |-> p, to |-> to, policy |-> policy, payload |-> payload]]
  /\ used' = used \cup {p}
  /\ UNCHANGED <<directory, posts, replies>>

(* The author's profile, and the time stamps.                              *)
PostStamp(m, ttl) ==
  LET r == request[m] IN
  /\ r.at = "post"
  /\ EnsureProfile(m)
  /\ request' = [request EXCEPT ![m] =
       [at |-> "insert", post |-> r.post,
        row |-> [author |-> m, to |-> r.to, policy |-> r.policy,
                 payload |-> r.payload, expires |-> now + ttl]]]
  /\ UNCHANGED <<posts, replies, used>>

(* The transaction: every mailbox of it must still be there.               *)
PostInsert(m) ==
  LET r == request[m] IN
  /\ r.at = "insert"
  /\ posts' = IF \A t \in {m} \cup r.row.to : Exists(t)
              THEN [posts EXCEPT ![r.post] = r.row] ELSE posts
  /\ Finish(m)
  /\ UNCHANGED <<directory, replies, used>>

-----------------------------------------------------------------------------
(* create_feed_reply.                                                      *)

(* What its first SELECT and the checks after it demand.                   *)
MayReply(m, p) == Visible(m, p) /\ posts[p].policy # "no_replies"

(* The recipient it accepts: for the author, an active mailbox among the   *)
(* deliveries, for a recipient the author.                                 *)
MayAddress(m, p, author, t) ==
  /\ IF m = author THEN posts[p] # None /\ t \in posts[p].to /\ Active(t) ELSE t = author
  /\ t # m

ReplyCheck(m, p, r) ==
  /\ request[m] = Idle /\ r \notin used
  /\ Authenticates(m) /\ MayReply(m, p)
  /\ request' = [request EXCEPT ![m] =
       [at |-> "target", reply |-> r, post |-> p,
        author |-> posts[p].author, until |-> posts[p].expires]]
  /\ used' = used \cup {r}
  /\ UNCHANGED <<directory, posts, replies>>

(* Mutant: a reply lives as long as it asks for.                            *)
ReplyExpiryUnclamped(r, ttl) == now + ttl

ReplyExpiry(r, ttl) == IF now + ttl < r.until THEN now + ttl ELSE r.until

(* The second SELECT, the time stamps, and the replier's profile; t is     *)
(* whom the request addresses.                                             *)
ReplyStamp(m, t, ttl) ==
  LET r == request[m] IN
  /\ r.at = "target"
  /\ IF MayAddress(m, r.post, r.author, t)
     THEN /\ EnsureProfile(m)
          /\ request' = [request EXCEPT ![m] =
               [at |-> "reply", reply |-> r.reply,
                row |-> [post |-> r.post, author |-> m, to |-> t,
                         expires |-> ReplyExpiry(r, ttl)]]]
     ELSE Finish(m) /\ UNCHANGED directory
  /\ UNCHANGED <<posts, replies, used>>

(* The INSERT and its foreign keys.                                        *)
ReplyInsert(m) ==
  LET r == request[m] IN
  /\ r.at = "reply"
  /\ replies' = IF posts[r.row.post] # None /\ Exists(m) /\ Exists(r.row.to)
                THEN [replies EXCEPT ![r.reply] = r.row] ELSE replies
  /\ Finish(m)
  /\ UNCHANGED <<directory, posts, used>>

(* The request fails, or its client hangs up and it is dropped.            *)
FeedAbandon(m) ==
  /\ request[m] # Idle
  /\ Finish(m)
  /\ UNCHANGED <<directory, posts, replies, used>>

-----------------------------------------------------------------------------
(* Rows that go.                                                           *)

RepliesTo(kept) == [r \in Reply |->
  IF replies[r] # None /\ replies[r].post \in kept THEN replies[r] ELSE None]

(* The cleanup statement for posts; deliveries and replies go with them.   *)
CleanupPosts ==
  /\ posts' = [p \in Post |-> IF LivePost(p) THEN posts[p] ELSE None]
  /\ replies' = RepliesTo({p \in Post : LivePost(p)})
  /\ UNCHANGED <<directory, request, used>>

(* The cleanup statement for replies.                                      *)
CleanupReplies ==
  /\ replies' = [r \in Reply |-> IF LiveReply(r) THEN replies[r] ELSE None]
  /\ UNCHANGED <<directory, posts, request, used>>

(* Mutant: the deliveries of a mailbox that goes stay.                      *)
FeedWithoutDeliveries(m) ==
  /\ posts' = [p \in Post |->
       IF posts[p] = None \/ posts[p].author = m THEN None ELSE posts[p]]
  /\ replies' = [r \in Reply |->
       IF replies[r] = None \/ m \in {replies[r].author, replies[r].to}
          \/ posts[replies[r].post].author = m THEN None ELSE replies[r]]

(* ON DELETE CASCADE: the posts, deliveries and replies of a mailbox.      *)
FeedWithout(m) ==
  /\ posts' = [p \in Post |->
       IF posts[p] = None \/ posts[p].author = m THEN None
       ELSE [posts[p] EXCEPT !.to = @ \ {m}]]
  /\ replies' = [r \in Reply |->
       IF replies[r] = None \/ m \in {replies[r].author, replies[r].to}
          \/ posts[replies[r].post].author = m THEN None ELSE replies[r]]
=============================================================================
