---------------------------- MODULE FeedPosting ----------------------------
(***************************************************************************)
(* The feed, the media store and the browser's posting flow composed: a    *)
(* post with an image is an upload intent, a presigned PUT, a manifest, a  *)
(* grant and a post, each awaited before the next; the payload carries the *)
(* grant's token, and readers fetch the image with it while they see the   *)
(* post.  Accounts and contacts change meanwhile, the cleanup runs, tabs   *)
(* are closed.  The page asks for one lifetime for grants and posts.       *)
(***************************************************************************)
EXTENDS RelayFeed, RelayMedia

CONSTANTS Ttl,         \* the lifetime the page asks for
          MaxChanges   \* bound: the changes of accounts and contacts

ASSUME PageAssumption ==
  Payload = Grant \cup {None} /\ Ttl \in Nat \ {0} /\ MaxChanges \in Nat

\* None is no mailbox, no time and no row.
ASSUME NoneAssumption ==
  /\ None \notin Mailbox \cup Nat
  /\ None \notin [author : Mailbox, to : SUBSET Mailbox, policy : Policy, payload : Payload,
                  expires : Nat]
  /\ None \notin [object : Upload, owner : Mailbox, expires : Nat, redeemed : BOOLEAN]

VARIABLES draft,       \* the posting flow of a mailbox's page, or None
          due,         \* history: when a grant that was answered expires
          deleted,     \* history: the mailboxes deleted
          changes      \* how many changes of accounts and contacts there were

page == <<draft, due>>
history == <<deleted, changes>>
vars == <<directory, feed, media, page, history>>

(* Everyone is registered, active, and everyone's contact.                 *)
Init ==
  /\ now = 1
  /\ status = [m \in Mailbox |-> "active"]
  /\ contacts = {c \in Mailbox \X Mailbox : c[1] # c[2]}
  /\ FeedInit /\ MediaInit
  /\ draft = [m \in Mailbox |-> None]
  /\ due = [g \in Grant |-> None]
  /\ deleted = {} /\ changes = 0

-----------------------------------------------------------------------------
(* postFeedEntry and createFeedMediaAsset.                                 *)

To(m, d) == draft' = [draft EXCEPT ![m] = d]
Advance(m, step) == To(m, [draft[m] EXCEPT !.at = step])
AdvanceIf(succeeded, m, step) == IF succeeded THEN Advance(m, step) ELSE To(m, None)

At(m, step) == draft[m] # None /\ draft[m].at = step

Drawn(u) ==
  \/ intents[u] # None \/ objects[u] # None \/ u \in blobs
  \/ \E m \in Mailbox : draft[m] # None /\ draft[m].upload = u
  \/ \E m \in Mailbox : call[m] # Hangup /\ call[m].upload = u

AskIntent(m, u) ==
  /\ draft[m] = None /\ ~Drawn(u)
  /\ IntentBegin(m, u)
  /\ To(m, [at |-> "intent", upload |-> u, until |-> now + IntentTtl, grant |-> None])
  /\ UNCHANGED <<feed, due, history>>

IntentAnswer(m) ==
  /\ At(m, "intent") /\ IntentInsert(m)
  /\ AdvanceIf(intents'[draft[m].upload] # None, m, "put")
  /\ UNCHANGED <<feed, due, history>>

PutBytes(m) ==
  /\ At(m, "put") /\ Put(draft[m].upload, draft[m].until)
  /\ Advance(m, "manifest")
  /\ UNCHANGED <<feed, due, history>>

AskManifest(m) ==
  /\ At(m, "manifest") /\ ManifestSelect(m, draft[m].upload)
  /\ UNCHANGED <<feed, page, history>>

ManifestAnswer(m) ==
  /\ At(m, "manifest") /\ ManifestInsert(m)
  /\ AdvanceIf(objects'[draft[m].upload] = m, m, "grant")
  /\ UNCHANGED <<feed, due, history>>

AskGrant(m, g) ==
  /\ At(m, "grant") /\ due[g] = None
  /\ \A n \in Mailbox : draft[n] # None => draft[n].grant # g
  /\ GrantSelect(m, draft[m].upload, g, Ttl)
  /\ To(m, [draft[m] EXCEPT !.grant = g])
  /\ UNCHANGED <<feed, due, history>>

GrantAnswer(m) ==
  LET g == draft[m].grant IN
  /\ At(m, "grant") /\ GrantInsert(m)
  /\ due' = IF grants'[g] = None THEN due ELSE [due EXCEPT ![g] = grants'[g].expires]
  /\ AdvanceIf(grants'[g] # None, m, "post")
  /\ UNCHANGED <<feed, history>>

(* The post with the image's grant; a draft that did not begin with an     *)
(* image is a post without one.                                            *)
SubmitPost(m, p, to, policy) ==
  /\ draft[m] = None \/ At(m, "post")
  /\ PostCheck(m, p, to, policy, IF draft[m] = None THEN None ELSE draft[m].grant)
  /\ UNCHANGED <<media, page, history>>

StampPost(m) ==
  /\ PostStamp(m, Ttl)
  /\ UNCHANGED <<media, page, history>>

PostAnswer(m) ==
  /\ PostInsert(m)
  /\ To(m, None)
  /\ UNCHANGED <<media, due, history>>

(* A request failed, or the page is closed: what it left behind stays.     *)
Leave(m) ==
  \/ /\ draft[m] # None /\ call[m] = Hangup /\ request[m] = Idle
     /\ To(m, None)
     /\ UNCHANGED <<directory, feed, media, due, history>>
  \/ /\ MediaAbandon(m) /\ To(m, None)
     /\ UNCHANGED <<feed, due, history>>
  \/ /\ FeedAbandon(m) /\ To(m, None)
     /\ UNCHANGED <<media, due, history>>

-----------------------------------------------------------------------------
(* Readers, the clock, the cleanup, accounts.                              *)

(* Replies of any client, to anyone and for any time.                      *)
SubmitReply(m, p, r) ==
  /\ draft[m] = None /\ ReplyCheck(m, p, r)
  /\ UNCHANGED <<media, page, history>>

ReplyStep(m) ==
  /\ \/ \E t \in Mailbox, ttl \in 1..Ttl : ReplyStamp(m, t, ttl)
     \/ ReplyInsert(m)
  /\ UNCHANGED <<media, page, history>>

(* resolveFeedMediaUrl of a reader who sees the post.                      *)
FetchImage(g) ==
  /\ \E m \in Mailbox, p \in Post : Visible(m, p) /\ posts[p].payload = g
  /\ Redeem(g)
  /\ UNCHANGED <<feed, page, history>>

Cleanup ==
  \/ (CleanupPosts \/ CleanupReplies) /\ UNCHANGED <<media, page, history>>
  \/ (CleanupIntents \/ CleanupGrants) /\ UNCHANGED <<feed, page, history>>

AdvanceClock == Tick /\ UNCHANGED <<feed, media, page, history>>

(* The requests of RelayAccounts.                                          *)
ChangeDirectory ==
  /\ changes < MaxChanges /\ changes' = changes + 1
  /\ \/ /\ ChangeContact \/ \E m \in Mailbox : ChangeAccount(m)
        /\ UNCHANGED <<feed, media, deleted>>
     \/ \E m \in Mailbox :
          /\ RemoveMailbox(m) /\ FeedWithout(m) /\ MediaWithout(m)
          /\ deleted' = deleted \cup {m}
          /\ UNCHANGED <<request, used>>
  /\ UNCHANGED page

Next ==
  \/ \E m \in Mailbox :
       \/ \E u \in Upload : AskIntent(m, u)
       \/ IntentAnswer(m) \/ PutBytes(m) \/ AskManifest(m) \/ ManifestAnswer(m)
       \/ (\E g \in Grant : AskGrant(m, g)) \/ GrantAnswer(m)
       \/ \E p \in Post, to \in SUBSET Mailbox, policy \in Policy : SubmitPost(m, p, to, policy)
       \/ StampPost(m) \/ PostAnswer(m) \/ Leave(m)
       \/ \E p \in Post, r \in Reply : SubmitReply(m, p, r)
       \/ ReplyStep(m)
  \/ \E g \in Grant : FetchImage(g)
  \/ Cleanup \/ AdvanceClock \/ ChangeDirectory

Spec == Init /\ [][Next]_vars

-----------------------------------------------------------------------------
(* Properties.                                                             *)

(* Every variable has its type, and the foreign keys hold.                 *)
TypeOK ==
  /\ \A p \in Post : posts[p] # None =>
       /\ posts[p].to \subseteq Mailbox \ {posts[p].author}
       /\ \A m \in {posts[p].author} \cup posts[p].to : Exists(m)
       /\ posts[p].policy \in Policy /\ posts[p].payload \in Payload
       /\ posts[p].expires \in Nat
  /\ \A r \in Reply : replies[r] # None =>
       /\ posts[replies[r].post] # None
       /\ Exists(replies[r].author) /\ Exists(replies[r].to)
       /\ replies[r].author # replies[r].to
  /\ \A u \in Upload :
       /\ intents[u] # None => Exists(intents[u].owner)
       /\ objects[u] # None => Exists(objects[u])
  /\ \A g \in Grant : grants[g] # None => objects[grants[g].object] = grants[g].owner
  /\ blobs \subseteq Upload /\ due \in [Grant -> Nat \cup {None}]
  /\ contacts \subseteq Mailbox \X Mailbox /\ status \in [Mailbox -> Status \cup {"absent", "bare"}]

(* A reply is listed to both of its ends, under its post, until it         *)
(* expires: the post it answers outlives it and is delivered to both,      *)
(* although post, deliveries and accounts may go between the reply's       *)
(* statements.  Only a mailbox deleted and registered again while its      *)
(* reply was being stored is left with a reply to a post it does not see.  *)
RepliesAreListed ==
  \A r \in Reply : LiveReply(r) =>
    \A m \in {replies[r].author, replies[r].to} : Visible(m, replies[r].post) \/ m \in deleted

(* The targets list_feed_posts offers a reader are the ones                *)
(* create_feed_reply accepts from it, whatever became of their accounts.   *)
OfferedIsAccepted ==
  \A m \in Mailbox, p \in Post : Visible(m, p) =>
    ReplyTargets(m, p) =
      {t \in Mailbox : MayReply(m, p) /\ MayAddress(m, p, posts[p].author, t)}

(* Whoever is shown a post can fetch its image until the grant expires, as *)
(* often as they like: no cleanup, deletion or abandoned flow takes it     *)
(* away before, and no post goes out with an image that is not there;      *)
(* except a post stored for an author deleted and registered again.        *)
ListedImageIsFetchable ==
  \A m \in Mailbox, p \in Post :
    LET g == IF Visible(m, p) THEN posts[p].payload ELSE None IN
    g # None /\ posts[p].author \notin deleted =>
      due[g] # None /\ (now < due[g] => Fetchable(g))
=============================================================================
