----------------------------- MODULE RelayMedia -----------------------------
(***************************************************************************)
(* The relay's media: upload intents, manifests and access grants, and the *)
(* object store they point into.  An upload names its intent, its object   *)
(* key and the object registered for it.  Sizes, hashes and media types    *)
(* are left out, and so are grants that delegate an upload.                *)
(***************************************************************************)
EXTENDS RelayDirectory

CONSTANTS Upload, Grant,
          IntentTtl    \* how long an upload intent and its presigned URL are good for

ASSUME IntentAssumption == IntentTtl \in Nat \ {0}

VARIABLES intents,     \* media_upload_intents: a row or None
          blobs,       \* the object keys under which bytes are stored
          objects,     \* media_objects: the owner, or None
          grants,      \* media_access_grants: a row or None
          call         \* a mailbox's request in progress

media == <<intents, blobs, objects, grants, call>>

Hangup == [at |-> "idle"]

MediaInit ==
  /\ intents = [u \in Upload |-> None]
  /\ blobs = {}
  /\ objects = [u \in Upload |-> None]
  /\ grants = [g \in Grant |-> None]
  /\ call = [m \in Mailbox |-> Hangup]

Return(m) == call' = [call EXCEPT ![m] = Hangup]

(* create_media_upload_intent: the time stamps and the presigned URL.      *)
IntentBegin(m, u) ==
  /\ call[m] = Hangup /\ Authenticates(m)
  /\ call' = [call EXCEPT ![m] = [at |-> "intent", upload |-> u, expires |-> now + IntentTtl]]
  /\ UNCHANGED <<directory, intents, blobs, objects, grants>>

(* Its INSERT; the mailbox must still be there.                            *)
IntentInsert(m) ==
  LET c == call[m] IN
  /\ c.at = "intent"
  /\ intents' = IF Exists(m)
                THEN [intents EXCEPT ![c.upload] = [owner |-> m, expires |-> c.expires]]
                ELSE intents
  /\ Return(m)
  /\ UNCHANGED <<directory, blobs, objects, grants>>

(* The presigned PUT: the object store knows nothing of the relay's rows.  *)
Put(u, until) ==
  /\ now < until
  /\ blobs' = blobs \cup {u}
  /\ UNCHANGED <<directory, intents, objects, grants, call>>

(* create_media_manifest: the SELECT of the active intent.                 *)
ManifestSelect(m, u) ==
  /\ call[m] = Hangup /\ Authenticates(m)
  /\ intents[u] # None /\ intents[u].owner = m /\ now < intents[u].expires
  /\ call' = [call EXCEPT ![m] = [at |-> "manifest", upload |-> u]]
  /\ UNCHANGED <<directory, intents, blobs, objects, grants>>

(* Its INSERT: the intent must not have been cleaned up meanwhile, and     *)
(* both its intent and its object key are unique.                          *)
ManifestInsert(m) ==
  LET u == call[m].upload IN
  /\ call[m].at = "manifest"
  /\ objects' = IF intents[u] # None /\ Exists(m) /\ objects[u] = None
                THEN [objects EXCEPT ![u] = m] ELSE objects
  /\ Return(m)
  /\ UNCHANGED <<directory, intents, blobs, grants>>

(* create_media_access_grant: the SELECT of the owner's object, a fresh    *)
(* token and the time stamps.                                              *)
GrantSelect(m, u, g, ttl) ==
  /\ call[m] = Hangup /\ Authenticates(m)
  /\ objects[u] = m /\ grants[g] = None
  /\ call' = [call EXCEPT ![m] =
       [at |-> "grant", upload |-> u, grant |-> g, expires |-> now + ttl]]
  /\ UNCHANGED <<directory, intents, blobs, objects, grants>>

(* Its INSERT and its foreign keys.                                        *)
GrantInsert(m) ==
  LET c == call[m] IN
  /\ c.at = "grant"
  /\ grants' = IF objects[c.upload] # None /\ Exists(m)
               THEN [grants EXCEPT ![c.grant] = [object |-> c.upload, owner |-> m,
                       expires |-> c.expires, redeemed |-> FALSE]]
               ELSE grants
  /\ Return(m)
  /\ UNCHANGED <<directory, intents, blobs, objects>>

(* lookup_media_access_grant, for whoever has the token.                   *)
Granted(g) == grants[g] # None /\ now < grants[g].expires

(* mark_media_access_grant_redeemed, on the way to the bytes: by the relay *)
(* or through a presigned URL.                                             *)
Redeem(g) ==
  /\ Granted(g)
  /\ grants' = [grants EXCEPT ![g].redeemed = TRUE]
  /\ UNCHANGED <<directory, intents, blobs, objects, call>>

(* The bytes of fetch_media_access_grant_content.                          *)
Fetchable(g) == Granted(g) /\ grants[g].object \in blobs

(* The request fails, or its client hangs up and it is dropped.            *)
MediaAbandon(m) ==
  /\ call[m] # Hangup
  /\ Return(m)
  /\ UNCHANGED <<directory, intents, blobs, objects, grants>>

(* Mutant: what was registered for an expired intent goes with it.          *)
CleanupIntentsCascade ==
  LET live == {u \in Upload : intents[u] # None /\ now < intents[u].expires} IN
  /\ intents' = [u \in Upload |-> IF u \in live THEN intents[u] ELSE None]
  /\ objects' = [u \in Upload |-> IF u \in live THEN objects[u] ELSE None]
  /\ grants' = [g \in Grant |->
       IF grants[g] # None /\ grants[g].object \in live THEN grants[g] ELSE None]
  /\ UNCHANGED <<directory, blobs, call>>

(* The cleanup statement for intents: an object outlives its intent (ON    *)
(* DELETE SET NULL).                                                       *)
CleanupIntents ==
  /\ intents' = [u \in Upload |->
       IF intents[u] # None /\ now < intents[u].expires THEN intents[u] ELSE None]
  /\ UNCHANGED <<directory, blobs, objects, grants, call>>

(* The cleanup statement for grants.                                       *)
CleanupGrants ==
  /\ grants' = [g \in Grant |-> IF Granted(g) THEN grants[g] ELSE None]
  /\ UNCHANGED <<directory, intents, blobs, objects, call>>

(* ON DELETE CASCADE: the rows of a mailbox; its bytes stay in the store.  *)
MediaWithout(m) ==
  /\ intents' = [u \in Upload |->
       IF intents[u] # None /\ intents[u].owner = m THEN None ELSE intents[u]]
  /\ objects' = [u \in Upload |-> IF objects[u] = m THEN None ELSE objects[u]]
  /\ grants' = [g \in Grant |->
       IF grants[g] # None /\ grants[g].owner = m THEN None ELSE grants[g]]
  /\ UNCHANGED <<blobs, call>>
=============================================================================
