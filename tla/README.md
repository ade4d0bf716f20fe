# A verification project for Simy

Simy is an end-to-end encrypted messenger: a Rust library of protocol code
(`crates/comm-core`), a relay server (`services/relay`: axum, Postgres, Redis),
a browser client served by the relay, a Tauri desktop and storage wrappers for
Android and iOS. This directory holds TLA+ models of its stateful core, TLC
runs over small instances of them, and TLAPS proofs for every instance.

    tlc -config DoubleRatchet.cfg DoubleRatchet      # a run: <run>.cfg, its module
    tlapm DoubleRatchet_proofs.tla                   # a proof module

## The system

| Part | State | Operations | Talks to |
|---|---|---|---|
| **Double Ratchet session** `comm-core/double_ratchet.rs` | root key, own key pair, peer's key, two chain keys, three counters, map of skipped keys | bootstrap (initiator, responder), `encrypt`, `decrypt`, `persist`, `from_persisted` | the peer, through envelopes; a session store |
| **Session stores** `ratchet_store_fs.rs`, Android `RatchetSessionStorage.kt`, iOS `RatchetSessionStorage.swift` | one file per session id, a temporary file | save, load, delete | the file system; keystore and keychain |
| **Desktop commands** `src-tauri/src/ratchet.rs` | the store behind a mutex | two bootstraps, encrypt, decrypt, status | the store; the UI |
| **Relay messages** `main.rs` | `relay_messages`, replay tokens in Redis | submit, list, delete, cleanup loop | Postgres, Redis, clients |
| **Relay rate limiter** `main.rs` `enforce_rate_limit` | a counter per namespace in Redis | INCR, EXPIRE | Redis |
| **Relay accounts** `main.rs` | mailboxes, accounts, contacts | create, bootstrap, provision, status, reset, delete, profile, contacts | Postgres |
| **Relay prekeys and devices** `main.rs` | bundles, one-time prekeys, device records | publish, fetch (takes one prekey), list, cleanup | Postgres |
| **Relay feed** `main.rs` | posts, their deliveries, replies | create, list, reply, cleanup | Postgres; the accounts |
| **Relay media** `main.rs` | upload intents, objects, access grants | create, manifest, grant, redeem, cleanup | Postgres, an object store; the accounts |
| **Browser client** `static/index.html` | contacts, messages and identity in local storage | poll (list, decrypt, delete, save), send, pair, post with an image | the relay |
| **X3DH, device records, padding, media encryption** `comm-core` | none | pure functions | the session, the prekeys |

First contact goes through a prekey bundle fetched from the relay; the handshake
seals an initial message, which its owner opens with the private keys it kept.
A message then goes from `encrypt` into an envelope, through `submit_message` into
`relay_messages`, is listed by the owner's poll, handed to `decrypt`, and
deleted. A session is loaded from its store before, and saved after, each step.
A post with an image is five requests of the page, one after another. Every
handler of the relay authenticates against the accounts, and all rows of a
mailbox go with it by foreign keys.

What is hard: both ends ratchet independently while the network loses, copies
and reorders; `decrypt` changes the session before it authenticates; a command
may die between the store's remove and rename, or between save and return;
`submit_message` has several awaits and may be dropped at each; tokens, rows
and counters expire under running handlers; Redis forgets. Most handlers of the
relay are several statements without a transaction: what one has read may be
gone when the next one writes, a request may be dropped between them, and the
cleanup loop and the cascades of a deleted mailbox run in between.

### What makes each part correct

* Session: no key is used twice, opened keys are gone, both ends hold the same
  roots, a session that was saved can be restored.
* Stores: the file is absent or a complete record, and the record last saved.
* Messages: an accepted message is kept and gets its turn; a replay token is
  good for one.
* Rate limiter: bursts are bounded, and only they are refused.
* Accounts: administrators stay, managed users have one and are never promoted,
  someone knows each mailbox's token.
* Prekeys: one initiator for a one-time prekey; both ends derive one secret.
* Feed and media: who sees a post sees its replies and can fetch its image.

## The modules

| Module | Models | Used by |
|---|---|---|
| `RatchetSession` | one session object as a value: `BootstrapInitiator`, `BootstrapResponder`, `Encrypt`, `Decrypt` and their parts map a session record to a session record | the next two |
| `DoubleRatchet` | two ends in memory and the network between them | |
| `MessageDelivery` | abstract: an end opens only what its peer sent, each message once | refined by `DoubleRatchet` |
| `SessionFileStore` | the three stores, one action per file system call | |
| `SessionStore` | abstract: the store its callers are promised | refined by `SessionFileStore` |
| `DesktopRatchet` | two desktops: session steps, store steps, crashes | |
| `RelayMessages` | submission through its awaits, retrieval, deletion, cleanup | |
| `RateLimiter` | `enforce_rate_limit` for one namespace | |
| `RelayAccounts` | the requests on mailboxes, accounts and contacts, statement by statement | |
| `RelayDirectory` | abstract: what other handlers see of accounts and contacts, and the clock | refined by `RelayAccounts`, extended by the next two |
| `RelayFeed` | posts with their deliveries, replies, what a listing shows | `FeedPosting` |
| `RelayMedia` | upload intents, stored bytes, objects, grants | `FeedPosting` |
| `FeedPosting` | feed, media, accounts, cleanup and the page's posting flow composed | |
| `X3DH` | the handshake: which keys enter the shared secret at either end | `Prekeys` |
| `Prekeys` | publication, fetch, cleanup of prekeys; device records; initial messages | |
| `RelayAccountsMC`, `PrekeysMC`, `FeedPostingMC` | their symmetry sets for TLC | |
| `*_proofs` | lemmas and theorems about the module before the underscore | |

Definitions called "Mutant" in their comment are bugs the code does not have.
Nothing uses them; put in place of the definition that follows, each breaks the
property it was written for, which shows that the property can fail.

### Correspondence

**RatchetSession.** Keys are symbolic: a key pair is its owner and a serial
number, a root key is the sequence of the Diffie-Hellman outputs mixed into it,
a chain key is its root and its position, a message key is the chain key it came
from. Two keys are equal exactly when their derivations are. A ciphertext opens
under the key it was sealed with and no other. The record's fields are the
struct's: `local`, `remote`, `sendCK`, `recvCK`, `prevLen`, `sent`, `recvd`,
`skipped`. The order of the code is kept: `skip_message_keys` takes the chain
key out before its loop and does not put it back when the map is full;
`decrypt` advances the chain and counts before it authenticates; a skipped key
leaves the map before it is tried; a step that fails keeps what it changed.
Counters are unbounded where the code has `u32`; associated data is assumed to
agree at both ends; empty plaintexts and malformed envelopes, which are refused
before anything changes, are left out.

**DoubleRatchet.** `session` is the object of each end, `channel[p]` what is
under way to `p` as positions in the peer's `log`. `Receive(p, i)` may pick any
position: the network reorders freely.

**SessionFileStore.** `path` and `tmp` are the two files of one session id.
`step`, `request` and `answer` follow each caller through the calls. Each call
may fail; `Crash` ends the process at any point and keeps the files. The
desktop calls the Rust store under a mutex; the Android store has no caller but
its instrumented test, which is sequential, so it too has one caller at a time;
iOS callers are concurrent. iOS's atomic write is one action, as Foundation
documents `.atomic`.

**DesktopRatchet.** Each command is `RatchetSession`'s step on the stored
session, then `RemoveOld`, `Rename`, `Return`; a crash, or a remove or rename
that fails, may end it before any of them. The application may present any message of the peer at any
time, again or never, so the network needs no variable. As it stands
`ratchet.rs` does not compile against `comm-core` (it reads fields of
`PreKeyBundle` and passes byte vectors where the library has structured types):
the model is the control flow it spells out, over the library's operations.

**RelayMessages.** Each await of `submit_message` ends an action: the mailbox
is looked up, the token reserved, the time taken, the row inserted, the client
answered. `Abandon` is a handler dropped at any of them: an error of Redis or
Postgres, a client that hangs up, a crash. One clock serves the relay, Postgres
and Redis. `CleanupMessages` is the message statement of the loop.

In `LiveSpec` the client deletes what it fetched, as the page does.

**RelayAccounts.** A request in progress is a record with the statement it is
`at`; one action is one SQL statement and one handler may have several. `Drop`
is a request cut off between two of them. `known` are the tokens a client chose
or was told, so `TokenIsKnown` can say that no mailbox is locked for good;
`interrupted` are the mailboxes whose new token was lost with a request that was
cut off after it had stored the token, `deleted` those an administrator deleted.
Refusals before the first write are not steps.

**RelayDirectory.** What feed and media read of the above: a mailbox is absent,
bare (without an account) or has its account's status. `RelayAccounts` is shown
to implement it, so composing feed and media with the abstract directory loses
no interleaving.

**Prekeys.** `publish_prekey_bundle` is one transaction; a fetch reads the bundle
(`FetchBundle`), updates the oldest unused one-time prekey that no open fetch has
locked (`FetchOneTime`, SKIP LOCKED), then commits or aborts. Oldest is not
modelled: any unused prekey may be taken. Publications are values in `sent` and
may be sent again. The owner's private keys are `kept` until it discards them,
and `MaxForgotten` bounds how often. `X3DH` derives with
symbolic keys: a Diffie-Hellman output is the set of its two keys.

**RelayFeed, RelayMedia.** A request is its statements: `PostCheck`, `PostStamp`,
`PostInsert`; `ReplyCheck`, `ReplyStamp`, `ReplyInsert`; `IntentBegin`,
`IntentInsert`; and so on. Each INSERT looks at the foreign keys again, as
Postgres does. A post and its deliveries are one row with a set `to`, because
one transaction writes them; deleting a mailbox takes it out of the sets. The
object store is `blobs`: keys under which bytes are, of which the relay's rows
know nothing.

**FeedPosting.** `draft` is where the page is in `createFeedMediaAsset` and
`postFeedEntry`; `due` remembers when a grant that was answered expires.
`Leave` is a failed request or a closed page. Readers fetch an image with the
grant of a post they see. Accounts change by the actions of `RelayDirectory`.
`ensure_account_profile` is one step here and two statements in
`RelayAccounts`.

**RateLimiter.** `Create` is the INCR that creates the counter, `Expire` the
second round trip and the decision, `Increment` both for a counter that exists.
`HangUp` is a handler that ends between the two round trips. `hits` and
`admitted` remember when requests were counted and admitted, `Total` counts those
of a set of instants. The names of the specification (`LimiterSpec`, `Elapse`,
`clock`) differ from those of `RelayMessages`, so that one proof module can hold
the theorems of both.

## The runs

| Run | Question | Expected |
|---|---|---|
| `DoubleRatchet` | Over a bad network: are keys used once, are opened keys gone, do the roots stay in lockstep, can every session be restored, is every refusal explained, is a message opened once? | holds |
| `DoubleRatchetReorder` | Does the window of skipped keys cover reordering, as the README says? | **fails** |
| `SessionFileStore` | Is the session file ever torn, are leftovers ever saved, is the abstract store implemented? | holds |
| `SessionFileStoreReplace` | Do the Rust and Android stores replace a record atomically, as their docs say? | **fails** |
| `DesktopRatchet` | Do the properties survive crashes, repeated bootstraps and repeated messages? | holds |
| `RelayMessages` | Is a replay token good for one live message, is what was accepted kept, does every message get its turn, is every dead row purged? | holds |
| `RelayMessagesRedis` | The same token property when Redis restarts | **fails** |
| `RateLimiter` | Is a burst bounded, is a refusal justified? | holds |
| `RateLimiterAbandoned` | The same when a handler ends between INCR and EXPIRE | **fails** |
| `RelayAccounts` | Two requests interleaved by statement and dropped anywhere: do managed users keep an administrator and stay users, are administrators active, tokens known, contacts listed, disabled accounts revived only by whom they may; is the directory implemented? | holds |
| `Prekeys` | Is a one-time prekey served once, kept until then, and never one of a replaced publication; is an initial message refused only when its keys are gone? | holds |
| `FeedPosting` | Are replies listed to both ends, are offered reply targets accepted, can the image of a listed post be fetched? | holds |

### What the failing runs show

* **Out-of-order delivery across chains.** `apply_remote_ratchet` sets
  `previous_chain_length` from `sent_messages` and zeroes the latter;
  `ensure_sending_chain` then overwrites the former with that zero. Every header
  says that the prior chain had length 0 (proved: `PriorChainLengthIsZero`), so
  the receiver puts no keys of the old chain aside when the new one begins, and
  a message overtaken by its sender's next chain is refused. Inside a chain the
  window works: `RejectsOnlyForAReason` lists the only other reasons for a first
  refusal.
* **Replacing a record.** Remove, then rename: a crash or a failed rename in
  between leaves no session. On iOS the write is one atomic step and replaces
  the record.
* **Replay tokens** live in a Redis that docker-compose starts without
  persistence.
* **Rate limit.** INCR and EXPIRE are two round trips; a counter whose EXPIRE
  was never sent refuses its mailbox for good.

### What the passing runs had to allow

Where the code does less than one might hope and no document promises more, the
property says so, with a history variable:

* `create_mailbox` with the right token writes status active over an account
  that was disabled (`DisabledComesBackOnlyBy` lists it). The README names
  disabling and re-enabling as the owning administrator's, and does not mention
  registration.
* A reset that races the deletion of its user and a new registration of the
  same id changes a mailbox it does not manage (`deleted`).
* A provisioning or reset cut off after it stored the new token leaves a mailbox
  whose token nobody knows (`interrupted`).
* A publication that arrives again after the cleanup dropped its consumed
  one-time prekeys offers them a second time (`restocked`).
* The grant of an image is made before its post and both get the same lifetime,
  so a post is listed a little longer than its image can be fetched:
  `ListedImageIsFetchable` speaks of the time until the grant expires.
* Media objects and their bytes are never deleted by the cleanup; objects go
  only with their mailbox, and the bytes not even then.

### Bounds, and why they are enough

* `DoubleRatchet`: three messages from each end, one loss, one copy, a window of
  one. Three messages make two chains in each direction with a gap inside one,
  and a window of one is full after one gap. What depends on the numbers is
  proved for all of them (below). `DoubleRatchetReorder` takes a window of three
  and no loss: reordering alone.
* `SessionFileStore`: two callers, two records; the files hold one record each.
* `DesktopRatchet`: two messages from each end, two initiations, two responses,
  a crash of each end: a repeated bootstrap between two messages and a crash in
  any command. Four key pairs for each end are more than these need.
* `RelayMessages`: one mailbox, two handlers, one token, two ids, lifetimes 1
  and 2, a page of one, a clock of four: a token expires and is reserved again
  while an earlier message or handler is there, and a second message waits
  behind the first. `MaxDelay` is how long a handler may take from reservation
  to stamp. That it is no longer than the margin is not enforced by the code: it
  is what the configuration is for, and `OneLiveMessagePerToken` needs it.
* `RelayAccounts`: two mailboxes, two requests at a time, three tokens: each
  hazard is a race of two requests over one mailbox, or over a user and its
  administrator, and a third token replaces one of two.
* `Prekeys`: two identities, two publications, two one-time prekeys, two
  strangers, lifetime 1, a clock of 2, one discarded secret: two fetches race
  over one prekey or straddle a publication, a bundle expires under a fetch, a
  publication comes again after the cleanup.
* `FeedPosting`: three mailboxes (an author, a recipient, one more), one post,
  reply, upload and grant, a post lifetime of 2, an intent's of 1, a clock of 3,
  two changes of accounts or contacts: a mailbox is deleted and registered again
  between two statements, an intent expires inside the flow.
* `RateLimiter`: a limit and a window of two, a clock of five, three requests an
  instant: two windows and a border between them. `MaxGap` is how long a handler
  may take from INCR to EXPIRE; the code has no such limit, so a refusal is
  measured against the window lengthened by it.

Deadlock is not checked where a bounded run stops by its bounds (all but the
stores' runs). Every safety, action and refinement property of the passing runs
is also proved, for every value of the constants.

### Fairness

Only `LiveSpec` of `RelayMessages` has it. `ListMessages` and `DeleteFetched` are weakly
fair because `index.html` polls every five seconds and deletes what a poll
returned, and an attempt that fails is made again by the next poll;
`CleanupMessages` because the loop runs on a ticker and goes on after an error.
Submissions and the clock have none: they may stop.

## The proofs

Constants stand for any two ends, any window, any number of messages, losses and
copies. The assumptions are `PartyAssumption` (two different ends),
`MaxSkippedAssumption` (a natural number) and `NoneAssumption` (no chain key is
`None`).

`RatchetSession_proofs` holds the lemmas on sessions that the next two use: the
type is kept, a session that can be restored stays so, chains only move forward,
and a step of `decrypt` either keeps the sending chain or drops it. `PutAside`
adds one key for every number it passes, which needs the cardinality of the map;
the key at which `skip_message_keys` stops exists because a non-empty set of
numbers has a least element. Three more groups: what a session can derive after
an operation it could derive before, or is new to it (`Forgets`); all its keys
stay within a set of roots that ratchet steps do not leave (`Within`); and
`DecryptEffect` and `DecryptOpens` say exactly what a successful `decrypt` leaves
behind and when it succeeds.

`DoubleRatchet_proofs`:

* `TypeCorrect`, `SessionsStayRestorable`. Neither is inductive alone:
  `WellTyped` joins them and adds that what is in transit was sent, without
  which `Receive` may open an envelope that does not exist.
* `KeysNeverReused`. The invariant `KeysAreFresh` adds to `WellTyped`:
  `KeysWereGenerated` (the keys in a session were generated by their owners, so
  the next key pair is new), `ChainsArePaired` (the last Diffie-Hellman output in
  a sending chain's root joins the chain's own key with a key of the peer),
  `ChainsNeverMeet` (the two ends never start chains from the same two keys),
  `ChainsAreCounted` (a chain key's age is its message number, and a sending
  chain is past every message sent on it) and `NumbersAreDistinct` (one ratchet
  key, one number, one message). A new chain takes a key pair nobody used, so
  the keys it starts from are new; on an old chain the number is new.
* `PriorChainLengthIsZero`. Inductive with: a session without a sending chain
  has sent nothing since.
* `OpenedKeysStayGone`, from `KeysAreConsumed`: the session cannot derive the key
  of an opened message and its root is at least as long as that key's, so no
  later chain, which starts from a longer root, brings the key back; and nothing
  was opened twice.
* `DeliveryImplemented`, the refinement of `MessageDelivery`, from the same: a
  receipt that opens a message is the abstract `Open`, all else is a stutter or
  the abstract `Send`.
* `RootsStayInLockstep`, from `Lockstep`: an end's root continues every root it
  sealed under (`RootsGrow`), so an old envelope starts nothing; and until an
  end refuses a message either the roots are the same, and some end holds a
  sending chain, or both hold one and one end is a single step ahead
  (`InStep`).
* `FirstRefusalHasAReason`, from `Understood`: all of the above, and `SentInOrder`
  (an end's messages are in the order of its ratchet keys and of the numbers in
  their chains, without a gap, and the chain it seals with goes on from them) and
  `Understanding`: until an end refuses a message, each session has put aside
  exactly the keys of the numbers that it passed and did not open (`KeepsCount`),
  its receiving chain is the one its peer seals with under that key (`Follows`),
  and one end leads by at most one ratchet step, whose root the other can compute
  (`Leads`). A message that is not opened, not overtaken and not too far behind
  is then in the map, in the chain or in the chain one step on, and what must be
  put aside on the way are distinct unopened messages before it, so it fits
  (`CountedOpens`). `Leads` is also why an old message cannot start a ratchet
  step: its root would be a prefix of one that the session has passed.

`DesktopRatchet_proofs`, in five parts:

* `TypeCorrect`, and which sessions an end has: the one on disk, the one about to
  be renamed into place (`Held`), and the one a running command leaves (`Saved`).
* `KeysNeverReused`. The invariant has the conjuncts of the one above, over every
  session an end holds, and `EnvelopesAreSaved`: what `encrypt` is about to return
  was sealed by a session that is saved first. That is the order of save and
  return in the commands, and what a crash between them may not undo.
* `PlaintextsReturnedOncePerBootstrap` and `ReturnedKeysLeaveTheDisk`, from
  `ReturnsAreCounted`: all keys of a session come from one bootstrap
  (`InOneConversation`), and a plaintext returned as often as it may be is closed
  to every session its end holds (`Closed`). A repeated bootstrap gives the
  responder one more return, and the initiator none, because it draws a new key.
* `StoredSessionsStayUsable`, from `EndsAgree`: one ratchet key of an end seals on
  one chain (`OneRootPerKey`); a session's receiving chain and skipped keys are
  those its peer seals with (`Agrees`), so the key a message needs is the one
  `decrypt` derives; and `NothingIsLost`: what the session has passed on its
  current chain it has put aside or opened and saved.
* `SignedPreKey` never seals (`PreKeySealsNothing`): the responder's bootstrap
  draws a new key first, without which the first chain would have two roots.

`SessionFileStore_proofs`: `NeverTorn`, `OnlySavedRecords`, and
`FilesImplementTheStore`, the refinement of `SessionStore`. The invariant adds to
the types `OneAtATime` (the desktop's mutex and the sequential Android caller:
two calls overlap only on iOS) and `TempIsTheRecord` (a complete temporary file
is the record of the save that will rename it). The assumption
`RequestAssumption` says that `None` is no request.

`RelayMessages_proofs`:

* `AcceptedAreKept`. `KeptInv` adds the handlers that stored a row and have not
  answered yet.
* `TokensAreUsedOnce`, assuming `MaxDelay <= Margin`. `TokensInv`: the
  reservation of every row, and of every handler past its reservation, lasts as
  long as the row will; and no two rows, no row and handler, and no two handlers
  hold a live reservation of one token.
* The rate limiter, from `LimiterInv`: some instant `c` begins the life of the
  counter (`CountsSince`): what was admitted since `c` is at most the count and the
  limit, what was counted since `c` is at least the count, a time to live ends a
  full window after `c` and at most `MaxGap` later, and at most the limit was
  admitted in the window before `c`, because the life before `c` lasted at least
  a window. `BurstsAreBounded` adds the two lives a window can meet. It holds also
  when handlers end between the round trips, as does `LimiterTyped`;
  `RefusalsAreOverTheLimit` needs, as the failing run shows, that they do not
  (`TimeToLiveComes`). Lemmas on `Total` take the place of sums: appending adds one
  or nothing, a set that is covered by two has at most both. `LimiterAssumption`:
  limit, delay and bounds are natural numbers, the window is not empty, `Never` is
  no number.

`RelayAccounts_proofs`:

* `TypeCorrect`, with the foreign keys. `Typed` joins to the types what a
  request at each of its statements holds.
* `OwnersAreAdmins` and `NeverPromoted`. `Inv` adds to `ManagedByAnAdmin`:
  `ProvisionedAlone` (nobody else knows the mailbox that is being provisioned),
  `AdminsAct` (an administrator cannot be deleted while it provisions) and
  `PromotesUnmanaged` (an account that a bootstrap found unmanaged still is when
  it promotes, because an account gets its owner only with its row).
* `ContactsListed`, inductive with `ContactsStayListed`: what an insert of a
  contact has checked holds until it writes.
* `AdminsActive`, from `AdminsStay`: a reset at one of the two UPDATEs that go by
  the mailbox id alone meets a managed account or one deleted since.
* `DisabledComesBack`, from `DisabledStays`: only managed accounts are disabled,
  and only unmanaged ones are at the statement that ensures a profile.
* `TokensAreKnown`, from `TokensKnown`: a token that the relay drew is held by
  its request alone, and stored nowhere before that request's own statement
  (`Secrets`).
* `ImplementsDirectory`: every statement is a step of `RelayDirectory` or leaves
  it as it was.

`Prekeys_proofs`:

* `TypeCorrect`: the signer of a device record, also of one under way, is an
  identity that was published.
* `RefusalsHaveAReason`. `Origins`: the bundle and what a fetch holds are of
  publications that were sent, a signed prekey names its publication, and each
  message was sealed with the public keys of one. Both ends then compute the
  same secret, whichever publication the one-time prekey is of.
* `ServedOnce`, `UnusedAreCurrent`, `PublishedAreKept`, from `OneTimes`: what an
  open fetch holds is unused and held by no other; what is consumed was served;
  what was served, and not restocked, is not unused.

`FeedPosting_proofs`, over all four modules it composes:

* `TypeCorrect`, with every foreign key. `MediaInv`: an upload is one mailbox's
  in its intent, request, flow and object, so the owner of a grant owns its
  object although the grant's two statements do not look twice.
* `Replies` and `Targets`, from `FeedInv`: an id that a posting request holds is
  nobody else's (`PostIds`), so a reply under way cannot meet another post under
  its id; what a reply request read of its post, its expiry and its author, stays
  true while the post is there (`RequestFits`); and its ends see the post or
  were deleted.
* `Images`, from `ImageInv`: each flow has its own grant, its upload is stored
  when it asks for the manifest, and whoever relies on an answered grant
  (`Claims`: a flow, a request under way, a post) has its promise (`Link`).
  `LinkStays` is the heart: no cleanup, other flow or deletion of another mailbox
  breaks a promise; `ClaimsStep` says that a claim is handed on or begins with an
  answer.
* `NoneAssumption`: `None` is no mailbox, time or row. `PageAssumption`: the page
  sends grants or nothing as payload.

Only model-checked: `EveryMessageIsFetched` and `EveryDeadRowIsPurged`, which are
liveness under fairness and out of the prover's reach; and what the failing runs
refute. Recursion appears in no proved module.

## The plan, and what is left of it

The first plan was: the ratchet, its stores and desktop commands, the relay's
messages and rate limiter; then prekeys with X3DH, accounts, feed and media;
then the proofs of each. All of it is done except:

1. `BrowserClient` over `RelayMessages`: overlapping polls, deletion before
   saving, reload. It needs a model of local storage and of the page's polling
   timer; no document states what a reload may lose.
2. That `DesktopRatchet`, with its files and crashes, implements an abstract
   delivery as `DoubleRatchet` does: a repeated bootstrap gives the responder a
   second return, so the abstract promise would have to count bootstraps.
3. Grants that delegate an upload, and device records with dates.

## Not modelled, and why

* Padding, chunking and media encryption: pure functions of byte strings with
  unit tests at their bounds; no state whose order of change matters.
* The browser's local storage, pairing, key handling and rendering (see the plan).
* Grants that delegate an upload; the lifetime of a presigned download URL,
  which is what is left of its grant's and at least one second.
* The dates of device records: an older record may replace a revocation, and
  nothing says it must not.
* The limits of listings other than messages; ids that a client uses twice.
* Cryptographic strength, key encodings, record encryption, HTTP and field
  validation, metrics, scripts, deployment: no state whose order of change
  matters, or another project's code.
