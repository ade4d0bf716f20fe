--------------------------- MODULE RelayAccounts ---------------------------
(***************************************************************************)
(* The relay's mailboxes, accounts and contacts: registration, promotion   *)
(* to administrator, managed users, contacts.  No handler here opens a     *)
(* transaction: an action is one SQL statement, and between two statements *)
(* of a request those of others run, or the request is dropped.  A request *)
(* refused before it wrote anything is not a step.  Timestamps, codenames  *)
(* and the form of ids and tokens are left out; a token is stored as the   *)
(* hash of mailbox and token, so it opens no other mailbox.                *)
(***************************************************************************)
EXTENDS Naturals

CONSTANTS Mailbox, Token, Handler,
          None         \* no row, no owner

VARIABLES hash,        \* relay_mailboxes: the token whose hash a row holds, or None
          account,     \* relay_accounts: a row or None
          contacts,    \* relay_contacts: <<owner, contact>>
          request,     \* the requests in progress
          known,       \* history: the tokens a client chose or was told, <<mailbox, token>>
          deleted,     \* history: the mailboxes an administrator deleted
          interrupted  \* history: the mailboxes whose stored token was lost with a request

vars == <<hash, account, contacts, request, known, deleted, interrupted>>

Role == {"admin", "user"}
Status == {"provisioned", "active", "disabled"}
Account == [role : Role, status : Status, owner : Mailbox \cup {None}]

ASSUME NoneAssumption == None \notin Mailbox \cup Token \cup Account

Operation == {"create", "bootstrap", "provision", "reset", "delete", "contact",
              "profile", "remove"} \cup Status
Statement == {"insert", "upsert", "profile", "promote", "role", "account", "update",
              "select", "rotate", "demote", "answer", "delete", "ensure", "contact",
              "remove"}

\* by: the mailbox that authenticated; token: the one to store, or None.
Request == [op : Operation, at : Statement, target : Mailbox,
            token : Token \cup {None}, by : Mailbox]

Idle == [at |-> "idle"]

Init ==
  /\ hash = [m \in Mailbox |-> None]
  /\ account = [m \in Mailbox |-> None]
  /\ contacts = {}
  /\ request = [h \in Handler |-> Idle]
  /\ known = {} /\ deleted = {} /\ interrupted = {}

-----------------------------------------------------------------------------
(* What the statements read.                                               *)

(* The row names the token, and no account says disabled: a mailbox        *)
(* without an account counts as active.                                    *)
Authenticates(m, t) ==
  /\ hash[m] = t
  /\ account[m] # None => account[m].status # "disabled"

(* Mutant: the owner and the role are not in the WHERE clause.              *)
ManagesAnyone(a, m) == account[m] # None

(* WHERE owner_mailbox_id = admin AND role = 'user'.                       *)
Manages(a, m) ==
  account[m] # None /\ account[m].owner = a /\ account[m].role = "user"

(* random_token_bytes and Uuid::new_v4 repeat nothing.                     *)
FreshToken(t) ==
  /\ \A m \in Mailbox : hash[m] # t /\ <<m, t>> \notin known
  /\ \A h \in Handler : request[h] # Idle => request[h].token # t

FreshMailbox(m) ==
  /\ hash[m] = None /\ m \notin deleted
  /\ \A t \in Token : <<m, t>> \notin known
  /\ \A h \in Handler : request[h] # Idle => request[h].target # m

(* The ids a client may have heard of.                                     *)
Named(m) == account[m] # None \/ \E t \in Token : <<m, t>> \in known

-----------------------------------------------------------------------------
(* The steps of a request.                                                 *)

Begin(h, r) == request[h] = Idle /\ request' = [request EXCEPT ![h] = r]
Goto(h, s) == request' = [request EXCEPT ![h].at = s]
End(h) == request' = [request EXCEPT ![h] = Idle]

New(op, at, m, t, a) == [op |-> op, at |-> at, target |-> m, token |-> t, by |-> a]

(* A request dropped with a token that only it knew, once it is stored.    *)
Dropped(r) ==
  IF r.op \in {"provision", "reset"} /\ hash[r.target] = r.token
  THEN interrupted \cup {r.target} ELSE interrupted

(* An origin mailbox that authenticates, or None: the admin token.         *)
MayCreate(origin) == origin = None \/ (origin \in known /\ Authenticates(origin[1], origin[2]))

(* create_mailbox up to its INSERT or upsert: the SELECT, and the          *)
(* authorization when there is no row.                                     *)
CreateLookup(h, m, t) ==
  /\ <<m, t>> \in known \/ FreshToken(t)
  /\ \A g \in Handler : request[g] # Idle => ~(request[g].op = "provision" /\ request[g].target = m)
  /\ \/ hash[m] = t /\ Begin(h, New("create", "upsert", m, t, m))
     \/ /\ hash[m] = None /\ \E origin \in known \cup {None} : MayCreate(origin)
        /\ Begin(h, New("create", "insert", m, t, m))
  /\ known' = known \cup {<<m, t>>}
  /\ UNCHANGED <<hash, account, contacts, deleted, interrupted>>

(* admin_bootstrap_account up to its INSERT or lookup: the holder of the   *)
(* admin token; an existing mailbox must authenticate.                     *)
BootstrapLookup(h, m, t) ==
  /\ <<m, t>> \in known \/ FreshToken(t)
  /\ \A g \in Handler : request[g] # Idle => ~(request[g].op = "provision" /\ request[g].target = m)
  /\ \/ Authenticates(m, t) /\ Begin(h, New("bootstrap", "profile", m, t, m))
     \/ hash[m] = None /\ Begin(h, New("bootstrap", "insert", m, t, m))
  /\ known' = known \cup {<<m, t>>}
  /\ UNCHANGED <<hash, account, contacts, deleted, interrupted>>

(* The INSERT of a mailbox, in three handlers: the primary key refuses a   *)
(* second row.                                                             *)
InsertMailbox(h) ==
  LET r == request[h]
      next == CASE r.op = "create" -> "upsert" [] r.op = "bootstrap" -> "profile"
                [] OTHER -> "account"
  IN /\ r.at = "insert"
     /\ IF hash[r.target] = None
        THEN hash' = [hash EXCEPT ![r.target] = r.token] /\ Goto(h, next)
        ELSE End(h) /\ UNCHANGED hash
     /\ UNCHANGED <<account, contacts, known, deleted, interrupted>>

(* Mutant: the upsert also writes the role of a plain registration.         *)
UpsertedPlain(m) == [role |-> "user", status |-> "active", owner |-> None]

(* ON CONFLICT DO UPDATE keeps the role and the owner.                     *)
Upserted(m) ==
  IF account[m] = None THEN [role |-> "user", status |-> "active", owner |-> None]
  ELSE [account[m] EXCEPT !.status = "active"]

(* upsert_account_profile: the foreign key needs the mailbox.              *)
UpsertProfile(h) ==
  LET r == request[h] IN
  /\ r.at = "upsert"
  /\ account' = IF hash[r.target] = None THEN account
                ELSE [account EXCEPT ![r.target] = Upserted(r.target)]
  /\ IF r.op = "contact" /\ hash[r.target] # None THEN Goto(h, "contact") ELSE End(h)
  /\ UNCHANGED <<hash, contacts, known, deleted, interrupted>>

(* Mutant: managed users are promoted too.                                  *)
BootstrapAnyProfile(h) ==
  /\ request[h].at = "profile"
  /\ Goto(h, "promote")
  /\ UNCHANGED <<hash, account, contacts, known, deleted, interrupted>>

(* lookup_account_profile: a managed user is refused.                      *)
BootstrapProfile(h) ==
  LET m == request[h].target IN
  /\ request[h].at = "profile"
  /\ IF account[m] # None /\ account[m].role = "user" /\ account[m].owner # None
     THEN End(h) ELSE Goto(h, "promote")
  /\ UNCHANGED <<hash, account, contacts, known, deleted, interrupted>>

(* The upsert of admin_bootstrap_account.                                  *)
Promote(h) ==
  LET m == request[h].target IN
  /\ request[h].at = "promote"
  /\ account' = IF hash[m] = None THEN account ELSE
       [account EXCEPT ![m] = [role |-> "admin", status |-> "active", owner |-> None]]
  /\ End(h)
  /\ UNCHANGED <<hash, contacts, known, deleted, interrupted>>

-----------------------------------------------------------------------------
(* The administrator's requests.                                           *)

(* authenticate_mailbox of authenticate_admin, by a client with the admin  *)
(* token; the request asks for a new mailbox, or for one of its users.     *)
AdminBegin(h, c, op, m, t) ==
  /\ c \in known /\ Authenticates(c[1], c[2])
  /\ CASE op = "provision" -> FreshMailbox(m) /\ FreshToken(t)
       [] op = "reset" -> Named(m) /\ FreshToken(t)
       [] OTHER -> Named(m) /\ t = None
  /\ Begin(h, New(op, "role", m, t, c[1]))
  /\ UNCHANGED <<hash, account, contacts, known, deleted, interrupted>>

(* The second SELECT of authenticate_admin.                                *)
CheckRole(h) ==
  LET r == request[h]
      a == account[r.by]
  IN /\ r.at = "role"
     /\ IF a # None /\ a.role = "admin" /\ a.status = "active"
        THEN Goto(h, CASE r.op = "provision" -> "insert" [] r.op = "reset" -> "select"
                       [] r.op = "delete" -> "delete" [] OTHER -> "update")
        ELSE End(h)
     /\ UNCHANGED <<hash, account, contacts, known, deleted, interrupted>>

(* The second INSERT of admin_provision_mailbox: keys as above.            *)
InsertAccount(h) ==
  LET r == request[h] IN
  /\ r.at = "account"
  /\ IF hash[r.target] # None /\ account[r.target] = None /\ account[r.by] # None
     THEN /\ account' = [account EXCEPT ![r.target] =
               [role |-> "user", status |-> "provisioned", owner |-> r.by]]
          /\ Goto(h, "answer") /\ UNCHANGED interrupted
     ELSE End(h) /\ interrupted' = Dropped(r) /\ UNCHANGED account
  /\ UNCHANGED <<hash, contacts, known, deleted>>

(* The response with the token reaches the administrator.                  *)
Answer(h) ==
  LET r == request[h] IN
  /\ r.at = "answer"
  /\ known' = known \cup {<<r.target, r.token>>}
  /\ interrupted' = IF hash[r.target] = r.token THEN interrupted \ {r.target} ELSE interrupted
  /\ End(h)
  /\ UNCHANGED <<hash, account, contacts, deleted>>

(* admin_set_managed_user_status.                                          *)
UpdateStatus(h) ==
  LET r == request[h] IN
  /\ r.at = "update"
  /\ account' = IF Manages(r.by, r.target)
                THEN [account EXCEPT ![r.target].status = r.op] ELSE account
  /\ End(h)
  /\ UNCHANGED <<hash, contacts, known, deleted, interrupted>>

(* admin_reset_managed_user_access: its SELECT.                            *)
ResetSelect(h) ==
  LET r == request[h] IN
  /\ r.at = "select"
  /\ IF Manages(r.by, r.target) THEN Goto(h, "rotate") ELSE End(h)
  /\ UNCHANGED <<hash, account, contacts, known, deleted, interrupted>>

(* Mutant: the mailbox keeps a second token, drawn for the response.        *)
RotateOther(h) ==
  LET r == request[h] IN
  /\ r.at = "rotate"
  /\ \E t \in Token : FreshToken(t) /\ hash' = [hash EXCEPT ![r.target] = t]
  /\ Goto(h, "demote")
  /\ UNCHANGED <<account, contacts, known, deleted, interrupted>>

(* Its UPDATE of the token, by the mailbox id alone.                       *)
Rotate(h) ==
  LET r == request[h] IN
  /\ r.at = "rotate"
  /\ hash' = IF hash[r.target] = None THEN hash ELSE [hash EXCEPT ![r.target] = r.token]
  /\ Goto(h, "demote")
  /\ UNCHANGED <<account, contacts, known, deleted, interrupted>>

(* Its UPDATE of the account, by the mailbox id alone.                     *)
Demote(h) ==
  LET r == request[h] IN
  /\ r.at = "demote"
  /\ IF account[r.target] # None
     THEN /\ account' = [account EXCEPT ![r.target].status = "provisioned"]
          /\ Goto(h, "answer") /\ UNCHANGED interrupted
     ELSE End(h) /\ interrupted' = Dropped(r) /\ UNCHANGED account
  /\ UNCHANGED <<hash, contacts, known, deleted>>

(* Mutant: the account stays when the mailbox goes.                         *)
AccountsUnlinked(m) ==
  [n \in Mailbox |->
     IF account[n] # None /\ account[n].owner = m THEN [account[n] EXCEPT !.owner = None]
     ELSE account[n]]

(* ON DELETE CASCADE for the account of m, SET NULL for those it owned.    *)
AccountsWithout(m) ==
  [n \in Mailbox |->
     IF n = m THEN None
     ELSE IF account[n] # None /\ account[n].owner = m THEN [account[n] EXCEPT !.owner = None]
     ELSE account[n]]

(* admin_delete_managed_user.                                              *)
DeleteUser(h) ==
  LET m == request[h].target IN
  /\ request[h].at = "delete"
  /\ IF Manages(request[h].by, m)
     THEN /\ hash' = [hash EXCEPT ![m] = None]
          /\ account' = AccountsWithout(m)
          /\ contacts' = {c \in contacts : m \notin {c[1], c[2]}}
          /\ deleted' = deleted \cup {m} /\ interrupted' = interrupted \ {m}
     ELSE UNCHANGED <<hash, account, contacts, deleted, interrupted>>
  /\ End(h) /\ UNCHANGED known

-----------------------------------------------------------------------------
(* The client's own account and contacts.                                  *)

(* get_account_profile, upsert_contact and delete_contact authenticate; the *)
(* mailbox of a new contact exists.                                        *)
ClientBegin(h, c, op, m) ==
  /\ c \in known /\ Authenticates(c[1], c[2])
  /\ CASE op = "profile" -> m = c[1]
       [] op = "contact" -> m # c[1] /\ Named(m) /\ hash[m] # None
       [] op = "remove" -> <<c[1], m>> \in contacts
  /\ Begin(h, New(op, IF op = "remove" THEN op ELSE "ensure", m, None, c[1]))
  /\ UNCHANGED <<hash, account, contacts, known, deleted, interrupted>>

(* Mutant: no profile is made for a contact that has none.                  *)
EnsureNothing(h) ==
  LET r == request[h] IN
  /\ r.at = "ensure"
  /\ IF r.op = "contact" THEN Goto(h, "contact") ELSE Goto(h, "upsert")
  /\ UNCHANGED <<hash, account, contacts, known, deleted, interrupted>>

(* Mutant: the profile is written without looking for it.                   *)
EnsureAlways(h) ==
  /\ request[h].at = "ensure"
  /\ Goto(h, "upsert")
  /\ UNCHANGED <<hash, account, contacts, known, deleted, interrupted>>

(* The lookup of ensure_account_profile; its upsert follows when there is  *)
(* no account.                                                             *)
Ensure(h) ==
  LET r == request[h] IN
  /\ r.at = "ensure"
  /\ IF account[r.target] = None THEN Goto(h, "upsert")
     ELSE IF r.op = "contact" THEN Goto(h, "contact") ELSE End(h)
  /\ UNCHANGED <<hash, account, contacts, known, deleted, interrupted>>

(* The upsert of the contact: both mailboxes must exist.                   *)
InsertContact(h) ==
  LET r == request[h] IN
  /\ r.at = "contact"
  /\ contacts' = IF hash[r.by] # None /\ hash[r.target] # None
                 THEN contacts \cup {<<r.by, r.target>>} ELSE contacts
  /\ End(h)
  /\ UNCHANGED <<hash, account, known, deleted, interrupted>>

(* The DELETE of delete_contact.                                           *)
RemoveContact(h) ==
  LET r == request[h] IN
  /\ r.at = "remove"
  /\ contacts' = contacts \ {<<r.by, r.target>>}
  /\ End(h)
  /\ UNCHANGED <<hash, account, known, deleted, interrupted>>

(* The handler fails, or its client hangs up and it is dropped.            *)
Abandon(h) ==
  /\ request[h] # Idle
  /\ interrupted' = Dropped(request[h])
  /\ End(h)
  /\ UNCHANGED <<hash, account, contacts, known, deleted>>

Step(h) ==
  \/ InsertMailbox(h) \/ UpsertProfile(h) \/ BootstrapProfile(h) \/ Promote(h)
  \/ CheckRole(h) \/ InsertAccount(h) \/ Answer(h) \/ UpdateStatus(h) \/ ResetSelect(h)
  \/ Rotate(h) \/ Demote(h) \/ DeleteUser(h) \/ Ensure(h) \/ InsertContact(h)
  \/ RemoveContact(h) \/ Abandon(h)

Next ==
  \/ \E h \in Handler :
       \/ Step(h)
       \/ \E m \in Mailbox, t \in Token : CreateLookup(h, m, t) \/ BootstrapLookup(h, m, t)
       \/ \E c \in known, m \in Mailbox :
            \/ \E op \in {"provision", "reset"}, t \in Token : AdminBegin(h, c, op, m, t)
            \/ \E op \in Status \cup {"delete"} : AdminBegin(h, c, op, m, None)
            \/ \E op \in {"profile", "contact", "remove"} : ClientBegin(h, c, op, m)

Spec == Init /\ [][Next]_vars

-----------------------------------------------------------------------------
(* Properties.                                                             *)

(* Every variable has its type, and the foreign keys hold.                 *)
TypeOK ==
  /\ hash \in [Mailbox -> Token \cup {None}]
  /\ account \in [Mailbox -> Account \cup {None}]
  /\ \A m \in Mailbox : account[m] # None => hash[m] # None
  /\ contacts \subseteq Mailbox \X Mailbox
  /\ \A c \in contacts : c[1] # c[2] /\ hash[c[1]] # None /\ hash[c[2]] # None
  /\ request \in [Handler -> Request \cup {Idle}]
  /\ known \subseteq Mailbox \X Token
  /\ deleted \subseteq Mailbox /\ interrupted \subseteq Mailbox

(* A managed account is a user whose owner exists and is an administrator, *)
(* whatever registers, is promoted or is deleted meanwhile: the owner the  *)
(* admin handlers compare with can always act.                             *)
ManagedByAnAdmin ==
  \A m \in Mailbox :
    account[m] # None /\ account[m].owner # None =>
      /\ account[m].role = "user"
      /\ account[account[m].owner] # None
      /\ account[account[m].owner].role = "admin"

(* "Managed user mailboxes are not eligible for admin bootstrap, even if   *)
(* someone has the mailbox token": the lookup of admin_bootstrap_account   *)
(* is not stale when it promotes.                                          *)
ManagedNeverPromoted ==
  [][\A m \in Mailbox :
       account[m] # None /\ account[m].owner # None /\ account'[m] # None =>
         account'[m].role = "user" /\ account'[m].owner = account[m].owner]_vars

(* No mailbox is locked for good: someone knows the token that opens it,   *)
(* or a request that will tell it is under way, unless a provisioning or a *)
(* reset was cut off between its statements.                               *)
TokenIsKnown ==
  \A m \in Mailbox :
    \/ hash[m] = None \/ <<m, hash[m]>> \in known \/ m \in interrupted
    \/ \E h \in Handler : request[h] # Idle /\ request[h].target = m
                          /\ request[h].token = hash[m]

(* Nobody takes an administrator's rights: its account is active, unless   *)
(* the id belonged to a deleted user, whom a reset still in flight may be  *)
(* about to demote.                                                        *)
AdminsStayActive ==
  \A m \in Mailbox \ deleted :
    account[m] # None /\ account[m].role = "admin" => account[m].status = "active"

(* list_contacts joins the contact's account: every contact has one, so it *)
(* is listed, unless its mailbox was deleted and registered again while    *)
(* the contact was being added.                                            *)
ContactsAreListed ==
  \A c \in contacts : account[c[2]] # None \/ c[2] \in deleted

(* A disabled account comes back only by its administrator, or by a        *)
(* registration with its token (create_mailbox writes status active without *)
(* looking at what it was): adding it as a contact, reading its profile or *)
(* a promotion that looked before it was disabled never revives it.        *)
DisabledComesBackOnlyBy ==
  [][\A m \in Mailbox :
       /\ account[m] # None /\ account[m].status = "disabled"
       /\ account'[m] # None /\ account'[m].status # "disabled"
       => \E h \in Handler :
            /\ request[h] # Idle /\ request'[h] # request[h] /\ request[h].target = m
            /\ request[h].at \in {"update", "demote"} \/ request[h].op = "create"]_vars

(* What the handlers of content see of a mailbox.                          *)
StatusSeen == [m \in Mailbox |->
  IF hash[m] = None THEN "absent" ELSE IF account[m] = None THEN "bare" ELSE account[m].status]

Directory == INSTANCE RelayDirectory WITH now <- 1, MaxTime <- 1, status <- StatusSeen

(* These requests, interleaved and dropped between their statements,       *)
(* implement the directory that RelayFeed and RelayMedia are composed      *)
(* with: an account appears only with a mailbox that is there, and goes    *)
(* only with it and its contacts.                                          *)
ImplementsTheDirectory == Directory!DirectorySpec
=============================================================================
