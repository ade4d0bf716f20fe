------------------------ MODULE RelayAccounts_proofs ------------------------
(***************************************************************************)
(* The relay's accounts, for every set of mailboxes, tokens and handlers:  *)
(* the rows keep their foreign keys, a managed user has an administrator   *)
(* and is never promoted, and the statements implement RelayDirectory.     *)
(***************************************************************************)
EXTENDS RelayAccounts, TLAPS

Busy(h) == request[h] # Idle

(* What a request holds at each of its statements.                         *)
StageOK(r) ==
  /\ r.op \in {"create", "bootstrap", "provision", "reset"} => r.token \in Token
  /\ r.op = "contact" => r.by # r.target
  /\ r.at = "insert" => r.op \in {"create", "bootstrap", "provision"}
  /\ r.at = "account" => r.op = "provision"
  /\ r.at \in {"select", "rotate", "demote"} => r.op = "reset"
  /\ r.at = "answer" => r.op \in {"provision", "reset"}
  /\ r.at = "role" => r.op \in {"provision", "reset", "delete"} \cup Status
  /\ r.at = "update" => r.op \in Status
  /\ r.at = "ensure" => r.op \in {"profile", "contact"}
  /\ r.at = "contact" => r.op = "contact"

StagesOK == \A h \in Handler : Busy(h) => StageOK(request[h])

(* A mailbox being provisioned is nobody else's business yet.              *)
Provisioning(h) == Busy(h) /\ request[h].op = "provision" /\ request[h].at # "answer"

Untouched(h, m) ==
  /\ account[m] = None
  /\ \A t \in Token : <<m, t>> \notin known
  /\ \A c \in contacts : c[2] # m
  /\ \A g \in Handler \ {h} : Busy(g) => request[g].target # m

ProvisionedAlone == \A h \in Handler : Provisioning(h) => Untouched(h, request[h].target)

IsAdmin(m) == account[m] # None /\ account[m].role = "admin"

(* An administrator cannot be deleted while it provisions.                 *)
AdminsAct ==
  \A h \in Handler : Provisioning(h) /\ request[h].at # "role" => IsAdmin(request[h].by)

(* What a bootstrap found is still so when it promotes.                    *)
PromotesUnmanaged ==
  \A h \in Handler :
    LET m == request[h].target IN
    Busy(h) /\ request[h].at = "promote" /\ account[m] # None => account[m].owner = None

Inv == ProvisionedAlone /\ AdminsAct /\ ManagedByAnAdmin /\ PromotesUnmanaged

-----------------------------------------------------------------------------
(* Requests: how a step leaves them typed.                                 *)

RequestsTyped == request \in [Handler -> Request \cup {Idle}] /\ StagesOK

LEMMA EndTyped ==
  ASSUME RequestsTyped, NEW h \in Handler, End(h)
  PROVE  RequestsTyped'
BY DEF RequestsTyped, StagesOK, Busy, End

LEMMA BeginTyped ==
  ASSUME RequestsTyped, NEW h \in Handler, NEW r \in Request, StageOK(r), Begin(h, r)
  PROVE  RequestsTyped'
BY DEF RequestsTyped, StagesOK, Busy, Begin

LEMMA GotoTyped ==
  ASSUME RequestsTyped, NEW h \in Handler, NEW s \in Statement, Goto(h, s), Busy(h),
         StageOK([request[h] EXCEPT !.at = s])
  PROVE  RequestsTyped'
<1>1. request[h] \in Request
  BY DEF RequestsTyped, Busy
<1>2. [request[h] EXCEPT !.at = s] \in Request
  BY <1>1 DEF Request
<1>3. request' = [request EXCEPT ![h] = [request[h] EXCEPT !.at = s]]
  BY DEF Goto
<1> HIDE DEF StageOK
<1> QED  BY <1>2, <1>3 DEF RequestsTyped, StagesOK, Busy

(* A request at a statement is not idle, and is a record.                  *)
LEMMA AtStatement ==
  ASSUME RequestsTyped, NEW h \in Handler, request[h].at \in Statement
  PROVE  Busy(h) /\ request[h] \in Request /\ StageOK(request[h])
<1>1. Busy(h)
  BY DEF Busy, Idle, Statement
<1> QED  BY <1>1 DEF RequestsTyped, StagesOK, Busy

(* The rows.                                                               *)
RowsTyped ==
  /\ hash \in [Mailbox -> Token \cup {None}]
  /\ account \in [Mailbox -> Account \cup {None}]
  /\ \A m \in Mailbox : account[m] # None => hash[m] # None
  /\ contacts \subseteq Mailbox \X Mailbox
  /\ \A c \in contacts : c[1] # c[2] /\ hash[c[1]] # None /\ hash[c[2]] # None

HistoryTyped ==
  known \subseteq Mailbox \X Token /\ deleted \subseteq Mailbox /\ interrupted \subseteq Mailbox

Typed == RowsTyped /\ HistoryTyped /\ RequestsTyped

LEMMA TypedImpliesTypeOK == Typed => TypeOK
BY DEF Typed, TypeOK, RowsTyped, HistoryTyped, RequestsTyped

LEMMA DroppedTyped ==
  ASSUME HistoryTyped, NEW r \in Request
  PROVE  Dropped(r) \subseteq Mailbox
BY DEF HistoryTyped, Dropped, Request

-----------------------------------------------------------------------------
(* Typed is inductive.                                                     *)

LEMMA TypedBegin ==
  ASSUME Typed, NEW h \in Handler
  PROVE  /\ \A m \in Mailbox, t \in Token :
                CreateLookup(h, m, t) \/ BootstrapLookup(h, m, t) => Typed'
         /\ \A c \in known, m \in Mailbox :
              /\ \A op \in {"provision", "reset"}, t \in Token : AdminBegin(h, c, op, m, t) => Typed'
              /\ \A op \in Status \cup {"delete"} : AdminBegin(h, c, op, m, None) => Typed'
              /\ \A op \in {"profile", "contact", "remove"} : ClientBegin(h, c, op, m) => Typed'
<1> USE DEF New
<1>0. RowsTyped /\ HistoryTyped /\ RequestsTyped
  BY DEF Typed
<1>1. ASSUME NEW m \in Mailbox, NEW t \in Token, CreateLookup(h, m, t) PROVE Typed'
  <2>1. \E at \in {"upsert", "insert"} : Begin(h, New("create", at, m, t, m))
    BY <1>1 DEF CreateLookup
  <2>2. RequestsTyped'
    BY <2>1, <1>0, BeginTyped DEF Request, Operation, Statement, Status, StageOK
  <2>3. RowsTyped' /\ HistoryTyped'
    BY <1>0, <1>1 DEF CreateLookup, RowsTyped, HistoryTyped
  <2> QED  BY <2>2, <2>3 DEF Typed
<1>2. ASSUME NEW m \in Mailbox, NEW t \in Token, BootstrapLookup(h, m, t) PROVE Typed'
  <2>1. \E at \in {"profile", "insert"} : Begin(h, New("bootstrap", at, m, t, m))
    BY <1>2 DEF BootstrapLookup
  <2>2. RequestsTyped'
    BY <2>1, <1>0, BeginTyped DEF Request, Operation, Statement, Status, StageOK
  <2>3. RowsTyped' /\ HistoryTyped'
    BY <1>0, <1>2 DEF BootstrapLookup, RowsTyped, HistoryTyped
  <2> QED  BY <2>2, <2>3 DEF Typed
<1>3. ASSUME NEW c \in known, NEW m \in Mailbox, NEW t \in Token \cup {None},
             NEW op \in {"provision", "reset"} \cup Status \cup {"delete"},
             op \in {"provision", "reset"} => t \in Token, AdminBegin(h, c, op, m, t)
      PROVE Typed'
  <2>1. Begin(h, New(op, "role", m, t, c[1])) /\ c[1] \in Mailbox
    BY <1>0, <1>3 DEF AdminBegin, HistoryTyped
  <2>2. RequestsTyped'
    BY <2>1, <1>0, <1>3, BeginTyped DEF Request, Operation, Statement, Status, StageOK
  <2>3. RowsTyped' /\ HistoryTyped'
    BY <1>0, <1>3 DEF AdminBegin, RowsTyped, HistoryTyped
  <2> QED  BY <2>2, <2>3 DEF Typed
<1>4. ASSUME NEW c \in known, NEW m \in Mailbox, NEW op \in {"profile", "contact", "remove"},
             ClientBegin(h, c, op, m)
      PROVE Typed'
  <2>1. PICK at \in {"remove", "ensure"} :
          /\ Begin(h, New(op, at, m, None, c[1]))
          /\ at = "ensure" => op \in {"profile", "contact"}
    BY <1>4 DEF ClientBegin
  <2>4. c[1] \in Mailbox /\ (op = "contact" => c[1] # m)
    BY <1>0, <1>4 DEF ClientBegin, HistoryTyped
  <2>5. New(op, at, m, None, c[1]) \in Request
    BY <2>4 DEF Request, Operation, Statement
  <2>6. StageOK(New(op, at, m, None, c[1]))
    BY <2>1, <2>4 DEF StageOK
  <2>2. RequestsTyped'
    BY <2>1, <2>5, <2>6, <1>0, BeginTyped
  <2>3. RowsTyped' /\ HistoryTyped'
    BY <1>0, <1>4 DEF ClientBegin, RowsTyped, HistoryTyped
  <2> QED  BY <2>2, <2>3 DEF Typed
<1> QED  BY <1>1, <1>2, <1>3, <1>4 DEF Status

LEMMA TypedMailbox ==
  ASSUME Typed, NEW h \in Handler,
         InsertMailbox(h) \/ UpsertProfile(h) \/ BootstrapProfile(h) \/ Promote(h)
  PROVE  Typed'
<1>0. RowsTyped /\ HistoryTyped /\ RequestsTyped
  BY DEF Typed
<1>a. Busy(h) /\ request[h] \in Request /\ StageOK(request[h])
  BY <1>0, AtStatement DEF InsertMailbox, UpsertProfile, BootstrapProfile, Promote, Statement
<1> DEFINE m == request[h].target
<1>b. m \in Mailbox /\ request[h].token \in Token \cup {None}
  BY <1>a DEF Request
<1>1. CASE InsertMailbox(h)
  <2>1. request[h].op \in {"create", "bootstrap", "provision"} /\ request[h].token \in Token
    BY <1>1, <1>a DEF InsertMailbox, StageOK
  <2>2. RequestsTyped'
    <3>1. CASE hash[m] # None
      BY <1>0, <1>1, <3>1, EndTyped DEF InsertMailbox
    <3>2. CASE hash[m] = None
      <4>1. PICK s \in Statement : /\ Goto(h, s)
                                   /\ s = "account" => request[h].op = "provision"
                                   /\ s \in {"upsert", "profile", "account"}
        BY <1>1, <3>2, <2>1 DEF InsertMailbox, Statement
      <4> QED  BY <4>1, <1>0, <1>a, GotoTyped DEF StageOK, Request
    <3> QED  BY <3>1, <3>2
  <2>3. RowsTyped' /\ HistoryTyped'
    BY <1>0, <1>1, <1>b, <2>1, NoneAssumption DEF InsertMailbox, RowsTyped, HistoryTyped
  <2> QED  BY <2>2, <2>3 DEF Typed
<1>2. CASE UpsertProfile(h)
  <2>2. RequestsTyped'
    <3>1. CASE End(h)
      BY <1>0, <3>1, EndTyped
    <3>2. CASE request[h].op = "contact" /\ Goto(h, "contact")
      BY <1>0, <1>a, <3>2, GotoTyped DEF StageOK, Request, Statement
    <3> QED  BY <3>1, <3>2, <1>2 DEF UpsertProfile
  <2>3. Upserted(m) \in Account
    BY <1>0, <1>b DEF Upserted, Account, Role, Status, RowsTyped
  <2>4. RowsTyped' /\ HistoryTyped'
    BY <1>0, <1>2, <1>b, <2>3 DEF UpsertProfile, RowsTyped, HistoryTyped
  <2> QED  BY <2>2, <2>4 DEF Typed
<1>3. CASE BootstrapProfile(h)
  <2>2. RequestsTyped'
    <3>1. CASE End(h)
      BY <1>0, <3>1, EndTyped
    <3>2. CASE Goto(h, "promote")
      BY <1>0, <1>a, <3>2, GotoTyped DEF StageOK, Request, Statement
    <3> QED  BY <3>1, <3>2, <1>3 DEF BootstrapProfile
  <2>3. RowsTyped' /\ HistoryTyped'
    BY <1>0, <1>3 DEF BootstrapProfile, RowsTyped, HistoryTyped
  <2> QED  BY <2>2, <2>3 DEF Typed
<1>4. CASE Promote(h)
  <2>1. [role |-> "admin", status |-> "active", owner |-> None] \in Account
    BY DEF Account, Role, Status
  <2>2. RequestsTyped'
    BY <1>0, <1>4, EndTyped DEF Promote
  <2>3. RowsTyped' /\ HistoryTyped'
    BY <1>0, <1>4, <1>b, <2>1 DEF Promote, RowsTyped, HistoryTyped
  <2> QED  BY <2>2, <2>3 DEF Typed
<1> QED  BY <1>1, <1>2, <1>3, <1>4

(* A demotion and a deletion leave accounts.                               *)
LEMMA AccountsStayTyped ==
  ASSUME RowsTyped, NEW m \in Mailbox
  PROVE  /\ AccountsWithout(m) \in [Mailbox -> Account \cup {None}]
         /\ \A n \in Mailbox : AccountsWithout(m)[n] # None => account[n] # None /\ n # m
         /\ \A s \in Status : account[m] # None =>
              [account EXCEPT ![m].status = s] \in [Mailbox -> Account \cup {None}]
<1>1. account \in [Mailbox -> Account \cup {None}]
  BY DEF RowsTyped
<1>2. ASSUME NEW n \in Mailbox PROVE AccountsWithout(m)[n] \in Account \cup {None}
  BY <1>1, <1>2 DEF AccountsWithout, Account
<1>3. ASSUME NEW n \in Mailbox, AccountsWithout(m)[n] # None PROVE account[n] # None /\ n # m
  BY <1>1, <1>3 DEF AccountsWithout
<1>4. ASSUME NEW s \in Status, account[m] # None PROVE [account[m] EXCEPT !.status = s] \in Account
  BY <1>1, <1>4 DEF Account
<1> QED  BY <1>1, <1>2, <1>3, <1>4 DEF AccountsWithout

LEMMA TypedAdmin ==
  ASSUME Typed, NEW h \in Handler,
         \/ CheckRole(h) \/ InsertAccount(h) \/ Answer(h) \/ UpdateStatus(h) \/ ResetSelect(h)
         \/ Rotate(h) \/ Demote(h) \/ DeleteUser(h)
  PROVE  Typed'
<1>0. RowsTyped /\ HistoryTyped /\ RequestsTyped
  BY DEF Typed
<1>a. Busy(h) /\ request[h] \in Request /\ StageOK(request[h])
  BY <1>0, AtStatement
     DEF CheckRole, InsertAccount, Answer, UpdateStatus, ResetSelect, Rotate, Demote, DeleteUser,
         Statement
<1>b. PICK m \in Mailbox :
      /\ m = request[h].target /\ request[h].by \in Mailbox
      /\ request[h].token \in Token \cup {None} /\ Dropped(request[h]) \subseteq Mailbox
  BY <1>0, <1>a, DroppedTyped DEF Request
<1>c. End(h) => RequestsTyped'
  BY <1>0, EndTyped
<1>1. CASE CheckRole(h)
  <2>1. ASSUME ~End(h) PROVE RequestsTyped'
    <3>1. PICK s \in {"insert", "select", "delete", "update"} :
            /\ Goto(h, s)
            /\ s = "insert" => request[h].op = "provision"
            /\ s = "select" => request[h].op = "reset"
            /\ s = "update" => request[h].op \in Status
      BY <1>1, <1>a, <2>1 DEF CheckRole, StageOK
    <3> QED  BY <3>1, <1>0, <1>a, GotoTyped DEF StageOK, Request, Statement
  <2>2. RequestsTyped'
    BY <1>c, <2>1
  <2>3. RowsTyped' /\ HistoryTyped'
    BY <1>0, <1>1 DEF CheckRole, RowsTyped, HistoryTyped
  <2> QED  BY <2>2, <2>3 DEF Typed
<1>2. CASE InsertAccount(h)
  <2>1. ASSUME Goto(h, "answer") PROVE RequestsTyped'
    BY <1>0, <1>2, <1>a, <2>1, GotoTyped DEF InsertAccount, StageOK, Request, Statement
  <2>2. RequestsTyped'
    BY <1>2, <1>c, <2>1 DEF InsertAccount
  <2>4. [role |-> "user", status |-> "provisioned", owner |-> request[h].by] \in Account
    BY <1>b DEF Account, Role, Status
  <2>3. RowsTyped' /\ HistoryTyped'
    BY <1>0, <1>2, <1>b, <2>4 DEF InsertAccount, RowsTyped, HistoryTyped
  <2> QED  BY <2>2, <2>3 DEF Typed
<1>3. CASE Answer(h)
  <2>1. request[h].token \in Token
    BY <1>3, <1>a DEF Answer, StageOK
  <2>2. RequestsTyped'
    BY <1>3, <1>c DEF Answer
  <2>3. RowsTyped' /\ HistoryTyped'
    BY <1>0, <1>3, <1>b, <2>1 DEF Answer, RowsTyped, HistoryTyped
  <2> QED  BY <2>2, <2>3 DEF Typed
<1>4. CASE UpdateStatus(h)
  <2>1. request[h].op \in Status
    BY <1>4, <1>a DEF UpdateStatus, StageOK
  <2>2. RequestsTyped'
    BY <1>4, <1>c DEF UpdateStatus
  <2>3. RowsTyped' /\ HistoryTyped'
    BY <1>0, <1>4, <1>b, <2>1, AccountsStayTyped DEF UpdateStatus, Manages, RowsTyped, HistoryTyped
  <2> QED  BY <2>2, <2>3 DEF Typed
<1>5. CASE ResetSelect(h)
  <2>1. ASSUME Goto(h, "rotate") PROVE RequestsTyped'
    BY <1>0, <1>5, <1>a, <2>1, GotoTyped DEF ResetSelect, StageOK, Request, Statement
  <2>2. RequestsTyped'
    BY <1>5, <1>c, <2>1 DEF ResetSelect
  <2>3. RowsTyped' /\ HistoryTyped'
    BY <1>0, <1>5 DEF ResetSelect, RowsTyped, HistoryTyped
  <2> QED  BY <2>2, <2>3 DEF Typed
<1>6. CASE Rotate(h)
  <2>1. request[h].op = "reset" /\ request[h].token \in Token
    BY <1>6, <1>a DEF Rotate, StageOK
  <2>2. RequestsTyped'
    BY <1>0, <1>6, <1>a, <2>1, GotoTyped DEF Rotate, StageOK, Request, Statement
  <2>3. RowsTyped' /\ HistoryTyped'
    BY <1>0, <1>6, <1>b, <2>1, NoneAssumption DEF Rotate, RowsTyped, HistoryTyped
  <2> QED  BY <2>2, <2>3 DEF Typed
<1>7. CASE Demote(h)
  <2>1. request[h].op = "reset" /\ (Goto(h, "answer") \/ End(h))
    BY <1>7, <1>a DEF Demote, StageOK
  <2>4. StageOK([request[h] EXCEPT !.at = "answer"])
    BY <1>a, <2>1 DEF StageOK, Request
  <2>2. RequestsTyped'
    BY <1>0, <1>a, <1>c, <2>1, <2>4, GotoTyped DEF Statement
  <2>5. ASSUME account[m] # None PROVE RowsTyped' /\ HistoryTyped'
    <3>1. account' = [account EXCEPT ![m].status = "provisioned"]
      BY <1>7, <1>b, <2>5 DEF Demote
    <3>2. account' \in [Mailbox -> Account \cup {None}]
      BY <1>0, <1>b, <2>5, <3>1, AccountsStayTyped DEF Status
    <3>3. \A n \in Mailbox : account'[n] # None => hash[n] # None
      BY <1>0, <1>b, <2>5, <3>1 DEF RowsTyped
    <3>4. UNCHANGED <<hash, contacts, known, deleted, interrupted>>
      BY <1>7, <1>b, <2>5 DEF Demote
    <3> QED  BY <3>2, <3>3, <3>4, <1>0 DEF RowsTyped, HistoryTyped
  <2>6. ASSUME account[m] = None PROVE RowsTyped' /\ HistoryTyped'
    BY <1>0, <1>7, <1>b, <2>6 DEF Demote, RowsTyped, HistoryTyped
  <2>3. RowsTyped' /\ HistoryTyped'
    BY <2>5, <2>6
  <2> QED  BY <2>2, <2>3 DEF Typed
<1>8. CASE DeleteUser(h)
  <2>2. RequestsTyped'
    BY <1>8, <1>c DEF DeleteUser
  <2>1. ASSUME Manages(request[h].by, m) PROVE RowsTyped' /\ HistoryTyped'
    <3>1. account' = AccountsWithout(m) /\ hash' = [hash EXCEPT ![m] = None]
      BY <1>8, <1>b, <2>1 DEF DeleteUser
    <3>2. account' \in [Mailbox -> Account \cup {None}]
      BY <3>1, <1>0, <1>b, AccountsStayTyped
    <3>3. \A n \in Mailbox : account'[n] # None => hash'[n] # None
      BY <3>1, <1>0, <1>b, AccountsStayTyped DEF RowsTyped
    <3>4. contacts' = {c \in contacts : m \notin {c[1], c[2]}}
      BY <1>8, <1>b, <2>1 DEF DeleteUser
    <3>5. ASSUME NEW c \in contacts'
          PROVE c[1] # c[2] /\ hash'[c[1]] # None /\ hash'[c[2]] # None
      <4>1. c \in contacts /\ c[1] # m /\ c[2] # m
        BY <3>4, <3>5
      <4> QED  BY <3>1, <4>1, <1>0 DEF RowsTyped
    <3>6. hash' \in [Mailbox -> Token \cup {None}] /\ contacts' \subseteq Mailbox \X Mailbox
      BY <3>1, <3>4, <1>0 DEF RowsTyped
    <3>7. HistoryTyped'
      BY <1>0, <1>8, <1>b, <2>1 DEF DeleteUser, HistoryTyped
    <3> QED  BY <3>2, <3>3, <3>5, <3>6, <3>7 DEF RowsTyped
  <2>4. ASSUME ~Manages(request[h].by, m) PROVE RowsTyped' /\ HistoryTyped'
    BY <1>0, <1>8, <1>b, <2>4 DEF DeleteUser, RowsTyped, HistoryTyped
  <2>3. RowsTyped' /\ HistoryTyped'
    BY <2>1, <2>4
  <2> QED  BY <2>2, <2>3 DEF Typed
<1> QED  BY <1>1, <1>2, <1>3, <1>4, <1>5, <1>6, <1>7, <1>8

LEMMA TypedClient ==
  ASSUME Typed, NEW h \in Handler,
         Ensure(h) \/ InsertContact(h) \/ RemoveContact(h) \/ Abandon(h)
  PROVE  Typed'
<1>0. RowsTyped /\ HistoryTyped /\ RequestsTyped
  BY DEF Typed
<1>a. Busy(h) /\ request[h] \in Request /\ StageOK(request[h])
  <2>1. CASE Abandon(h)
    BY <1>0, <2>1 DEF Abandon, RequestsTyped, StagesOK, Busy
  <2>2. CASE ~Abandon(h)
    BY <1>0, <2>2, AtStatement DEF Ensure, InsertContact, RemoveContact, Statement
  <2> QED  BY <2>1, <2>2
<1>b. /\ request[h].target \in Mailbox /\ request[h].by \in Mailbox
      /\ Dropped(request[h]) \subseteq Mailbox
  BY <1>0, <1>a, DroppedTyped DEF Request
<1>c. End(h) => RequestsTyped'
  BY <1>0, EndTyped
<1>1. CASE Ensure(h)
  <2>1. \/ Goto(h, "upsert") \/ End(h)
        \/ Goto(h, "contact") /\ request[h].op = "contact"
    BY <1>1 DEF Ensure
  <2>4. /\ StageOK([request[h] EXCEPT !.at = "upsert"])
        /\ request[h].op = "contact" => StageOK([request[h] EXCEPT !.at = "contact"])
    BY <1>a DEF StageOK, Request
  <2>2. RequestsTyped'
    BY <1>0, <1>a, <1>c, <2>1, <2>4, GotoTyped DEF Statement
  <2>3. RowsTyped' /\ HistoryTyped'
    BY <1>0, <1>1 DEF Ensure, RowsTyped, HistoryTyped
  <2> QED  BY <2>2, <2>3 DEF Typed
<1>2. CASE InsertContact(h)
  <2>1. request[h].by # request[h].target
    BY <1>2, <1>a DEF InsertContact, StageOK
  <2>2. RequestsTyped'
    BY <1>2, <1>c DEF InsertContact
  <2>3. RowsTyped' /\ HistoryTyped'
    BY <1>0, <1>2, <1>b, <2>1 DEF InsertContact, RowsTyped, HistoryTyped
  <2> QED  BY <2>2, <2>3 DEF Typed
<1>3. CASE RemoveContact(h)
  <2>2. RequestsTyped'
    BY <1>3, <1>c DEF RemoveContact
  <2>3. RowsTyped' /\ HistoryTyped'
    BY <1>0, <1>3 DEF RemoveContact, RowsTyped, HistoryTyped
  <2> QED  BY <2>2, <2>3 DEF Typed
<1>4. CASE Abandon(h)
  <2>2. RequestsTyped'
    BY <1>4, <1>c DEF Abandon
  <2>3. RowsTyped' /\ HistoryTyped'
    BY <1>0, <1>4, <1>b DEF Abandon, RowsTyped, HistoryTyped
  <2> QED  BY <2>2, <2>3 DEF Typed
<1> QED  BY <1>1, <1>2, <1>3, <1>4

LEMMA TypedInit == Init => Typed
BY DEF Init, Typed, RowsTyped, HistoryTyped, RequestsTyped, StagesOK, Busy

LEMMA TypedStep == Typed /\ [Next]_vars => Typed'
<1> SUFFICES ASSUME Typed, [Next]_vars PROVE Typed'
  OBVIOUS
<1>1. CASE UNCHANGED vars
  BY <1>1 DEF vars, Typed, RowsTyped, HistoryTyped, RequestsTyped, StagesOK, Busy
<1>2. ASSUME NEW h \in Handler, Step(h) PROVE Typed'
  BY <1>2, TypedMailbox, TypedAdmin, TypedClient DEF Step
<1> QED  BY <1>1, <1>2, TypedBegin DEF Next

(* Every variable has its type, and the foreign keys hold.                 *)
THEOREM TypeCorrect == Spec => []TypeOK
<1>1. Typed => TypeOK
  BY TypedImpliesTypeOK
<1> QED  BY TypedInit, TypedStep, <1>1, PTL DEF Spec

-----------------------------------------------------------------------------
(* What one statement of request g can do to the rows.                     *)

Local(g) ==
  LET m == request[g].target IN
  /\ Busy(g) /\ request[g] \in Request
  /\ \A h \in Handler \ {g} : request'[h] = request[h]
  /\ request'[g] = Idle \/ \E s \in Statement : request'[g] = [request[g] EXCEPT !.at = s]
  /\ \A n \in Mailbox \ {m} : account[n] = None => account'[n] = None
  /\ \A k \in known' : k \in known \/ k[1] = m
  /\ \A c \in contacts' : c \in contacts \/ c[2] = m

LEMMA StepLocal ==
  ASSUME Typed, NEW g \in Handler, Step(g)
  PROVE  Local(g)
<1>0. RowsTyped /\ HistoryTyped /\ RequestsTyped
  BY DEF Typed
<1>1. Busy(g) /\ request[g] \in Request
  <2>1. CASE Abandon(g)
    BY <1>0, <2>1 DEF Abandon, RequestsTyped, Busy
  <2>2. CASE ~Abandon(g)
    <3>1. request[g].at \in Statement
      BY <2>2 DEF Step, InsertMailbox, UpsertProfile, BootstrapProfile, Promote, CheckRole,
        InsertAccount, Answer, UpdateStatus, ResetSelect, Rotate, Demote, DeleteUser, Ensure,
        InsertContact, RemoveContact, Statement
    <3> QED  BY <1>0, <3>1, AtStatement
  <2> QED  BY <2>1, <2>2
<1>2. PICK m \in Mailbox : m = request[g].target
  BY <1>1 DEF Request
<1>3. End(g) \/ \E s \in Statement : Goto(g, s)
  <2>1. CASE InsertMailbox(g) \/ UpsertProfile(g) \/ BootstrapProfile(g) \/ Promote(g) \/ Ensure(g)
    BY <2>1 DEF InsertMailbox, UpsertProfile, BootstrapProfile, Promote, Ensure, Statement
  <2>2. CASE InsertAccount(g) \/ Answer(g) \/ UpdateStatus(g) \/ ResetSelect(g)
    BY <2>2 DEF InsertAccount, Answer, UpdateStatus, ResetSelect, Statement
  <2>3. CASE CheckRole(g)
    BY <2>3 DEF CheckRole, Statement
  <2>4. CASE Rotate(g) \/ Demote(g) \/ DeleteUser(g)
    BY <2>4 DEF Rotate, Demote, DeleteUser, Statement
  <2>5. CASE InsertContact(g) \/ RemoveContact(g) \/ Abandon(g)
    BY <2>5 DEF InsertContact, RemoveContact, Abandon
  <2> QED  BY <2>1, <2>2, <2>3, <2>4, <2>5 DEF Step
<1>4. /\ \A h \in Handler \ {g} : request'[h] = request[h]
      /\ request'[g] = Idle \/ \E s \in Statement : request'[g] = [request[g] EXCEPT !.at = s]
  BY <1>0, <1>3 DEF End, Goto, RequestsTyped
<1>5. \A n \in Mailbox \ {m} : account[n] = None => account'[n] = None
  <2>1. CASE UpsertProfile(g) \/ Promote(g) \/ InsertAccount(g) \/ UpdateStatus(g) \/ Demote(g)
    BY <1>0, <1>2, <2>1
       DEF UpsertProfile, Promote, InsertAccount, UpdateStatus, Demote, RowsTyped
  <2>2. CASE DeleteUser(g)
    BY <1>0, <1>2, <2>2 DEF DeleteUser, AccountsWithout, RowsTyped
  <2>3. CASE UNCHANGED account
    BY <2>3
  <2> QED  BY <2>1, <2>2, <2>3 DEF Step, InsertMailbox, BootstrapProfile, CheckRole, Answer,
             ResetSelect, Rotate, Ensure, InsertContact, RemoveContact, Abandon
<1>6. \A k \in known' : k \in known \/ k[1] = m
  <2>1. CASE Answer(g)
    BY <1>2, <2>1 DEF Answer
  <2>2. CASE UNCHANGED known
    BY <2>2
  <2> QED  BY <2>1, <2>2 DEF Step, InsertMailbox, UpsertProfile, BootstrapProfile, Promote,
             CheckRole, InsertAccount, UpdateStatus, ResetSelect, Rotate, Demote, DeleteUser,
             Ensure, InsertContact, RemoveContact, Abandon
<1>7. \A c \in contacts' : c \in contacts \/ c[2] = m
  <2>1. CASE InsertContact(g) \/ RemoveContact(g) \/ DeleteUser(g)
    BY <1>2, <2>1 DEF InsertContact, RemoveContact, DeleteUser
  <2>2. CASE UNCHANGED contacts
    BY <2>2
  <2> QED  BY <2>1, <2>2 DEF Step, InsertMailbox, UpsertProfile, BootstrapProfile, Promote,
             CheckRole, InsertAccount, Answer, UpdateStatus, ResetSelect, Rotate, Demote,
             Ensure, Abandon
<1> QED  BY <1>1, <1>2, <1>4, <1>5, <1>6, <1>7 DEF Local

(* An administrator stays one: only users are deleted.                     *)
LEMMA StepKeepsAdmins ==
  ASSUME Typed, NEW g \in Handler, Step(g), NEW n \in Mailbox, IsAdmin(n)
  PROVE  IsAdmin(n)'
<1>0. RowsTyped
  BY DEF Typed
<1>1. PICK m \in Mailbox : m = request[g].target
  BY StepLocal DEF Local, Request
<1>2. account[n] \in Account /\ account[n].role = "admin" /\ account[n] # None
  BY <1>0 DEF IsAdmin, RowsTyped
<1>3. account'[n] \in Account /\ account'[n].role = "admin" => IsAdmin(n)'
  BY NoneAssumption DEF IsAdmin
<1>4. CASE UpsertProfile(g)
  <2>1. Upserted(n) \in Account /\ Upserted(n).role = "admin"
    BY <1>2 DEF Upserted, Account, Status
  <2> QED  BY <1>0, <1>1, <1>2, <1>3, <1>4, <2>1 DEF UpsertProfile, RowsTyped
<1>5. CASE Promote(g)
  <2>1. [role |-> "admin", status |-> "active", owner |-> None] \in Account
    BY DEF Account, Role, Status
  <2> QED  BY <1>0, <1>1, <1>2, <1>3, <1>5, <2>1 DEF Promote, RowsTyped
<1>6. CASE InsertAccount(g)
  BY <1>0, <1>1, <1>2, <1>3, <1>6 DEF InsertAccount, RowsTyped
<1>7. CASE UpdateStatus(g)
  BY <1>0, <1>1, <1>2, <1>3, <1>7 DEF UpdateStatus, Manages, RowsTyped
<1>8. CASE Demote(g)
  <2>1. [account[n] EXCEPT !.status = "provisioned"] \in Account
    BY <1>2 DEF Account, Status
  <2>2. [account[n] EXCEPT !.status = "provisioned"].role = "admin"
    BY <1>2 DEF Account
  <2>3. account'[n] \in {account[n], [account[n] EXCEPT !.status = "provisioned"]}
    BY <1>0, <1>8 DEF Demote, RowsTyped
  <2> QED  BY <1>2, <1>3, <2>1, <2>2, <2>3
<1>9. CASE DeleteUser(g)
  <2>1. CASE Manages(request[g].by, m)
    <3>1. n # m
      BY <1>2, <2>1 DEF Manages
    <3>2. [account[n] EXCEPT !.owner = None] \in Account
      BY <1>2 DEF Account
    <3>3. account'[n] \in {account[n], [account[n] EXCEPT !.owner = None]}
      BY <1>1, <1>9, <2>1, <3>1 DEF DeleteUser, AccountsWithout
    <3>4. [account[n] EXCEPT !.owner = None].role = "admin"
      BY <1>2 DEF Account
    <3> QED  BY <1>2, <1>3, <3>2, <3>3, <3>4
  <2>2. CASE ~Manages(request[g].by, m)
    BY <1>1, <1>2, <1>3, <1>9, <2>2 DEF DeleteUser
  <2> QED  BY <2>1, <2>2
<1>10. CASE UNCHANGED account
  BY <1>2, <1>3, <1>10
<1> QED  BY <1>4, <1>5, <1>6, <1>7, <1>8, <1>9, <1>10 DEF Step, InsertMailbox, BootstrapProfile,
           CheckRole, Answer, ResetSelect, Rotate, Ensure, InsertContact, RemoveContact, Abandon

(* An owner is set by a provisioning only, and otherwise kept or cleared.  *)
Owned(n) == account[n] # None /\ account[n].owner # None

LEMMA StepOwnership ==
  ASSUME Typed, NEW g \in Handler, Step(g), NEW n \in Mailbox, Owned(n)'
  PROVE  \/ /\ Owned(n) /\ account'[n].owner = account[n].owner
            /\ account'[n].role = account[n].role
         \/ /\ request[g].at = "account" /\ n = request[g].target
            /\ account'[n].owner = request[g].by /\ account'[n].role = "user"
<1>0. RowsTyped
  BY DEF Typed
<1>1. PICK m \in Mailbox : m = request[g].target
  BY StepLocal DEF Local, Request
<1>2. account[n] \in Account \cup {None} /\ account'[n] # None /\ account'[n].owner # None
  BY <1>0 DEF Owned, RowsTyped
<1>3. (account[n] # None /\ \E s \in Status : account'[n] = [account[n] EXCEPT !.status = s])
         => /\ Owned(n) /\ account'[n].owner = account[n].owner
            /\ account'[n].role = account[n].role
  BY <1>2 DEF Owned, Account
<1>4. CASE UpsertProfile(g)
  <2>1. CASE account'[n] = account[n]
    BY <1>2, <2>1 DEF Owned
  <2>2. CASE n = m /\ account'[n] = Upserted(n)
    BY <1>2, <1>3, <2>2 DEF Upserted, Status
  <2> QED  BY <1>0, <1>1, <1>4, <2>1, <2>2 DEF UpsertProfile, RowsTyped
<1>5. CASE Promote(g)
  <2>1. CASE account'[n] = account[n]
    BY <1>2, <2>1 DEF Owned
  <2>2. CASE account'[n] = [role |-> "admin", status |-> "active", owner |-> None]
    BY <1>2, <2>2
  <2> QED  BY <1>0, <1>1, <1>5, <2>1, <2>2 DEF Promote, RowsTyped
<1>6. CASE InsertAccount(g)
  <2>1. CASE account'[n] = account[n]
    BY <1>2, <2>1 DEF Owned
  <2>2. CASE /\ n = m
             /\ account'[n] = [role |-> "user", status |-> "provisioned", owner |-> request[g].by]
    BY <1>1, <1>6, <2>2 DEF InsertAccount
  <2> QED  BY <1>0, <1>1, <1>6, <2>1, <2>2 DEF InsertAccount, RowsTyped
<1>7. CASE UpdateStatus(g) \/ Demote(g)
  <2>1. CASE account'[n] = account[n]
    BY <1>2, <2>1 DEF Owned
  <2>3. request[g].op \in Status \/ Demote(g)
    BY <1>7, AtStatement DEF Typed, UpdateStatus, StageOK, Statement
  <2>2. account'[n] = account[n] \/ \E s \in Status :
          account[n] # None /\ account'[n] = [account[n] EXCEPT !.status = s]
    <3>1. CASE UpdateStatus(g) /\ request[g].op \in Status
      BY <1>0, <1>1, <3>1 DEF UpdateStatus, Manages, RowsTyped
    <3>2. CASE Demote(g)
      BY <1>0, <1>1, <3>2 DEF Demote, RowsTyped, Status
    <3> QED  BY <1>7, <2>3, <3>1, <3>2
  <2> QED  BY <1>3, <2>1, <2>2
<1>8. CASE DeleteUser(g)
  <2>1. account'[n] \in {account[n], None} \/ account'[n] = [account[n] EXCEPT !.owner = None]
    BY <1>1, <1>8 DEF DeleteUser, AccountsWithout
  <2>2. account'[n] = [account[n] EXCEPT !.owner = None] /\ account[n] # None => FALSE
    BY <1>2 DEF Account
  <2>3. account[n] = None => account'[n] = None
    BY <1>0, <1>1, <1>8 DEF DeleteUser, AccountsWithout, RowsTyped
  <2> QED  BY <1>2, <2>1, <2>2, <2>3 DEF Owned
<1>9. CASE UNCHANGED account
  BY <1>2, <1>9 DEF Owned
<1> QED  BY <1>4, <1>5, <1>6, <1>7, <1>8, <1>9 DEF Step, InsertMailbox, BootstrapProfile,
           CheckRole, Answer, ResetSelect, Rotate, Ensure, InsertContact, RemoveContact, Abandon

(* A provisioning that goes on, and a promotion that comes.                *)
LEMMA StepStages ==
  ASSUME Typed, NEW g \in Handler, Step(g)
  PROVE  /\ Provisioning(g)' => /\ Provisioning(g) /\ UNCHANGED <<account, known, contacts>>
                                /\ request[g].at = "role" => IsAdmin(request[g].by)
         /\ Busy(g)' /\ request'[g].at = "promote" => BootstrapProfile(g) /\ ~End(g)
<1>1. /\ Busy(g) /\ request[g] \in Request /\ StageOK(request[g])
      /\ request \in [Handler -> Request \cup {Idle}]
  BY StepLocal DEF Local, Typed, RequestsTyped, StagesOK
<1>2. End(g) => ~Busy(g)'
  BY <1>1 DEF End, Busy
<1>3. \A s \in Statement : Goto(g, s) =>
        request'[g].op = request[g].op /\ request'[g].at = s /\ request'[g].by = request[g].by
  BY <1>1 DEF Goto, Request
<1>4. CASE InsertMailbox(g)
  <2>1. End(g) \/ \E s \in {"upsert", "profile", "account"} : Goto(g, s)
    BY <1>4 DEF InsertMailbox
  <2> QED  BY <1>1, <1>2, <1>3, <1>4, <2>1 DEF InsertMailbox, Provisioning, Busy, Statement
<1>5. CASE CheckRole(g)
  <2>1. End(g) \/ /\ IsAdmin(request[g].by)
                  /\ \E s \in {"insert", "select", "delete", "update"} : Goto(g, s)
    BY <1>5 DEF CheckRole, IsAdmin
  <2> QED  BY <1>1, <1>2, <1>3, <1>5, <2>1 DEF CheckRole, Provisioning, Busy, Statement
<1>6. CASE BootstrapProfile(g)
  <2>1. End(g) \/ Goto(g, "promote")
    BY <1>6 DEF BootstrapProfile
  <2> QED  BY <1>1, <1>2, <1>3, <1>6, <2>1
           DEF BootstrapProfile, Provisioning, StageOK, Busy, Statement
<1>7. CASE InsertAccount(g)
  BY <1>1, <1>2, <1>3, <1>7 DEF InsertAccount, Provisioning, Statement
<1>8. CASE ResetSelect(g) \/ Rotate(g) \/ Demote(g)
  <2>1. request[g].op = "reset" /\ (End(g) \/ \E s \in {"rotate", "demote", "answer"} : Goto(g, s))
    BY <1>1, <1>8 DEF ResetSelect, Rotate, Demote, StageOK
  <2> QED  BY <1>2, <1>3, <2>1 DEF Provisioning, Statement
<1>9. CASE Ensure(g)
  <2>1. /\ request[g].op \in {"profile", "contact"}
        /\ End(g) \/ \E s \in {"upsert", "contact"} : Goto(g, s)
    BY <1>1, <1>9 DEF Ensure, StageOK
  <2> QED  BY <1>2, <1>3, <2>1 DEF Provisioning, Statement
<1>10. CASE UpsertProfile(g)
  <2>1. End(g) \/ (request[g].op = "contact" /\ Goto(g, "contact"))
    BY <1>10 DEF UpsertProfile
  <2> QED  BY <1>2, <1>3, <2>1 DEF Provisioning, Statement
<1>11. CASE End(g)
  BY <1>2, <1>11 DEF Provisioning, Busy
<1> QED  BY <1>4, <1>5, <1>6, <1>7, <1>8, <1>9, <1>10, <1>11 DEF Step, Promote, Answer,
           UpdateStatus, DeleteUser, InsertContact, RemoveContact, Abandon

-----------------------------------------------------------------------------
(* The invariant.                                                          *)

LEMMA AccountStage ==
  ASSUME Typed, Inv, NEW g \in Handler, Busy(g), request[g].at = "account"
  PROVE  IsAdmin(request[g].by) /\ Untouched(g, request[g].target)
<1>1. Provisioning(g)
  BY DEF Typed, RequestsTyped, StagesOK, StageOK, Provisioning
<1> QED  BY <1>1 DEF Inv, AdminsAct, ProvisionedAlone

LEMMA StepInv ==
  ASSUME Typed, Inv, NEW g \in Handler, Step(g)
  PROVE  Inv'
<1>1. /\ Local(g) /\ Busy(g) /\ request[g] \in Request
      /\ request \in [Handler -> Request \cup {Idle}] /\ RowsTyped
  BY StepLocal DEF Local, Typed, RequestsTyped
<1>2. \A h \in Handler : Busy(h)' => /\ Busy(h) /\ request'[h].target = request[h].target
                                    /\ request'[h].op = request[h].op
                                    /\ request'[h].by = request[h].by
                                    /\ request[h].target \in Mailbox /\ request[h].by \in Mailbox
  BY <1>1 DEF Local, Busy, Request
<1>3. \A h \in Handler \ {g} : request'[h] = request[h]
  BY <1>1 DEF Local
<1>4. ProvisionedAlone'
  <2> SUFFICES ASSUME NEW h \in Handler, Provisioning(h)'
               PROVE  Untouched(h, request[h].target)'
    BY <1>2 DEF ProvisionedAlone, Provisioning
  <2>1. CASE h = g
    <3>1. Provisioning(g) /\ UNCHANGED <<account, known, contacts>>
      BY <2>1, StepStages
    <3>2. Untouched(g, request[g].target)
      BY <3>1 DEF Inv, ProvisionedAlone
    <3> QED  BY <1>2, <1>3, <2>1, <3>1, <3>2 DEF Untouched, Busy, Provisioning
  <2>2. CASE h # g
    <3>1. Provisioning(h) /\ Untouched(h, request[h].target)
      BY <1>3, <2>2 DEF Inv, ProvisionedAlone, Provisioning, Busy
    <3>2. request[g].target # request[h].target
      BY <1>1, <2>2, <3>1 DEF Untouched
    <3>3. request[h].target \in Mailbox
      BY <1>2 DEF Provisioning
    <3>4. request'[h].target = request[h].target
      BY <1>3, <2>2
    <3> QED  BY <1>1, <1>2, <1>3, <3>1, <3>2, <3>3, <3>4 DEF Untouched, Local
  <2> QED  BY <2>1, <2>2
<1>5. AdminsAct'
  <2> SUFFICES ASSUME NEW h \in Handler, Provisioning(h)', request'[h].at # "role"
               PROVE  IsAdmin(request[h].by)'
    BY <1>2 DEF AdminsAct, Provisioning
  <2>1. IsAdmin(request[h].by)
    <3>1. CASE h = g
      BY <3>1, StepStages DEF Inv, AdminsAct
    <3>2. CASE h # g
      BY <1>3, <3>2 DEF Inv, AdminsAct, Provisioning, Busy
    <3> QED  BY <3>1, <3>2
  <2>2. request[h].by \in Mailbox /\ request'[h].by = request[h].by
    BY <1>2 DEF Provisioning
  <2> QED  BY <2>1, <2>2, StepKeepsAdmins DEF IsAdmin
<1>6. request[g].at = "account" => IsAdmin(request[g].by) /\ Untouched(g, request[g].target)
  BY <1>1, AccountStage
<1>7. ManagedByAnAdmin'
  <2> SUFFICES ASSUME NEW n \in Mailbox, Owned(n)'
               PROVE  account'[n].role = "user" /\ IsAdmin(account[n].owner)'
    BY DEF ManagedByAnAdmin, Owned, IsAdmin
  <2>1. PICK a \in Mailbox : /\ account'[n].owner = a /\ IsAdmin(a)
                             /\ account'[n].role = "user"
    <3>1. CASE Owned(n) /\ account'[n].owner = account[n].owner /\ account'[n].role = account[n].role
      BY <1>1, <3>1 DEF Inv, ManagedByAnAdmin, Owned, IsAdmin, RowsTyped, Account
    <3>2. CASE /\ request[g].at = "account" /\ account'[n].owner = request[g].by
               /\ account'[n].role = "user"
      BY <1>1, <1>6, <3>2 DEF Request
    <3> QED  BY <3>1, <3>2, StepOwnership
  <2>2. IsAdmin(a)'
    BY <2>1, StepKeepsAdmins
  <2> QED  BY <2>1, <2>2 DEF IsAdmin
<1>8. PromotesUnmanaged'
  <2> SUFFICES ASSUME NEW h \in Handler, Busy(h)', request'[h].at = "promote",
                      Owned(request[h].target)'
               PROVE  FALSE
    BY <1>2 DEF PromotesUnmanaged, Owned
  <2>1. request[h].target \in Mailbox /\ request'[h].target = request[h].target
    BY <1>2
  <2> DEFINE n == request[h].target
  <2>2. CASE h = g
    <3>1. BootstrapProfile(g) /\ ~End(g)
      BY <2>2, StepStages
    <3>2. UNCHANGED account /\ ~(account[n] # None /\ account[n].role = "user" /\ account[n].owner # None)
      BY <2>2, <3>1 DEF BootstrapProfile
    <3> QED  BY <2>1, <3>2 DEF Inv, ManagedByAnAdmin, Owned
  <2>3. CASE h # g
    <3>1. ~Owned(n) /\ Busy(h)
      BY <1>2, <1>3, <2>3 DEF Inv, PromotesUnmanaged, Owned
    <3>2. request[g].at = "account" => request[g].target # n
      BY <1>6, <2>3, <3>1 DEF Untouched
    <3>3. Owned(n)'
      BY <2>1 DEF Owned
    <3> HIDE DEF n
    <3> QED  BY <2>1, <3>1, <3>2, <3>3, StepOwnership DEF n
  <2> QED  BY <2>2, <2>3
<1> QED  BY <1>4, <1>5, <1>7, <1>8 DEF Inv

LEMMA BeginInv ==
  ASSUME Typed, Inv, NEW g \in Handler, NEW r \in Request, Begin(g, r),
         UNCHANGED <<account, contacts>>,
         r.op = "provision" => r.at = "role" /\ FreshMailbox(r.target) /\ UNCHANGED known,
         r.at # "promote",
         \A h \in Handler : Provisioning(h) => request[h].target # r.target,
         \A k \in known' : k \in known \/ k[1] = r.target
  PROVE  Inv'
<1>1. /\ request \in [Handler -> Request \cup {Idle}] /\ RowsTyped /\ HistoryTyped
      /\ request[g] = Idle /\ request'[g] = r
      /\ \A h \in Handler \ {g} : request'[h] = request[h]
  BY DEF Typed, RequestsTyped, Begin
<1>2. ProvisionedAlone'
  <2> SUFFICES ASSUME NEW h \in Handler, Provisioning(h)'
               PROVE  Untouched(h, request[h].target)'
    BY DEF ProvisionedAlone
  <2>1. CASE h = g
    <3>1. r.target \in Mailbox /\ FreshMailbox(r.target) /\ UNCHANGED known
      BY <1>1, <2>1 DEF Provisioning, Request
    <3>2. account[r.target] = None /\ \A c \in contacts : c[2] # r.target
      BY <1>1, <3>1 DEF FreshMailbox, RowsTyped
    <3> QED  BY <1>1, <2>1, <3>1, <3>2 DEF Untouched, FreshMailbox, Busy
  <2>2. CASE h # g
    <3>1. Provisioning(h) /\ Untouched(h, request[h].target) /\ request[h].target # r.target
      BY <1>1, <2>2 DEF Inv, ProvisionedAlone, Provisioning, Busy
    <3> QED  BY <1>1, <2>2, <3>1 DEF Untouched, Busy
  <2> QED  BY <2>1, <2>2
<1>3. AdminsAct' /\ PromotesUnmanaged'
  BY <1>1 DEF Inv, AdminsAct, PromotesUnmanaged, Provisioning, Busy, IsAdmin
<1>4. ManagedByAnAdmin'
  BY DEF Inv, ManagedByAnAdmin
<1> QED  BY <1>2, <1>3, <1>4 DEF Inv

(* Nobody has heard of a mailbox that is being provisioned.                *)
LEMMA UnknownWhileProvisioned ==
  ASSUME Typed, Inv, NEW m \in Mailbox,
         Named(m) \/ \E c \in contacts : c[2] = m
  PROVE  \A h \in Handler : Provisioning(h) => request[h].target # m
BY DEF Inv, ProvisionedAlone, Untouched, Named

LEMMA InvStep == Typed /\ Inv /\ [Next]_vars => Inv'
<1> SUFFICES ASSUME Typed, Inv, [Next]_vars PROVE Inv'
  OBVIOUS
<1> USE DEF New
<1>0. \A c \in known : c[1] \in Mailbox
  BY DEF Typed, HistoryTyped
<1>1. CASE UNCHANGED vars
  BY <1>1 DEF vars, Inv, ProvisionedAlone, AdminsAct, ManagedByAnAdmin, PromotesUnmanaged,
              Provisioning, Untouched, Busy, IsAdmin
<1>2. ASSUME NEW h \in Handler, Step(h) PROVE Inv'
  BY <1>2, StepInv
<1>3. ASSUME NEW h \in Handler, NEW m \in Mailbox, NEW t \in Token,
             CreateLookup(h, m, t) \/ BootstrapLookup(h, m, t)
      PROVE  Inv'
  <2>1. PICK op \in {"create", "bootstrap"}, at \in {"upsert", "insert", "profile"} :
          Begin(h, New(op, at, m, t, m))
    BY <1>3 DEF CreateLookup, BootstrapLookup
  <2>2. New(op, at, m, t, m) \in Request
    BY DEF Request, Operation, Statement
  <2>3. /\ UNCHANGED <<account, contacts>>
        /\ known' = known \cup {<<m, t>>}
        /\ \A g \in Handler : Provisioning(g) => request[g].target # m
    BY <1>3 DEF CreateLookup, BootstrapLookup, Provisioning, Busy
  <2> QED  BY <2>1, <2>2, <2>3, BeginInv
<1>4. ASSUME NEW h \in Handler, NEW c \in known, NEW m \in Mailbox, NEW t \in Token \cup {None},
             NEW op \in {"provision", "reset", "delete"} \cup Status, AdminBegin(h, c, op, m, t)
      PROVE  Inv'
  <2>1. /\ Begin(h, New(op, "role", m, t, c[1])) /\ UNCHANGED <<account, contacts, known>>
        /\ op = "provision" => FreshMailbox(m)
        /\ op # "provision" => Named(m)
    BY <1>4 DEF AdminBegin
  <2>2. New(op, "role", m, t, c[1]) \in Request
    BY <1>0 DEF Request, Operation, Statement
  <2>3. \A g \in Handler : Provisioning(g) => request[g].target # m
    BY <2>1, UnknownWhileProvisioned DEF FreshMailbox, Provisioning, Busy
  <2> QED  BY <2>1, <2>2, <2>3, BeginInv
<1>5. ASSUME NEW h \in Handler, NEW c \in known, NEW m \in Mailbox,
             NEW op \in {"profile", "contact", "remove"}, ClientBegin(h, c, op, m)
      PROVE  Inv'
  <2>1. PICK at \in {"remove", "ensure"} :
          Begin(h, New(op, at, m, None, c[1])) /\ UNCHANGED <<account, contacts, known>>
    BY <1>5 DEF ClientBegin
  <2>2. New(op, at, m, None, c[1]) \in Request
    BY <1>0 DEF Request, Operation, Statement
  <2>4. \/ m = c[1] \/ Named(m) \/ <<c[1], m>> \in contacts
    BY <1>5 DEF ClientBegin
  <2>3. \A g \in Handler : Provisioning(g) => request[g].target # m
    <3>1. CASE m = c[1]
      <4>1. Named(m)
        BY <3>1 DEF Typed, HistoryTyped, Named
      <4> QED  BY <4>1, UnknownWhileProvisioned
    <3>2. CASE Named(m)
      BY <3>2, UnknownWhileProvisioned
    <3>3. CASE <<c[1], m>> \in contacts
      <4>1. \E d \in contacts : d[2] = m
        BY <3>3
      <4> QED  BY <4>1, UnknownWhileProvisioned
    <3> QED  BY <2>4, <3>1, <3>2, <3>3
  <2> QED  BY <2>1, <2>2, <2>3, BeginInv
<1>6. Next => \E h \in Handler :
        \/ Step(h)
        \/ \E m \in Mailbox, t \in Token : CreateLookup(h, m, t) \/ BootstrapLookup(h, m, t)
        \/ \E c \in known, m \in Mailbox :
             \/ \E op \in {"provision", "reset", "delete"} \cup Status, t \in Token \cup {None} :
                  AdminBegin(h, c, op, m, t)
             \/ \E op \in {"profile", "contact", "remove"} : ClientBegin(h, c, op, m)
  BY DEF Next
<1> QED  BY <1>1, <1>2, <1>3, <1>4, <1>5, <1>6

LEMMA InvInit == Init => Inv
BY DEF Init, Inv, ProvisionedAlone, AdminsAct, ManagedByAnAdmin, PromotesUnmanaged,
       Provisioning, Busy

(* A managed account is a user whose owner exists and is an administrator. *)
THEOREM OwnersAreAdmins == Spec => []ManagedByAnAdmin
<1>1. Inv => ManagedByAnAdmin
  BY DEF Inv
<1> QED  BY TypedInit, TypedStep, InvInit, InvStep, <1>1, PTL DEF Spec

(* The same step never takes a managed user from its administrator.        *)
LEMMA NeverPromotedStep ==
  ASSUME Typed, Inv, NEW g \in Handler, Step(g), NEW n \in Mailbox, Owned(n), account'[n] # None
  PROVE  account'[n].role = "user" /\ account'[n].owner = account[n].owner
<1>0. RowsTyped
  BY DEF Typed
<1>1. PICK m \in Mailbox : m = request[g].target
  BY StepLocal DEF Local, Request
<1>2. account[n] \in Account /\ account[n].role = "user" /\ account[n] # None
  BY <1>0 DEF Owned, RowsTyped, Inv, ManagedByAnAdmin
<1>3. Busy(g)
  BY StepLocal DEF Local
<1>4. ASSUME account'[n] = account[n] PROVE Owned(n)'
  BY <1>4 DEF Owned
<1>5. ASSUME NEW s \in Status, account'[n] = [account[n] EXCEPT !.status = s] PROVE Owned(n)'
  BY <1>2, <1>5 DEF Owned, Account
<1>6. Owned(n)'
  <2>1. CASE UpsertProfile(g)
    BY <1>0, <1>1, <1>2, <1>4, <1>5, <2>1 DEF UpsertProfile, Upserted, Status, RowsTyped
  <2>2. CASE Promote(g)
    <3>1. n # m
      BY <1>1, <1>3, <2>2 DEF Promote, Inv, PromotesUnmanaged, Owned
    <3> QED  BY <1>0, <1>1, <1>4, <2>2, <3>1 DEF Promote, RowsTyped
  <2>3. CASE InsertAccount(g)
    BY <1>0, <1>1, <1>2, <1>4, <2>3 DEF InsertAccount, RowsTyped
  <2>4. CASE UpdateStatus(g)
    <3>1. request[g].op \in Status
      BY <2>4, AtStatement DEF Typed, UpdateStatus, StageOK, Statement
    <3> QED  BY <1>0, <1>1, <1>4, <1>5, <2>4, <3>1 DEF UpdateStatus, RowsTyped
  <2>5. CASE Demote(g)
    BY <1>0, <1>1, <1>4, <1>5, <2>5 DEF Demote, Status, RowsTyped
  <2>6. CASE DeleteUser(g)
    <3>1. CASE Manages(request[g].by, m)
      <4>1. account[n].owner # m
        BY <3>1 DEF Manages, Inv, ManagedByAnAdmin, Owned
      <4> QED  BY <1>1, <1>4, <2>6, <3>1, <4>1 DEF DeleteUser, AccountsWithout
    <3> QED  BY <1>1, <1>4, <2>6, <3>1 DEF DeleteUser
  <2>7. CASE UNCHANGED account
    BY <1>4, <2>7
  <2> QED  BY <2>1, <2>2, <2>3, <2>4, <2>5, <2>6, <2>7 DEF Step, InsertMailbox, BootstrapProfile,
     CheckRole, Answer, ResetSelect, Rotate, Ensure, InsertContact, RemoveContact, Abandon
<1>7. ~(request[g].at = "account" /\ n = request[g].target)
  BY <1>2, <1>3, AccountStage DEF Untouched
<1> QED  BY <1>2, <1>6, <1>7, StepOwnership

(* A managed user keeps its role and its owner as long as its account      *)
(* exists: whatever a bootstrap looked up before, it never promotes one.   *)
THEOREM NeverPromoted == Spec => ManagedNeverPromoted
<1>1. Typed /\ Inv /\ [Next]_vars =>
        [\A m \in Mailbox :
           account[m] # None /\ account[m].owner # None /\ account'[m] # None =>
             account'[m].role = "user" /\ account'[m].owner = account[m].owner]_vars
  <2> SUFFICES ASSUME Typed, Inv, Next, NEW m \in Mailbox, Owned(m), account'[m] # None
               PROVE  account'[m].role = "user" /\ account'[m].owner = account[m].owner
    BY DEF Owned
  <2>1. ASSUME NEW h \in Handler, Step(h)
        PROVE  account'[m].role = "user" /\ account'[m].owner = account[m].owner
    BY <2>1, NeverPromotedStep
  <2>2. CASE UNCHANGED account
    BY <2>2 DEF Inv, ManagedByAnAdmin, Owned
  <2>3. \A h \in Handler, m1 \in Mailbox, t \in Token :
          CreateLookup(h, m1, t) \/ BootstrapLookup(h, m1, t) => UNCHANGED account
    BY DEF CreateLookup, BootstrapLookup
  <2>4. \A h, c, op, m1, t : AdminBegin(h, c, op, m1, t) => UNCHANGED account
    BY DEF AdminBegin
  <2>5. \A h, c, op, m1 : ClientBegin(h, c, op, m1) => UNCHANGED account
    BY DEF ClientBegin
  <2> QED  BY <2>1, <2>2, <2>3, <2>4, <2>5 DEF Next
<1> QED  BY TypedInit, TypedStep, InvInit, InvStep, <1>1, PTL DEF Spec, ManagedNeverPromoted

-----------------------------------------------------------------------------
(* Where a statement leads, and what the other requests see of it.         *)

(* The statement that made request g go on to the one it is at now.        *)
LEMMA StepLeads ==
  ASSUME Typed, NEW g \in Handler, Step(g), Busy(g)'
  PROVE  LET r == request[g]
             s == request'[g].at
         IN /\ s = "contact" => \/ UpsertProfile(g) /\ hash[r.target] # None
                                \/ Ensure(g) /\ account[r.target] # None
            /\ s = "upsert" => \/ InsertMailbox(g) /\ r.op = "create"
                               \/ Ensure(g) /\ account[r.target] = None
            /\ s = "rotate" => ResetSelect(g) /\ Manages(r.by, r.target)
            /\ s = "demote" => Rotate(g)
            /\ s = "account" => InsertMailbox(g) /\ hash[r.target] = None
            /\ s \in {"insert", "select"} => CheckRole(g)
            /\ s = "answer" => InsertAccount(g) \/ Demote(g)
<1>1. /\ Busy(g) /\ request[g] \in Request /\ StageOK(request[g])
      /\ request \in [Handler -> Request \cup {Idle}]
  BY StepLocal DEF Local, Typed, RequestsTyped, StagesOK
<1>2. ~End(g)
  BY <1>1 DEF End, Busy
<1>3. \A s \in Statement : Goto(g, s) => request'[g].at = s
  BY <1>1 DEF Goto, Request
<1>4. CASE InsertMailbox(g)
  <2>1. /\ hash[request[g].target] = None
        /\ \E s \in {"upsert", "profile", "account"} :
             Goto(g, s) /\ (s = "upsert" => request[g].op = "create")
    BY <1>1, <1>2, <1>4 DEF InsertMailbox, StageOK
  <2> QED  BY <1>3, <1>4, <2>1 DEF Statement
<1>5. CASE UpsertProfile(g)
  <2>1. hash[request[g].target] # None /\ Goto(g, "contact")
    BY <1>2, <1>5 DEF UpsertProfile
  <2> QED  BY <1>3, <1>5, <2>1 DEF Statement
<1>6. CASE BootstrapProfile(g)
  <2>1. Goto(g, "promote")
    BY <1>2, <1>6 DEF BootstrapProfile
  <2> QED  BY <1>3, <2>1 DEF Statement
<1>7. CASE CheckRole(g)
  <2>1. \E s \in {"insert", "select", "delete", "update"} : Goto(g, s)
    BY <1>2, <1>7 DEF CheckRole
  <2> QED  BY <1>3, <1>7, <2>1 DEF Statement
<1>8. CASE InsertAccount(g) \/ Demote(g)
  <2>1. Goto(g, "answer")
    BY <1>2, <1>8 DEF InsertAccount, Demote
  <2> QED  BY <1>3, <1>8, <2>1 DEF Statement
<1>9. CASE ResetSelect(g)
  <2>1. Goto(g, "rotate") /\ Manages(request[g].by, request[g].target)
    BY <1>2, <1>9 DEF ResetSelect
  <2> QED  BY <1>3, <1>9, <2>1 DEF Statement
<1>10. CASE Rotate(g)
  BY <1>3, <1>10 DEF Rotate, Statement
<1>11. CASE Ensure(g)
  <2>1. \/ Goto(g, "upsert") /\ account[request[g].target] = None
        \/ Goto(g, "contact") /\ account[request[g].target] # None
    BY <1>2, <1>11 DEF Ensure
  <2> QED  BY <1>3, <1>11, <2>1 DEF Statement
<1> QED  BY <1>2, <1>4, <1>5, <1>6, <1>7, <1>8, <1>9, <1>10, <1>11 DEF Step, Promote, Answer,
           UpdateStatus, DeleteUser, InsertContact, RemoveContact, Abandon

(* The start of a request: it only reads, and chooses or draws its token.  *)
Begun(g, r) ==
  /\ Begin(g, r) /\ r \in Request
  /\ UNCHANGED <<hash, account, contacts, deleted, interrupted>>
  /\ r.at = "upsert" => r.op = "create"
  /\ \/ /\ r.op \in {"create", "bootstrap"}
        /\ <<r.target, r.token>> \in known \/ FreshToken(r.token)
        /\ known' = known \cup {<<r.target, r.token>>}
     \/ r.op \in {"provision", "reset"} /\ r.at = "role" /\ FreshToken(r.token) /\ UNCHANGED known
     \/ /\ r.op \notin {"create", "bootstrap", "provision", "reset"}
        /\ r.token = None /\ UNCHANGED known
  /\ r.at \in {"upsert", "insert", "profile", "role", "ensure", "remove"}

LEMMA NextBegun ==
  ASSUME Typed, Next
  PROVE  (\E g \in Handler : Step(g)) \/ \E g \in Handler, r \in Request : Begun(g, r)
<1> USE DEF New
<1>0. \A c \in known : c[1] \in Mailbox
  BY DEF Typed, HistoryTyped
<1>1. ASSUME NEW h \in Handler, NEW m \in Mailbox, NEW t \in Token,
             CreateLookup(h, m, t) \/ BootstrapLookup(h, m, t)
      PROVE  \E r \in Request : Begun(h, r)
  <2>1. PICK op \in {"create", "bootstrap"}, at \in {"upsert", "insert", "profile"} :
          Begin(h, New(op, at, m, t, m)) /\ (at = "upsert" => op = "create")
    BY <1>1 DEF CreateLookup, BootstrapLookup
  <2>2. New(op, at, m, t, m) \in Request
    BY DEF Request, Operation, Statement
  <2>3. /\ UNCHANGED <<hash, account, contacts, deleted, interrupted>>
        /\ known' = known \cup {<<m, t>>}
        /\ <<m, t>> \in known \/ FreshToken(t)
    BY <1>1 DEF CreateLookup, BootstrapLookup
  <2> QED  BY <2>1, <2>2, <2>3 DEF Begun
<1>2. ASSUME NEW h \in Handler, NEW c \in known, NEW m \in Mailbox, NEW t \in Token \cup {None},
             NEW op \in {"provision", "reset", "delete"} \cup Status, AdminBegin(h, c, op, m, t)
      PROVE  \E r \in Request : Begun(h, r)
  <2>1. /\ Begin(h, New(op, "role", m, t, c[1]))
        /\ UNCHANGED <<hash, account, contacts, known, deleted, interrupted>>
        /\ IF op \in {"provision", "reset"} THEN FreshToken(t) ELSE t = None
    BY <1>2 DEF AdminBegin
  <2>2. New(op, "role", m, t, c[1]) \in Request
    BY <1>0 DEF Request, Operation, Statement
  <2>3. op \notin {"create", "bootstrap"}
    BY DEF Status
  <2> QED  BY <2>1, <2>2, <2>3 DEF Begun
<1>3. ASSUME NEW h \in Handler, NEW c \in known, NEW m \in Mailbox,
             NEW op \in {"profile", "contact", "remove"}, ClientBegin(h, c, op, m)
      PROVE  \E r \in Request : Begun(h, r)
  <2>1. PICK at \in {"remove", "ensure"} :
          /\ Begin(h, New(op, at, m, None, c[1]))
          /\ UNCHANGED <<hash, account, contacts, known, deleted, interrupted>>
    BY <1>3 DEF ClientBegin
  <2>2. New(op, at, m, None, c[1]) \in Request
    BY <1>0 DEF Request, Operation, Statement
  <2> QED  BY <2>1, <2>2 DEF Begun
<1>4. \E h \in Handler :
        \/ Step(h)
        \/ \E m \in Mailbox, t \in Token : CreateLookup(h, m, t) \/ BootstrapLookup(h, m, t)
        \/ \E c \in known, m \in Mailbox :
             \/ \E op \in {"provision", "reset", "delete"} \cup Status, t \in Token \cup {None} :
                  AdminBegin(h, c, op, m, t)
             \/ \E op \in {"profile", "contact", "remove"} : ClientBegin(h, c, op, m)
  BY DEF Next
<1> QED  BY <1>1, <1>2, <1>3, <1>4

(* The others are where they were; a new request changes no row.           *)
LEMMA BegunOthers ==
  ASSUME Typed, NEW g \in Handler, NEW r, Begun(g, r)
  PROVE  /\ ~Busy(g) /\ Busy(g)' /\ request'[g] = r
         /\ \A h \in Handler \ {g} : request'[h] = request[h]
BY NoneAssumption DEF Begun, Begin, Busy, Typed, RequestsTyped, Request, Idle

-----------------------------------------------------------------------------
(* Every contact has an account, or had one that was deleted.              *)

Listed(m) == account[m] # None \/ m \in deleted

ContactsStayListed ==
  /\ ContactsAreListed
  /\ \A h \in Handler :
       Busy(h) /\ request[h].at = "contact" => Listed(request[h].target)

LEMMA StepListed ==
  ASSUME Typed, NEW g \in Handler, Step(g), NEW n \in Mailbox, Listed(n)
  PROVE  Listed(n)'
<1>0. RowsTyped /\ account[n] \in Account \cup {None} /\ None \notin Account
  BY NoneAssumption DEF Typed, RowsTyped
<1>1. PICK m \in Mailbox : m = request[g].target /\ request[g] \in Request
  BY StepLocal DEF Local, Request
<1>2. CASE UpsertProfile(g)
  <2>1. account[n] # None => Upserted(n) \in Account
    BY <1>0 DEF Upserted, Account, Status
  <2> QED  BY <1>0, <1>1, <1>2, <2>1 DEF UpsertProfile, Listed, RowsTyped
<1>3. CASE Promote(g)
  <2>1. [role |-> "admin", status |-> "active", owner |-> None] \in Account
    BY DEF Account, Role, Status
  <2> QED  BY <1>0, <1>1, <1>3, <2>1 DEF Promote, Listed, RowsTyped
<1>4. CASE InsertAccount(g)
  <2>1. [role |-> "user", status |-> "provisioned", owner |-> request[g].by] \in Account
    BY <1>1 DEF Account, Role, Status, Request
  <2> QED  BY <1>0, <1>1, <1>4, <2>1 DEF InsertAccount, Listed, RowsTyped
<1>5. CASE UpdateStatus(g) \/ Demote(g)
  <2>1. request[g].op \in Status \/ Demote(g)
    BY <1>5, AtStatement DEF Typed, UpdateStatus, StageOK, Statement
  <2>2. \A s \in Status : account[n] # None => [account[n] EXCEPT !.status = s] \in Account
    BY <1>0 DEF Account
  <2>3. account'[n] = account[n] \/ \E s \in Status :
          account[n] # None /\ account'[n] = [account[n] EXCEPT !.status = s]
    <3>1. CASE UpdateStatus(g) /\ request[g].op \in Status
      BY <1>0, <1>1, <3>1 DEF UpdateStatus, Manages, RowsTyped
    <3>2. CASE Demote(g)
      BY <1>0, <1>1, <3>2 DEF Demote, RowsTyped, Status
    <3> QED  BY <1>5, <2>1, <3>1, <3>2
  <2>4. UNCHANGED deleted
    BY <1>5 DEF UpdateStatus, Demote
  <2> QED  BY <1>0, <2>2, <2>3, <2>4 DEF Listed
<1>6. CASE DeleteUser(g)
  <2>1. CASE Manages(request[g].by, m)
    <3>1. account[n] # None => [account[n] EXCEPT !.owner = None] \in Account
      BY <1>0 DEF Account
    <3> QED  BY <1>0, <1>1, <1>6, <2>1, <3>1 DEF DeleteUser, AccountsWithout, Listed
  <2>2. CASE ~Manages(request[g].by, m)
    BY <1>1, <1>6, <2>2 DEF DeleteUser, Listed
  <2> QED  BY <2>1, <2>2
<1>7. CASE UNCHANGED <<account, deleted>>
  BY <1>7 DEF Listed
<1> QED  BY <1>2, <1>3, <1>4, <1>5, <1>6, <1>7 DEF Step, InsertMailbox, BootstrapProfile,
           CheckRole, Answer, ResetSelect, Rotate, Ensure, InsertContact, RemoveContact, Abandon

LEMMA StepContacts ==
  ASSUME Typed, ContactsStayListed, NEW g \in Handler, Step(g)
  PROVE  ContactsStayListed'
<1>1. Local(g) /\ RowsTyped /\ RowsTyped' /\ RequestsTyped
  BY StepLocal, TypedStep DEF Typed, Next
<1>2. PICK m \in Mailbox : m = request[g].target
  BY <1>1 DEF Local, Request
<1>3. ASSUME NEW c \in contacts' PROVE Listed(c[2])'
  <2>1. Listed(c[2])
    <3>1. CASE c \in contacts
      BY <3>1 DEF ContactsStayListed, ContactsAreListed, Listed
    <3>2. CASE c \notin contacts
      <4>1. InsertContact(g) /\ c[2] = m
        BY <1>1, <1>2, <1>3, <3>2 DEF Local, Step, InsertMailbox, UpsertProfile, BootstrapProfile,
           Promote, CheckRole, InsertAccount, Answer, UpdateStatus, ResetSelect, Rotate, Demote,
           DeleteUser, Ensure, RemoveContact, Abandon
      <4> QED  BY <1>1, <1>2, <4>1 DEF InsertContact, ContactsStayListed, Local
    <3> QED  BY <3>1, <3>2
  <2>2. c[2] \in Mailbox
    BY <1>1, <1>3 DEF RowsTyped
  <2> QED  BY <2>1, <2>2, StepListed
<1>4. ASSUME NEW h \in Handler, Busy(h)', request'[h].at = "contact"
      PROVE  Listed(request[h].target)'
  <2>1. CASE h # g
    <3>1. request'[h] = request[h] /\ Busy(h) /\ request[h].target \in Mailbox
      BY <1>1, <1>4, <2>1 DEF Local, Busy, RequestsTyped, Request
    <3>2. Listed(request[h].target)
      BY <1>4, <3>1 DEF ContactsStayListed
    <3> QED  BY <3>1, <3>2, StepListed DEF Listed
  <2>2. CASE h = g
    <3>1. request'[g].target = m
      BY <1>1, <1>2, <1>4, <2>2 DEF Local, Busy, Request
    <3>2. CASE UpsertProfile(g) /\ hash[m] # None
      <4>1. account'[m] = Upserted(m) /\ Upserted(m) \in Account
        <5>1. Upserted(m) \in Account
          BY <1>1 DEF Upserted, Account, Role, Status, RowsTyped
        <5> QED  BY <1>1, <1>2, <3>2, <5>1 DEF UpsertProfile, RowsTyped
      <4> QED  BY <2>2, <3>1, <4>1, NoneAssumption DEF Listed
    <3>3. CASE Ensure(g) /\ account[m] # None
      <4>1. Listed(m)
        BY <3>3 DEF Listed
      <4> QED  BY <2>2, <3>1, <4>1, StepListed DEF Listed
    <3> QED  BY <1>2, <1>4, <2>2, <3>2, <3>3, StepLeads
  <2> QED  BY <2>1, <2>2
<1> QED  BY <1>3, <1>4 DEF ContactsStayListed, ContactsAreListed, Listed

LEMMA ContactsStep == Typed /\ ContactsStayListed /\ [Next]_vars => ContactsStayListed'
<1> SUFFICES ASSUME Typed, ContactsStayListed, [Next]_vars PROVE ContactsStayListed'
  OBVIOUS
<1>1. CASE UNCHANGED vars
  BY <1>1 DEF vars, ContactsStayListed, ContactsAreListed, Listed, Busy
<1>2. ASSUME NEW g \in Handler, Step(g) PROVE ContactsStayListed'
  BY <1>2, StepContacts
<1>3. ASSUME NEW g \in Handler, NEW r \in Request, Begun(g, r) PROVE ContactsStayListed'
  <2>1. UNCHANGED <<account, contacts, deleted>> /\ r.at # "contact"
    BY <1>3 DEF Begun
  <2> QED  BY <1>3, <2>1, BegunOthers DEF ContactsStayListed, ContactsAreListed, Listed, Busy
<1> QED  BY <1>1, <1>2, <1>3, NextBegun

(* Every contact is listed: its mailbox has the account that the listing   *)
(* joins, unless the mailbox was deleted meanwhile.                        *)
THEOREM ContactsListed == Spec => []ContactsAreListed
<1>1. Init => ContactsStayListed
  BY DEF Init, ContactsStayListed, ContactsAreListed, Busy
<1>2. ContactsStayListed => ContactsAreListed
  BY DEF ContactsStayListed
<1> QED  BY TypedInit, TypedStep, <1>1, ContactsStep, <1>2, PTL DEF Spec

-----------------------------------------------------------------------------
(* An administrator stays active.                                          *)

(* A reset changes a managed user, or one that was deleted since its       *)
(* SELECT: the two UPDATEs that go by the mailbox id alone are not stale.  *)
ResetsManaged ==
  \A h \in Handler :
    Busy(h) /\ request[h].at \in {"rotate", "demote"} =>
      Owned(request[h].target) \/ request[h].target \in deleted

AdminsStay == AdminsStayActive /\ ResetsManaged

LEMMA StepOwned ==
  ASSUME Typed, Inv, NEW g \in Handler, Step(g), NEW n \in Mailbox
  PROVE  /\ Owned(n) /\ account'[n] # None => Owned(n)'
         /\ Owned(n) \/ n \in deleted => Owned(n)' \/ n \in deleted'
<1>1. Owned(n) /\ account'[n] # None => Owned(n)'
  BY NeverPromotedStep DEF Owned
<1>2. Owned(n) \/ n \in deleted => Listed(n)
  BY DEF Owned, Listed
<1>3. n \in deleted => n \in deleted'
  BY DEF Step, InsertMailbox, UpsertProfile, BootstrapProfile, Promote, CheckRole,
     InsertAccount, Answer, UpdateStatus, ResetSelect, Rotate, Demote, DeleteUser, Ensure,
     InsertContact, RemoveContact, Abandon
<1> QED  BY <1>1, <1>2, <1>3, StepListed DEF Listed

(* What an account was before a statement that left it there.              *)
LEMMA StepAccount ==
  ASSUME Typed, NEW g \in Handler, Step(g), NEW n \in Mailbox, account'[n] # None
  PROVE  LET m == request[g].target IN
         \/ /\ account[n] \in Account /\ account'[n] \in Account
            /\ account'[n].role = account[n].role /\ account'[n].status = account[n].status
         \/ UpsertProfile(g) /\ n = m /\ account'[n] = Upserted(n)
         \/ /\ Promote(g) /\ n = m
            /\ account'[n] = [role |-> "admin", status |-> "active", owner |-> None]
         \/ /\ InsertAccount(g) /\ n = m /\ account[n] = None
            /\ account'[n] = [role |-> "user", status |-> "provisioned", owner |-> request[g].by]
         \/ /\ UpdateStatus(g) /\ n = m /\ Manages(request[g].by, n)
            /\ account'[n] = [account[n] EXCEPT !.status = request[g].op]
         \/ /\ Demote(g) /\ n = m /\ account[n] # None
            /\ account'[n] = [account[n] EXCEPT !.status = "provisioned"]
<1>0. RowsTyped /\ account[n] \in Account \cup {None}
  BY DEF Typed, RowsTyped
<1>1. PICK m \in Mailbox : m = request[g].target
  BY StepLocal DEF Local, Request
<1>2. ASSUME account'[n] = account[n]
      PROVE  /\ account[n] \in Account /\ account'[n] \in Account
             /\ account'[n].role = account[n].role /\ account'[n].status = account[n].status
  BY <1>0, <1>2
<1>3. CASE DeleteUser(g)
  <2>1. CASE account'[n] = [account[n] EXCEPT !.owner = None] /\ account[n] # None
    BY <1>0, <2>1 DEF Account
  <2>2. CASE account'[n] = account[n]
    BY <1>2, <2>2
  <2> QED  BY <1>1, <1>3, <2>1, <2>2 DEF DeleteUser, AccountsWithout
<1>4. CASE UpsertProfile(g)
  BY <1>0, <1>1, <1>2, <1>4 DEF UpsertProfile, RowsTyped
<1>5. CASE Promote(g)
  BY <1>0, <1>1, <1>2, <1>5 DEF Promote, RowsTyped
<1>6. CASE InsertAccount(g)
  BY <1>0, <1>1, <1>2, <1>6 DEF InsertAccount, RowsTyped
<1>7. CASE UpdateStatus(g)
  BY <1>0, <1>1, <1>2, <1>7 DEF UpdateStatus, RowsTyped
<1>8. CASE Demote(g)
  BY <1>0, <1>1, <1>2, <1>8 DEF Demote, RowsTyped
<1>9. CASE UNCHANGED account
  BY <1>2, <1>9
<1> QED  BY <1>3, <1>4, <1>5, <1>6, <1>7, <1>8, <1>9 DEF Step, InsertMailbox, BootstrapProfile,
           CheckRole, Answer, ResetSelect, Rotate, Ensure, InsertContact, RemoveContact, Abandon

(* A step leaves the target and the token of every request that goes on.   *)
LEMMA StepKeeps ==
  ASSUME Typed, NEW g \in Handler, Step(g), NEW h \in Handler, Busy(h)'
  PROVE  /\ request[h].target \in Mailbox
         /\ request'[h].target = request[h].target
         /\ request'[h].token = request[h].token
<1>1. Local(g) /\ RequestsTyped
  BY StepLocal DEF Typed
<1>2. CASE h # g
  <2>1. request'[h] = request[h]
    BY <1>1, <1>2 DEF Local
  <2>2. request[h] \in Request
    BY <1>1, <2>1 DEF Busy, RequestsTyped
  <2> QED  BY <2>1, <2>2 DEF Request
<1>3. CASE h = g
  <2>1. request[h] \in Request /\ request'[h] # Idle
    BY <1>1, <1>3 DEF Local, Busy
  <2>2. PICK s \in Statement : request'[h] = [request[h] EXCEPT !.at = s]
    BY <1>1, <1>3, <2>1 DEF Local
  <2> QED  BY <2>1, <2>2 DEF Request
<1> QED  BY <1>2, <1>3

LEMMA StepAdminsStay ==
  ASSUME Typed, Inv, AdminsStay, NEW g \in Handler, Step(g)
  PROVE  AdminsStay'
<1>1. Local(g) /\ RequestsTyped /\ RowsTyped
  BY StepLocal DEF Typed
<1>2. PICK m \in Mailbox : m = request[g].target /\ request[g].by \in Mailbox
  BY <1>1 DEF Local, Request
<1>3. ResetsManaged'
  <2> SUFFICES ASSUME NEW h \in Handler, Busy(h)', request'[h].at \in {"rotate", "demote"}
               PROVE  Owned(request[h].target)' \/ request'[h].target \in deleted'
    BY DEF ResetsManaged, Owned
  <2>1. PICK n \in Mailbox : n = request[h].target /\ request'[h].target = n
    BY StepKeeps
  <2>2. Owned(n) \/ n \in deleted
    <3>1. CASE h # g
      BY <1>1, <2>1, <3>1 DEF Local, Busy, AdminsStay, ResetsManaged
    <3>2. CASE h = g /\ Rotate(g)
      BY <1>1, <2>1, <3>2 DEF Local, Rotate, AdminsStay, ResetsManaged
    <3>3. CASE h = g /\ Manages(request[g].by, m)
      BY <1>2, <2>1, <3>3, NoneAssumption DEF Manages, Owned
    <3> QED  BY <1>2, <3>1, <3>2, <3>3, StepLeads
  <2> QED  BY <2>1, <2>2, StepOwned DEF Owned
<1>4. AdminsStayActive'
  <2> SUFFICES ASSUME NEW n \in Mailbox, n \notin deleted', account'[n] # None,
                      account'[n].role = "admin"
               PROVE  account'[n].status = "active"
    BY DEF AdminsStayActive
  <2>1. n \notin deleted
    BY DEF Step, InsertMailbox, UpsertProfile, BootstrapProfile, Promote, CheckRole,
       InsertAccount, Answer, UpdateStatus, ResetSelect, Rotate, Demote, DeleteUser, Ensure,
       InsertContact, RemoveContact, Abandon
  <2>2. CASE /\ account[n] \in Account
             /\ account'[n].role = account[n].role /\ account'[n].status = account[n].status
    BY <2>1, <2>2, NoneAssumption DEF AdminsStay, AdminsStayActive
  <2>3. CASE account'[n] = Upserted(n)
    BY <1>1, <2>3 DEF Upserted, RowsTyped, Account
  <2>4. CASE Manages(request[g].by, n) /\ account'[n] = [account[n] EXCEPT !.status = request[g].op]
    <3>1. account[n] \in Account /\ account[n].role = "user"
      BY <1>1, <2>4 DEF Manages, RowsTyped
    <3> QED  BY <2>4, <3>1 DEF Account
  <2>5. CASE Demote(g) /\ n = m /\ account'[n] = [account[n] EXCEPT !.status = "provisioned"]
    <3>1. Owned(n)
      BY <1>1, <1>2, <2>1, <2>5 DEF Local, Demote, AdminsStay, ResetsManaged
    <3>2. account[n] \in Account /\ account[n].role = "user"
      BY <1>1, <3>1 DEF RowsTyped, Owned, Inv, ManagedByAnAdmin
    <3> QED  BY <2>5, <3>2 DEF Account
  <2>6. CASE account'[n] = [role |-> "admin", status |-> "active", owner |-> None]
    BY <2>6
  <2>7. account'[n] # [role |-> "user", status |-> "provisioned", owner |-> request[g].by]
    OBVIOUS
  <2> HIDE DEF AdminsStay
  <2>8. CASE Demote(g) /\ n = request[g].target
             /\ account'[n] = [account[n] EXCEPT !.status = "provisioned"]
    BY <1>2, <2>5, <2>8
  <2> QED  BY <2>2, <2>3, <2>4, <2>6, <2>7, <2>8, StepAccount
<1> QED  BY <1>3, <1>4 DEF AdminsStay

LEMMA AdminsStayStep == Typed /\ Inv /\ AdminsStay /\ [Next]_vars => AdminsStay'
<1> SUFFICES ASSUME Typed, Inv, AdminsStay, [Next]_vars PROVE AdminsStay'
  OBVIOUS
<1>1. CASE UNCHANGED vars
  BY <1>1 DEF vars, AdminsStay, AdminsStayActive, ResetsManaged, Owned, Busy
<1>2. ASSUME NEW g \in Handler, Step(g) PROVE AdminsStay'
  BY <1>2, StepAdminsStay
<1>3. ASSUME NEW g \in Handler, NEW r \in Request, Begun(g, r) PROVE AdminsStay'
  <2>1. UNCHANGED <<account, deleted>> /\ r.at \notin {"rotate", "demote"}
    BY <1>3 DEF Begun
  <2> QED  BY <1>3, <2>1, BegunOthers DEF AdminsStay, AdminsStayActive, ResetsManaged, Owned, Busy
<1> QED  BY <1>1, <1>2, <1>3, NextBegun

(* Nobody takes an administrator's rights: its account is active, unless   *)
(* its id belonged to a deleted user.                                      *)
THEOREM AdminsActive == Spec => []AdminsStayActive
<1>1. Init => AdminsStay
  BY DEF Init, AdminsStay, AdminsStayActive, ResetsManaged, Busy
<1>2. AdminsStay => AdminsStayActive
  BY DEF AdminsStay
<1> QED  BY TypedInit, TypedStep, InvInit, InvStep, <1>1, AdminsStayStep, <1>2, PTL DEF Spec

-----------------------------------------------------------------------------
(* A disabled account.                                                     *)

(* Only a managed account is ever disabled, and a profile is made or       *)
(* promoted only where there is none: what they looked up is still so.     *)
DisabledManaged ==
  \A m \in Mailbox : account[m] # None /\ account[m].status = "disabled" => Owned(m)

EnsuresUnmanaged ==
  \A h \in Handler :
    Busy(h) /\ request[h].at = "upsert" /\ request[h].op # "create" => ~Owned(request[h].target)

DisabledStays == DisabledManaged /\ EnsuresUnmanaged

LEMMA StepDisabledStays ==
  ASSUME Typed, Inv, DisabledStays, NEW g \in Handler, Step(g)
  PROVE  DisabledStays'
<1>1. Local(g) /\ RequestsTyped /\ RowsTyped
  BY StepLocal DEF Typed
<1>2. PICK m \in Mailbox : m = request[g].target /\ request[g].by \in Mailbox
  BY <1>1 DEF Local, Request
<1>3. DisabledManaged'
  <2> SUFFICES ASSUME NEW n \in Mailbox, account'[n] # None, account'[n].status = "disabled"
               PROVE  Owned(n)'
    BY DEF DisabledManaged
  <2>1. Owned(n)
    <3>1. CASE account[n] \in Account /\ account'[n].status = account[n].status
      BY <3>1, NoneAssumption DEF DisabledStays, DisabledManaged
    <3>2. CASE account'[n] = Upserted(n)
      BY <1>1, <3>2 DEF Upserted, RowsTyped, Account
    <3>3. CASE Manages(request[g].by, n)
      BY <1>2, <3>3, NoneAssumption DEF Manages, Owned
    <3>4. CASE account[n] # None /\ account'[n] = [account[n] EXCEPT !.status = "provisioned"]
      BY <1>1, <3>4 DEF RowsTyped, Account
    <3>5. /\ account'[n] # [role |-> "admin", status |-> "active", owner |-> None]
          /\ account'[n] # [role |-> "user", status |-> "provisioned", owner |-> request[g].by]
      OBVIOUS
    <3> QED  BY <3>1, <3>2, <3>3, <3>4, <3>5, StepAccount
  <2> QED  BY <2>1, StepOwned
<1>4. EnsuresUnmanaged'
  <2> SUFFICES ASSUME NEW h \in Handler, Busy(h)', request'[h].at = "upsert",
                      request'[h].op # "create", Owned(request[h].target)'
               PROVE  FALSE
    BY <1>1 DEF EnsuresUnmanaged, Owned, Local, Busy, RequestsTyped, Request
  <2>1. PICK n \in Mailbox : n = request[h].target /\ Busy(h)
    BY <1>1 DEF Local, Busy, RequestsTyped, Request
  <2>2. Owned(n)' \/ request'[h].target # n
    BY <2>1 DEF Owned
  <2>3. request'[h].target = n /\ request[h].op = request'[h].op
    <3>1. request[h] \in Request
      BY <1>1, <2>1 DEF Busy, RequestsTyped
    <3>2. request'[h] = request[h] \/ \E s \in Statement : request'[h] = [request[h] EXCEPT !.at = s]
      BY <1>1 DEF Local, Busy
    <3> QED  BY <2>1, <3>1, <3>2 DEF Request
  <2>4. CASE h = g
    <3>1. Ensure(g) /\ account[n] = None
      BY <2>1, <2>3, <2>4, StepLeads
    <3> QED  BY <2>2, <2>3, <3>1 DEF Ensure, Owned
  <2>5. CASE h # g
    <3>1. ~Owned(n)
      BY <1>1, <2>1, <2>5 DEF Local, DisabledStays, EnsuresUnmanaged
    <3>2. ~(request[g].at = "account" /\ n = request[g].target)
      BY <1>1, <2>1, <2>5, AccountStage DEF Untouched, Local
    <3> QED  BY <2>2, <2>3, <3>1, <3>2, StepOwnership
  <2> QED  BY <2>4, <2>5
<1> QED  BY <1>3, <1>4 DEF DisabledStays

LEMMA DisabledStaysStep == Typed /\ Inv /\ DisabledStays /\ [Next]_vars => DisabledStays'
<1> SUFFICES ASSUME Typed, Inv, DisabledStays, [Next]_vars PROVE DisabledStays'
  OBVIOUS
<1>1. CASE UNCHANGED vars
  BY <1>1 DEF vars, DisabledStays, DisabledManaged, EnsuresUnmanaged, Owned, Busy
<1>2. ASSUME NEW g \in Handler, Step(g) PROVE DisabledStays'
  BY <1>2, StepDisabledStays
<1>3. ASSUME NEW g \in Handler, NEW r \in Request, Begun(g, r) PROVE DisabledStays'
  <2>1. UNCHANGED account /\ (r.at = "upsert" => r.op = "create")
    BY <1>3 DEF Begun
  <2> QED
    BY <1>3, <2>1, BegunOthers DEF DisabledStays, DisabledManaged, EnsuresUnmanaged, Owned, Busy
<1> QED  BY <1>1, <1>2, <1>3, NextBegun

LEMMA StepRevives ==
  ASSUME Typed, Inv, DisabledStays, NEW g \in Handler, Step(g), NEW n \in Mailbox,
         account[n] # None, account[n].status = "disabled",
         account'[n] # None, account'[n].status # "disabled"
  PROVE  /\ request[g] # Idle /\ request'[g] # request[g] /\ request[g].target = n
         /\ request[g].at \in {"update", "demote"} \/ request[g].op = "create"
<1>1. Local(g) /\ RequestsTyped /\ Owned(n)
  BY StepLocal DEF Typed, DisabledStays, DisabledManaged
<1>2. /\ \/ UpsertProfile(g) \/ Promote(g) \/ UpdateStatus(g) \/ Demote(g)
      /\ request[g].target = n
  BY StepAccount
<1>3. ~Promote(g)
  BY <1>1, <1>2 DEF Promote, Inv, PromotesUnmanaged, Owned, Local
<1>4. request[g].at \in {"update", "demote"} \/ request[g].op = "create"
  BY <1>1, <1>2, <1>3
     DEF UpsertProfile, UpdateStatus, Demote, DisabledStays, EnsuresUnmanaged, Local
<1>5. request'[g] # request[g]
  <2>1. request \in [Handler -> Request \cup {Idle}] /\ request[g] \in Request
    BY <1>1 DEF Local, RequestsTyped
  <2>2. CASE End(g)
    BY <1>1, <2>1, <2>2 DEF End, Local, Busy
  <2>3. CASE ~End(g)
    <3>1. \/ UpsertProfile(g) /\ Goto(g, "contact")
          \/ Demote(g) /\ Goto(g, "answer")
      BY <1>2, <1>3, <2>3 DEF UpsertProfile, UpdateStatus, Demote
    <3>2. request'[g].at \in {"contact", "answer"}
      BY <2>1, <3>1 DEF Goto, Request
    <3> QED  BY <3>1, <3>2 DEF UpsertProfile, Demote
  <2> QED  BY <2>2, <2>3
<1> QED  BY <1>1, <1>2, <1>4, <1>5 DEF Local, Busy

(* A disabled account comes back only by its administrator, or by a        *)
(* registration with its token.                                            *)
THEOREM DisabledComesBack == Spec => DisabledComesBackOnlyBy
<1>1. Init => DisabledStays
  BY DEF Init, DisabledStays, DisabledManaged, EnsuresUnmanaged, Busy
<1>2. Typed /\ Inv /\ DisabledStays /\ [Next]_vars =>
        [\A m \in Mailbox :
           /\ account[m] # None /\ account[m].status = "disabled"
           /\ account'[m] # None /\ account'[m].status # "disabled"
           => \E h \in Handler :
                /\ request[h] # Idle /\ request'[h] # request[h] /\ request[h].target = m
                /\ request[h].at \in {"update", "demote"} \/ request[h].op = "create"]_vars
  <2> SUFFICES ASSUME Typed, Inv, DisabledStays, Next, NEW m \in Mailbox,
                      account[m] # None, account[m].status = "disabled",
                      account'[m] # None, account'[m].status # "disabled"
               PROVE  \E h \in Handler :
                        /\ request[h] # Idle /\ request'[h] # request[h] /\ request[h].target = m
                        /\ request[h].at \in {"update", "demote"} \/ request[h].op = "create"
    OBVIOUS
  <2>1. ASSUME NEW g \in Handler, NEW r \in Request, Begun(g, r) PROVE FALSE
    BY <2>1 DEF Begun
  <2> QED  BY <2>1, NextBegun, StepRevives
<1> QED
  BY TypedInit, TypedStep, InvInit, InvStep, <1>1, DisabledStaysStep, <1>2, PTL
     DEF Spec, DisabledComesBackOnlyBy

-----------------------------------------------------------------------------
(* The tokens.                                                             *)

Telling(h) == Busy(h) /\ request[h].op \in {"provision", "reset"}

(* Whose token a request has, and where a request that will tell one is.   *)
TokenStage(r) ==
  /\ r.op = "provision" => r.at \in {"role", "insert", "account", "answer"}
  /\ r.op = "reset" => r.at \in {"role", "select", "rotate", "demote", "answer"}
  /\ r.op \in {"create", "bootstrap"} => <<r.target, r.token>> \in known
  /\ r.op \notin {"create", "bootstrap", "provision", "reset"} => r.token = None

TokenStages == \A h \in Handler : Busy(h) => TokenStage(request[h])

(* A token that the relay drew is its request's alone until it is told.    *)
SecretOf(h) ==
  /\ \A m \in Mailbox : <<m, request[h].token>> \notin known
  /\ \A g \in Handler \ {h} : Busy(g) => request[g].token # request[h].token
  /\ request[h].at \in {"role", "insert", "select", "rotate"} =>
       \A m \in Mailbox : hash[m] # request[h].token

Secrets == \A h \in Handler : Telling(h) => SecretOf(h)

TokensKnown == TokenStages /\ Secrets /\ TokenIsKnown

LEMMA StepTokenStages ==
  ASSUME Typed, TokensKnown, NEW g \in Handler, Step(g)
  PROVE  TokenStages' /\ known \subseteq known'
<1>1. Local(g) /\ RequestsTyped /\ StageOK(request[g])
  BY StepLocal DEF Typed, Local, RequestsTyped, StagesOK
<1>2. known \subseteq known'
  BY DEF Step, InsertMailbox, UpsertProfile, BootstrapProfile, Promote, CheckRole,
     InsertAccount, Answer, UpdateStatus, ResetSelect, Rotate, Demote, DeleteUser, Ensure,
     InsertContact, RemoveContact, Abandon
<1>3. ASSUME NEW h \in Handler, Busy(h)' PROVE TokenStage(request[h])'
  <2>1. CASE h # g
    <3>1. request'[h] = request[h] /\ TokenStage(request[h])
      BY <1>1, <1>3, <2>1 DEF Local, Busy, TokensKnown, TokenStages
    <3> QED  BY <3>1, <1>2 DEF TokenStage
  <2>2. CASE h = g
    <3>1. PICK s \in Statement : request'[g] = [request[g] EXCEPT !.at = s]
      BY <1>1, <1>3, <2>2 DEF Local, Busy
    <3>2. /\ request[g] \in Request /\ TokenStage(request[g])
          /\ request'[g].op = request[g].op /\ request'[g].token = request[g].token
          /\ request'[g].target = request[g].target /\ request'[g].at = s
      BY <1>1, <3>1 DEF Local, Busy, TokensKnown, TokenStages, Request
    <3> DEFINE op == request[g].op
    <3>3. op = "provision" => s \in {"role", "insert", "account", "answer"}
      <4>1. ASSUME op = "provision"
            PROVE  InsertMailbox(g) \/ CheckRole(g) \/ InsertAccount(g) \/ Answer(g) \/ Abandon(g)
        BY <3>2, <4>1 DEF TokenStage, Step, UpsertProfile, BootstrapProfile, Promote, UpdateStatus,
           ResetSelect, Rotate, Demote, DeleteUser, Ensure, InsertContact, RemoveContact
      <4>2. End(g) => FALSE
        BY <1>1, <1>3, <2>2 DEF End, Busy, RequestsTyped
      <4>3. \A x \in Statement : Goto(g, x) => s = x
        BY <1>1, <3>2 DEF Goto, RequestsTyped, Request
      <4>4. ASSUME op = "provision" PROVE \E x \in {"insert", "account", "answer"} : Goto(g, x)
        BY <4>1, <4>2, <4>4 DEF InsertMailbox, CheckRole, InsertAccount, Answer, Abandon
      <4> QED  BY <4>3, <4>4 DEF Statement
    <3>4. op = "reset" => s \in {"role", "select", "rotate", "demote", "answer"}
      <4>1. ASSUME op = "reset"
            PROVE  CheckRole(g) \/ ResetSelect(g) \/ Rotate(g) \/ Demote(g) \/ Answer(g) \/ Abandon(g)
        BY <3>2, <4>1 DEF TokenStage, Step, InsertMailbox, UpsertProfile, BootstrapProfile, Promote,
           UpdateStatus, InsertAccount, DeleteUser, Ensure, InsertContact, RemoveContact
      <4>2. End(g) => FALSE
        BY <1>1, <1>3, <2>2 DEF End, Busy, RequestsTyped
      <4>3. \A x \in Statement : Goto(g, x) => s = x
        BY <1>1, <3>2 DEF Goto, RequestsTyped, Request
      <4>4. ASSUME op = "reset"
            PROVE  \E x \in {"select", "rotate", "demote", "answer"} : Goto(g, x)
        BY <4>1, <4>2, <4>4 DEF CheckRole, ResetSelect, Rotate, Demote, Answer, Abandon
      <4> QED  BY <4>3, <4>4 DEF Statement
    <3> QED  BY <1>2, <2>2, <3>2, <3>3, <3>4 DEF TokenStage
  <2> QED  BY <2>1, <2>2
<1> QED  BY <1>2, <1>3 DEF TokenStages

(* A stored token is an old one or the request's own; a told one too.      *)
LEMMA StepStores ==
  ASSUME Typed, NEW g \in Handler, Step(g)
  PROVE  LET r == request[g] IN
         /\ \A n \in Mailbox :
              \/ hash'[n] \in {hash[n], None}
              \/ /\ n = r.target /\ hash'[n] = r.token /\ ~End(g)
                 /\ r.at \in {"insert", "rotate"}
         /\ known' = known \/ (Answer(g) /\ known' = known \cup {<<r.target, r.token>>})
<1>0. RowsTyped
  BY DEF Typed
<1>1. PICK m \in Mailbox : m = request[g].target
  BY StepLocal DEF Local, Request
<1>2. \A n \in Mailbox :
        \/ hash'[n] \in {hash[n], None}
        \/ /\ n = m /\ hash'[n] = request[g].token /\ ~End(g)
           /\ request[g].at \in {"insert", "rotate"}
  <2>0. request \in [Handler -> Request \cup {Idle}] /\ request[g] \in Request
    BY StepLocal DEF Typed, RequestsTyped, Local
  <2>a. \A s \in Statement : Goto(g, s) => ~End(g)
    <3>1. \A s \in Statement : Idle # [request[g] EXCEPT !.at = s]
      BY <2>0 DEF Idle, Request, Statement
    <3> QED  BY <2>0, <3>1 DEF Goto, End
  <2>1. CASE InsertMailbox(g)
    <3>1. CASE hash[m] = None
      <4>1. \E s \in Statement : Goto(g, s)
        BY <1>1, <2>1, <3>1 DEF InsertMailbox, Statement
      <4> QED  BY <1>0, <1>1, <2>1, <3>1, <2>a, <4>1 DEF InsertMailbox, RowsTyped
    <3>2. CASE hash[m] # None
      BY <1>1, <2>1, <3>2 DEF InsertMailbox
    <3> QED  BY <3>1, <3>2
  <2>2. CASE Rotate(g)
    <3>1. ~End(g)
      BY <2>2, <2>a DEF Rotate, Statement
    <3> QED  BY <1>0, <1>1, <2>2, <3>1 DEF Rotate, RowsTyped
  <2>3. CASE DeleteUser(g)
    BY <1>0, <1>1, <2>3 DEF DeleteUser, RowsTyped
  <2>4. CASE UNCHANGED hash
    BY <2>4
  <2> QED  BY <2>1, <2>2, <2>3, <2>4 DEF Step, UpsertProfile, BootstrapProfile, Promote, CheckRole,
     InsertAccount, Answer, UpdateStatus, ResetSelect, Demote, Ensure,
     InsertContact, RemoveContact, Abandon
<1>3. known' = known \/ (Answer(g) /\ known' = known \cup {<<m, request[g].token>>})
  BY <1>1 DEF Step, InsertMailbox, UpsertProfile, BootstrapProfile, Promote, CheckRole,
     InsertAccount, Answer, UpdateStatus, ResetSelect, Rotate, Demote, DeleteUser, Ensure,
     InsertContact, RemoveContact, Abandon
<1> QED  BY <1>1, <1>2, <1>3

LEMMA StepSecrets ==
  ASSUME Typed, TokensKnown, NEW g \in Handler, Step(g)
  PROVE  Secrets'
<1>1. Local(g) /\ RequestsTyped /\ RowsTyped
  BY StepLocal DEF Typed
<1>2. \A h \in Handler : Busy(h)' => /\ Busy(h) /\ request'[h].token = request[h].token
                                    /\ request'[h].op = request[h].op
  BY <1>1 DEF Local, Busy, RequestsTyped, Request
<1> SUFFICES ASSUME NEW h \in Handler, Telling(h)' PROVE SecretOf(h)'
  BY DEF Secrets
<1> DEFINE t == request[h].token
<1>3. Telling(h) /\ SecretOf(h) /\ request'[h].token = t /\ t \in Token
  <2>1. Telling(h) /\ request'[h].token = t
    BY <1>2 DEF Telling
  <2>2. StageOK(request[h])
    BY <1>1, <2>1 DEF Telling, RequestsTyped, StagesOK
  <2> QED  BY <2>1, <2>2 DEF TokensKnown, Secrets, Telling, StageOK
<1>4. \A k \in Handler \ {h} : Busy(k)' => request'[k].token # t
  BY <1>2, <1>3 DEF SecretOf
<1>5. \A m \in Mailbox : <<m, t>> \notin known'
  <2>1. CASE known' = known
    BY <1>3, <2>1 DEF SecretOf
  <2>2. CASE Answer(g) /\ known' = known \cup {<<request[g].target, request[g].token>>}
    <3>1. h # g
      <4>1. ~Busy(g)'
        BY <1>1, <2>2 DEF Answer, End, Busy, RequestsTyped
      <4> QED  BY <4>1 DEF Telling
    <3>2. request[g].token # t
      BY <1>1, <1>3, <3>1 DEF SecretOf, Local
    <3> QED  BY <1>3, <2>2, <3>2 DEF SecretOf
  <2> QED  BY <2>1, <2>2, StepStores
<1>6. ASSUME request'[h].at \in {"role", "insert", "select", "rotate"}, NEW m \in Mailbox
      PROVE  hash'[m] # t
  <2>1. request[h].at \in {"role", "insert", "select", "rotate"}
        /\ (h = g => UNCHANGED hash)
    <3>1. CASE h # g
      BY <1>1, <1>6, <3>1 DEF Local
    <3>2. CASE h = g
      <4>1. TokenStage(request[g]) /\ Busy(g)' /\ Busy(g)
        BY <1>3, <3>2 DEF TokensKnown, TokenStages, Telling
      <4>2. request'[g].at = "role" => FALSE
        <5>1. \A s \in Statement : Goto(g, s) => request'[g].at = s
          BY <1>1 DEF Goto, RequestsTyped, Local, Request
        <5>2. ~End(g)
          BY <1>1, <4>1 DEF End, Busy, RequestsTyped
        <5>3. \E s \in Statement \ {"role"} : Goto(g, s)
          <6>1. CASE InsertMailbox(g) \/ UpsertProfile(g) \/ BootstrapProfile(g) \/ Promote(g)
            BY <5>2, <6>1 DEF InsertMailbox, UpsertProfile, BootstrapProfile, Promote, Statement
          <6>2. CASE CheckRole(g)
            BY <5>2, <6>2 DEF CheckRole, Statement
          <6>3. CASE InsertAccount(g) \/ Answer(g) \/ UpdateStatus(g) \/ ResetSelect(g)
            BY <5>2, <6>3 DEF InsertAccount, Answer, UpdateStatus, ResetSelect, Statement
          <6>4. CASE Rotate(g) \/ Demote(g) \/ DeleteUser(g) \/ Ensure(g)
            BY <5>2, <6>4 DEF Rotate, Demote, DeleteUser, Ensure, Statement
          <6>5. CASE InsertContact(g) \/ RemoveContact(g) \/ Abandon(g)
            BY <5>2, <6>5 DEF InsertContact, RemoveContact, Abandon
          <6> QED  BY <6>1, <6>2, <6>3, <6>4, <6>5 DEF Step
        <5> QED  BY <5>1, <5>3
      <4>3. \/ CheckRole(g) \/ ResetSelect(g)
        BY <1>6, <3>2, <4>1, <4>2, StepLeads
      <4> QED  BY <3>2, <4>3 DEF CheckRole, ResetSelect
    <3> QED  BY <3>1, <3>2
  <2>2. \A n \in Mailbox : hash[n] # t
    BY <1>3, <2>1 DEF SecretOf
  <2>3. CASE hash'[m] \in {hash[m], None}
    BY <1>3, <2>2, <2>3, NoneAssumption
  <2>4. CASE hash'[m] = request[g].token /\ h # g
    BY <1>1, <1>3, <2>4 DEF SecretOf, Local
  <2> QED  BY <2>1, <2>2, <2>3, <2>4, StepStores
<1> QED  BY <1>3, <1>4, <1>5, <1>6 DEF SecretOf

(* A request that ends leaves its token known, not stored, or cut off.     *)
LEMMA StepEnds ==
  ASSUME Typed, TokensKnown, NEW g \in Handler, Step(g), End(g),
         hash[request[g].target] = request[g].token
  PROVE  LET r == request[g] IN
         \/ r.token = None
         \/ <<r.target, r.token>> \in known'
         \/ r.target \in interrupted'
<1>1. Local(g) /\ RequestsTyped /\ TokenStage(request[g])
  BY StepLocal DEF Typed, Local, TokensKnown, TokenStages
<1>2. PICK m \in Mailbox : m = request[g].target
  BY <1>1 DEF Local, Request
<1> DEFINE r == request[g]
<1>3. CASE r.op \in {"create", "bootstrap"}
  BY <1>1, <1>3, StepTokenStages DEF TokenStage
<1>4. CASE r.op \notin {"create", "bootstrap", "provision", "reset"}
  BY <1>1, <1>4 DEF TokenStage
<1>5. CASE Telling(g)
  <2>1. SecretOf(g)
    BY <1>5 DEF TokensKnown, Secrets
  <2>2. r.at \notin {"role", "insert", "select", "rotate"}
    BY <1>2, <2>1 DEF SecretOf
  <2>3. r.at \in {"account", "answer", "demote"}
    BY <1>1, <1>5, <2>2 DEF TokenStage, Telling
  <2>4. \/ InsertAccount(g) /\ interrupted' = Dropped(r)
        \/ Demote(g) /\ interrupted' = Dropped(r)
        \/ Answer(g) /\ <<m, r.token>> \in known'
        \/ Abandon(g) /\ interrupted' = Dropped(r)
    <3>1. Goto(g, "answer") => FALSE
      <4>1. Idle # [request[g] EXCEPT !.at = "answer"]
        BY <1>1 DEF Idle, Local, Request
      <4> QED  BY <1>1, <4>1 DEF Goto, End, RequestsTyped
    <3>2. InsertAccount(g) \/ Demote(g) \/ Answer(g) \/ Abandon(g)
      BY <2>3 DEF Step, InsertMailbox, UpsertProfile, BootstrapProfile, Promote, CheckRole,
         UpdateStatus, ResetSelect, Rotate, DeleteUser, Ensure, InsertContact, RemoveContact
    <3>3. CASE InsertAccount(g)
      BY <3>1, <3>3 DEF InsertAccount
    <3>4. CASE Demote(g)
      BY <3>1, <3>4 DEF Demote
    <3>5. CASE Answer(g) \/ Abandon(g)
      BY <1>2, <3>5 DEF Answer, Abandon
    <3> QED  BY <3>2, <3>3, <3>4, <3>5
  <2>5. interrupted' = Dropped(r) => m \in interrupted'
    BY <1>2, <1>5 DEF Dropped, Telling
  <2> QED  BY <1>2, <2>4, <2>5
<1> QED  BY <1>1, <1>3, <1>4, <1>5 DEF Telling, Local

LEMMA StepTokenKnown ==
  ASSUME Typed, TokensKnown, NEW g \in Handler, Step(g)
  PROVE  TokenIsKnown'
<1>1. Local(g) /\ RequestsTyped /\ RowsTyped /\ known \subseteq known'
  BY StepLocal, StepTokenStages DEF Typed
<1> SUFFICES ASSUME NEW m \in Mailbox, hash'[m] # None, <<m, hash'[m]>> \notin known',
                    m \notin interrupted'
             PROVE  \E h \in Handler : Busy(h)' /\ request'[h].target = m
                                       /\ request'[h].token = hash'[m]
  BY DEF TokenIsKnown, Busy
<1>2. \A h \in Handler : Busy(h)' => /\ request'[h].token = request[h].token
                                    /\ request'[h].target = request[h].target
  BY StepKeeps
<1>3. ~End(g) => Busy(g)'
  <2>1. request \in [Handler -> Request \cup {Idle}]
    BY <1>1 DEF RequestsTyped
  <2>2. \/ End(g) \/ \E s \in Statement : Goto(g, s)
    <3>1. CASE InsertMailbox(g) \/ UpsertProfile(g) \/ BootstrapProfile(g) \/ Promote(g)
      BY <3>1 DEF InsertMailbox, UpsertProfile, BootstrapProfile, Promote, Statement
    <3>2. CASE CheckRole(g)
      BY <3>2 DEF CheckRole, Statement
    <3>3. CASE InsertAccount(g) \/ Answer(g) \/ UpdateStatus(g) \/ ResetSelect(g)
      BY <3>3 DEF InsertAccount, Answer, UpdateStatus, ResetSelect, Statement
    <3>4. CASE Rotate(g) \/ Demote(g) \/ DeleteUser(g) \/ Ensure(g)
      BY <3>4 DEF Rotate, Demote, DeleteUser, Ensure, Statement
    <3>5. CASE InsertContact(g) \/ RemoveContact(g) \/ Abandon(g)
      BY <3>5 DEF InsertContact, RemoveContact, Abandon
    <3> QED  BY <3>1, <3>2, <3>3, <3>4, <3>5 DEF Step
  <2>3. \A s \in Statement : Goto(g, s) => request'[g] # Idle
    <3>1. \A s \in Statement : Idle # [request[g] EXCEPT !.at = s]
      BY <1>1 DEF Idle, Local, Request, Statement
    <3> QED  BY <2>1, <3>1 DEF Goto
  <2> QED  BY <2>2, <2>3 DEF Busy
<1>4. CASE hash'[m] = hash[m]
  <2>1. m \in interrupted => \E h \in Handler : Busy(h)' /\ request'[h].target = m
                                       /\ request'[h].token = hash'[m]
    <3> SUFFICES ASSUME m \in interrupted PROVE FALSE
      OBVIOUS
    <3>1. CASE Answer(g)
      BY <1>1, <1>4, <3>1 DEF Answer
    <3>2. CASE DeleteUser(g)
      BY <1>1, <1>4, <3>2 DEF DeleteUser, RowsTyped
    <3>3. CASE interrupted \subseteq interrupted'
      BY <3>3
    <3> QED  BY <3>1, <3>2, <3>3 DEF Step, InsertMailbox, UpsertProfile, BootstrapProfile, Promote,
         CheckRole, InsertAccount, UpdateStatus, ResetSelect, Rotate, Demote, Ensure,
         InsertContact, RemoveContact, Abandon, Dropped
  <2>2. ASSUME NEW h \in Handler, Busy(h), request[h].target = m, request[h].token = hash[m]
        PROVE  Busy(h)' /\ request'[h].target = m /\ request'[h].token = hash'[m]
    <3>1. Busy(h)'
      <4>1. CASE h # g
        BY <1>1, <2>2, <4>1 DEF Local, Busy
      <4>2. CASE h = g /\ End(g)
        BY <1>4, <2>2, <4>2, StepEnds
      <4>3. CASE h = g /\ ~End(g)
        BY <1>3, <4>3
      <4> QED  BY <4>1, <4>2, <4>3
    <3> QED  BY <1>2, <1>4, <2>2, <3>1
  <2>3. \/ m \in interrupted
        \/ \E h \in Handler : Busy(h) /\ request[h].target = m /\ request[h].token = hash[m]
    BY <1>1, <1>4 DEF TokensKnown, TokenIsKnown, Busy
  <2> QED  BY <2>1, <2>2, <2>3
<1>5. CASE m = request[g].target /\ hash'[m] = request[g].token /\ ~End(g)
  BY <1>2, <1>3, <1>5
<1> QED  BY <1>4, <1>5, StepStores

LEMMA BegunTokens ==
  ASSUME Typed, TokensKnown, NEW g \in Handler, NEW r \in Request, Begun(g, r)
  PROVE  TokensKnown'
<1>1. /\ RequestsTyped /\ RowsTyped /\ ~Busy(g) /\ Busy(g)' /\ request'[g] = r
      /\ \A h \in Handler \ {g} : request'[h] = request[h]
      /\ UNCHANGED <<hash, interrupted>> /\ known \subseteq known'
  BY BegunOthers DEF Typed, Begun
<1>2. \A h \in Handler : Busy(h)' => h = g \/ Busy(h)
  BY <1>1 DEF Busy
<1>3. TokenStages'
  <2>1. TokenStage(r)'
    BY DEF Begun, TokenStage
  <2>2. \A h \in Handler \ {g} : Busy(h) => TokenStage(request[h])
    BY DEF TokensKnown, TokenStages
  <2> QED  BY <1>1, <1>2, <2>1, <2>2 DEF TokenStages, TokenStage
<1>4. ASSUME NEW h \in Handler, Telling(h)' PROVE SecretOf(h)'
  <2>1. CASE h = g
    <3>1. FreshToken(r.token) /\ UNCHANGED known
      BY <1>1, <1>4, <2>1 DEF Begun, Telling
    <3> QED  BY <1>1, <1>2, <2>1, <3>1 DEF FreshToken, SecretOf, Busy
  <2>2. CASE h # g
    <3> DEFINE t == request[h].token
    <3>1. Telling(h) /\ SecretOf(h) /\ t \in Token /\ request'[h] = request[h]
      <4>1. Telling(h) /\ request'[h] = request[h]
        BY <1>1, <1>4, <2>2 DEF Telling, Busy
      <4>2. StageOK(request[h])
        BY <1>1, <4>1 DEF Telling, RequestsTyped, StagesOK
      <4> QED  BY <4>1, <4>2 DEF TokensKnown, Secrets, Telling, StageOK
    <3>2. r.token # t
      <4>1. CASE <<r.target, r.token>> \in known
        BY <3>1, <4>1 DEF SecretOf, Request
      <4>2. CASE FreshToken(r.token)
        BY <3>1, <4>2 DEF FreshToken, Telling, Busy
      <4>3. CASE r.token = None
        BY <3>1, <4>3, NoneAssumption
      <4> QED  BY <4>1, <4>2, <4>3 DEF Begun
    <3>3. \A m \in Mailbox : <<m, t>> \notin known'
      BY <3>1, <3>2 DEF SecretOf, Begun
    <3> QED  BY <1>1, <1>2, <3>1, <3>2, <3>3 DEF SecretOf
  <2> QED  BY <2>1, <2>2
<1>5. TokenIsKnown'
  <2>1. \A h \in Handler : Busy(h) => Busy(h)' /\ request'[h] = request[h]
    BY <1>1 DEF Busy
  <2> QED  BY <1>1, <2>1 DEF TokensKnown, TokenIsKnown, Busy
<1> QED  BY <1>3, <1>4, <1>5 DEF TokensKnown, Secrets

LEMMA TokensStep == Typed /\ TokensKnown /\ [Next]_vars => TokensKnown'
<1> SUFFICES ASSUME Typed, TokensKnown, [Next]_vars PROVE TokensKnown'
  OBVIOUS
<1>1. CASE UNCHANGED vars
  BY <1>1 DEF vars, TokensKnown, TokenStages, TokenStage, Secrets, SecretOf, Telling,
              TokenIsKnown, Busy
<1>2. ASSUME NEW g \in Handler, Step(g) PROVE TokensKnown'
  BY <1>2, StepTokenStages, StepSecrets, StepTokenKnown DEF TokensKnown
<1>3. ASSUME NEW g \in Handler, NEW r \in Request, Begun(g, r) PROVE TokensKnown'
  BY <1>3, BegunTokens
<1> QED  BY <1>1, <1>2, <1>3, NextBegun

(* No mailbox is locked for good: its token is known or about to be told,  *)
(* unless a provisioning or a reset was cut off.                           *)
THEOREM TokensAreKnown == Spec => []TokenIsKnown
<1>1. Init => TokensKnown
  BY DEF Init, TokensKnown, TokenStages, Secrets, Telling, TokenIsKnown, Busy
<1>2. TokensKnown => TokenIsKnown
  BY DEF TokensKnown
<1> QED  BY TypedInit, TypedStep, <1>1, TokensStep, <1>2, PTL DEF Spec

-----------------------------------------------------------------------------
(* The statements implement the directory: what the other handlers see     *)
(* changes one mailbox, or one contact, at a time.                         *)

Seen(m) ==
  IF hash[m] = None THEN "absent" ELSE IF account[m] = None THEN "bare" ELSE account[m].status

DirectoryStep == [Directory!DirectoryNext]_(Directory!directory)

LEMMA SeenStutter ==
  ASSUME UNCHANGED contacts, \A m \in Mailbox : Seen(m)' = Seen(m)
  PROVE  DirectoryStep
BY DEF DirectoryStep, Directory!directory, StatusSeen, Seen

LEMMA SeenContact ==
  ASSUME NEW a \in Mailbox, NEW b \in Mailbox, UNCHANGED <<hash, account>>,
         \/ a # b /\ hash[a] # None /\ hash[b] # None /\ RowsTyped /\ contacts' = contacts \cup {<<a, b>>}
         \/ contacts' = contacts \ {<<a, b>>}
  PROVE  DirectoryStep
<1>1. StatusSeen' = StatusSeen
  BY DEF StatusSeen
<1>2. CASE a # b /\ hash[a] # None /\ hash[b] # None /\ RowsTyped /\ contacts' = contacts \cup {<<a, b>>}
  <2>1. StatusSeen[a] # "absent" /\ StatusSeen[b] # "absent"
    BY <1>2 DEF StatusSeen, RowsTyped, Account, Status
  <2>2. Directory!AddContact(a, b)
    BY <1>1, <1>2, <2>1 DEF Directory!AddContact, Directory!Exists
  <2> QED  BY <2>2 DEF DirectoryStep, Directory!DirectoryNext, Directory!ChangeContact
<1>3. CASE contacts' = contacts \ {<<a, b>>}
  <2>1. Directory!DropContact(a, b)
    BY <1>1, <1>3 DEF Directory!DropContact
  <2> QED  BY <2>1 DEF DirectoryStep, Directory!DirectoryNext, Directory!ChangeContact
<1> QED  BY <1>2, <1>3

LEMMA SeenRegistered ==
  ASSUME RowsTyped, NEW m \in Mailbox, NEW t \in Token, hash[m] = None,
         hash' = [hash EXCEPT ![m] = t], UNCHANGED <<account, contacts>>
  PROVE  DirectoryStep
<1>1. account[m] = None
  BY DEF RowsTyped
<1>2. StatusSeen' = [StatusSeen EXCEPT ![m] = "bare"] /\ StatusSeen[m] = "absent"
  BY <1>1, NoneAssumption DEF StatusSeen, RowsTyped
<1>3. Directory!Register(m)
  BY <1>2 DEF Directory!Register
<1> QED  BY <1>3 DEF DirectoryStep, Directory!DirectoryNext, Directory!ChangeAccount

LEMMA SeenStatus ==
  ASSUME RowsTyped, NEW m \in Mailbox, NEW a \in Account, hash[m] # None,
         account' = [account EXCEPT ![m] = a], UNCHANGED <<hash, contacts>>
  PROVE  DirectoryStep
<1>1. a # None /\ a.status \in Status
  BY NoneAssumption DEF Account
<1>2. StatusSeen' = [StatusSeen EXCEPT ![m] = a.status] /\ StatusSeen[m] # "absent"
  BY <1>1 DEF StatusSeen, RowsTyped, Account, Status
<1>3. CASE StatusSeen[m] = a.status
  BY <1>2, <1>3 DEF StatusSeen, DirectoryStep, Directory!directory
<1>4. CASE StatusSeen[m] # a.status
  <2>1. Directory!SetStatus(m, a.status)
    BY <1>2, <1>4 DEF Directory!SetStatus
  <2> QED
    BY <1>1, <2>1 DEF DirectoryStep, Directory!DirectoryNext, Directory!ChangeAccount,
       Directory!Status, Status
<1> QED  BY <1>3, <1>4

LEMMA SeenRemoved ==
  ASSUME RowsTyped, NEW m \in Mailbox, account[m] # None,
         hash' = [hash EXCEPT ![m] = None], account' = AccountsWithout(m),
         contacts' = {c \in contacts : m \notin {c[1], c[2]}}
  PROVE  DirectoryStep
<1>1. StatusSeen[m] \in Status
  BY DEF StatusSeen, RowsTyped, Account
<1>2. ASSUME NEW n \in Mailbox, n # m PROVE StatusSeen'[n] = StatusSeen[n]
  <2>1. hash'[n] = hash[n]
    BY <1>2 DEF RowsTyped
  <2>2. CASE account[n] # None /\ account[n].owner = m
    <3>1. account[n] \in Account /\ account'[n] = [account[n] EXCEPT !.owner = None]
      BY <1>2, <2>2 DEF AccountsWithout, RowsTyped
    <3>2. [account[n] EXCEPT !.owner = None] \in Account
      BY <3>1 DEF Account
    <3>3. account'[n].status = account[n].status
      BY <3>1 DEF Account
    <3> QED  BY <2>1, <2>2, <3>1, <3>2, <3>3, NoneAssumption DEF StatusSeen
  <2>3. CASE ~(account[n] # None /\ account[n].owner = m)
    <3>1. account'[n] = account[n]
      BY <1>2, <2>3 DEF AccountsWithout
    <3> QED  BY <2>1, <3>1 DEF StatusSeen
  <2> QED  BY <2>2, <2>3
<1>3. StatusSeen'[m] = "absent"
  BY DEF StatusSeen, RowsTyped
<1>4. StatusSeen' = [StatusSeen EXCEPT ![m] = "absent"]
  <2>1. StatusSeen' = [n \in Mailbox |-> StatusSeen'[n]]
    BY DEF StatusSeen
  <2>2. [StatusSeen EXCEPT ![m] = "absent"]
          = [n \in Mailbox |-> IF n = m THEN "absent" ELSE StatusSeen[n]]
    BY DEF StatusSeen
  <2> QED  BY <1>2, <1>3, <2>1, <2>2
<1>5. Directory!RemoveMailbox(m)
  BY <1>1, <1>4 DEF Directory!RemoveMailbox, Directory!Status, Status
<1> QED  BY <1>5 DEF DirectoryStep, Directory!DirectoryNext

LEMMA StepSeen ==
  ASSUME Typed, NEW h \in Handler, Step(h)
  PROVE  DirectoryStep
<1> DEFINE r == request[h]
<1>0. RowsTyped /\ RequestsTyped
  BY DEF Typed
<1>1. CASE UNCHANGED <<hash, account, contacts>>
  BY <1>1, SeenStutter DEF Seen
<1>2. CASE ~Abandon(h) /\ Step(h)
  <2>1. Busy(h) /\ request[h] \in Request /\ StageOK(request[h])
    BY <1>0, <1>2, AtStatement
       DEF Step, InsertMailbox, UpsertProfile, BootstrapProfile, Promote, CheckRole,
           InsertAccount, Answer, UpdateStatus, ResetSelect, Rotate, Demote, DeleteUser, Ensure,
           InsertContact, RemoveContact, Statement
  <2>2. PICK m \in Mailbox, b \in Mailbox : m = r.target /\ b = r.by
    BY <2>1 DEF Request
  <2>3. account[m] # None => account[m] \in Account /\ hash[m] # None
    BY <1>0 DEF RowsTyped
  <2>4. ASSUME account[m] # None, NEW s \in Status, account' = [account EXCEPT ![m].status = s],
               UNCHANGED <<hash, contacts>>
        PROVE  DirectoryStep
    <3>1. [account[m] EXCEPT !.status = s] \in Account
      BY <2>3, <2>4 DEF Account
    <3>2. account' = [account EXCEPT ![m] = [account[m] EXCEPT !.status = s]]
      BY <2>4
    <3> QED  BY <1>0, <2>3, <2>4, <3>1, <3>2, SeenStatus
  <2>5. CASE InsertMailbox(h)
    <3>1. r.token \in Token
      BY <2>1, <2>5 DEF InsertMailbox, StageOK
    <3> QED  BY <1>0, <1>1, <2>2, <2>5, <3>1, SeenRegistered DEF InsertMailbox
  <2>6. CASE UpsertProfile(h)
    <3>1. Upserted(m) \in Account
      BY <2>2, <2>3 DEF Upserted, Account, Role, Status
    <3> QED  BY <1>0, <1>1, <2>2, <2>6, <3>1, SeenStatus DEF UpsertProfile
  <2>7. CASE Promote(h)
    <3>1. [role |-> "admin", status |-> "active", owner |-> None] \in Account
      BY DEF Account, Role, Status
    <3> QED  BY <1>0, <1>1, <2>2, <2>7, <3>1, SeenStatus DEF Promote
  <2>8. CASE InsertAccount(h)
    <3>1. [role |-> "user", status |-> "provisioned", owner |-> b] \in Account
      BY DEF Account, Role, Status
    <3> QED  BY <1>0, <1>1, <2>2, <2>8, <3>1, SeenStatus DEF InsertAccount
  <2>9. CASE UpdateStatus(h)
    <3>1. r.op \in Status
      BY <2>1, <2>9 DEF UpdateStatus, StageOK
    <3> QED  BY <1>1, <2>2, <2>4, <2>9, <3>1 DEF UpdateStatus, Manages
  <2>10. CASE Rotate(h)
    <3>1. r.token \in Token
      BY <2>1, <2>10 DEF Rotate, StageOK
    <3>2. UNCHANGED <<account, contacts>> /\ \A n \in Mailbox : hash'[n] = None <=> hash[n] = None
      BY <1>0, <2>2, <2>10, <3>1, NoneAssumption DEF Rotate, RowsTyped
    <3> QED  BY <3>2, SeenStutter DEF Seen
  <2>11. CASE Demote(h)
    BY <1>1, <2>2, <2>4, <2>11 DEF Demote, Status
  <2>12. CASE DeleteUser(h)
    BY <1>0, <1>1, <2>2, <2>12, SeenRemoved DEF DeleteUser, Manages
  <2>13. CASE InsertContact(h)
    <3>1. b # m
      BY <2>1, <2>2, <2>13 DEF InsertContact, StageOK
    <3> QED  BY <1>0, <1>1, <2>2, <2>13, <3>1, SeenContact DEF InsertContact
  <2>14. CASE RemoveContact(h)
    BY <2>2, <2>14, SeenContact DEF RemoveContact
  <2> QED
    BY <1>1, <1>2, <2>5, <2>6, <2>7, <2>8, <2>9, <2>10, <2>11, <2>12, <2>13, <2>14
       DEF Step, BootstrapProfile, CheckRole, Answer, ResetSelect, Ensure
<1> QED  BY <1>1, <1>2 DEF Abandon

(* The requests, interleaved and dropped between any two statements,       *)
(* implement the directory the content handlers are composed with.         *)
THEOREM ImplementsDirectory == Spec => ImplementsTheDirectory
<1>1. Init => Directory!DirectoryInit
  BY DEF Init, Directory!DirectoryInit, StatusSeen
<1>2. Typed /\ [Next]_vars => DirectoryStep
  <2> SUFFICES ASSUME Typed, [Next]_vars PROVE DirectoryStep
    OBVIOUS
  <2>1. CASE UNCHANGED <<hash, account, contacts>>
    BY <2>1, SeenStutter DEF Seen
  <2>2. ASSUME NEW h \in Handler, Step(h) PROVE DirectoryStep
    BY <2>2, StepSeen
  <2>3. \A h, m, t : CreateLookup(h, m, t) \/ BootstrapLookup(h, m, t) => DirectoryStep
    BY <2>1 DEF CreateLookup, BootstrapLookup
  <2>4. \A h, c, op, m, t : AdminBegin(h, c, op, m, t) => DirectoryStep
    BY <2>1 DEF AdminBegin
  <2>5. \A h, c, op, m : ClientBegin(h, c, op, m) => DirectoryStep
    BY <2>1 DEF ClientBegin
  <2>6. CASE UNCHANGED vars
    BY <2>1, <2>6 DEF vars
  <2> QED  BY <2>2, <2>3, <2>4, <2>5, <2>6 DEF Next
<1> QED
  BY TypedInit, TypedStep, <1>1, <1>2, PTL
     DEF Spec, ImplementsTheDirectory, Directory!DirectorySpec, DirectoryStep
=============================================================================
