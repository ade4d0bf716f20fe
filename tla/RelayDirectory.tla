--------------------------- MODULE RelayDirectory ---------------------------
(***************************************************************************)
(* What the relay's other handlers see of mailboxes, accounts and          *)
(* contacts, and the clock.  RelayAccounts has the requests that change    *)
(* them, statement by statement, and implements this module.               *)
(***************************************************************************)
EXTENDS Naturals

CONSTANTS Mailbox,
          None,        \* no row
          MaxTime      \* bound: the clock

ASSUME TimeAssumption == MaxTime \in Nat

VARIABLES now,
          status,      \* "absent", "bare" (no account), or the account's status
          contacts     \* <<owner, contact>>

directory == <<now, status, contacts>>

Status == {"provisioned", "active", "disabled"}

(* authenticate_mailbox, for the holder of the mailbox's token.            *)
Authenticates(m) == status[m] \notin {"absent", "disabled"}

Exists(m) == status[m] # "absent"

Active(m) == status[m] = "active"

DirectoryInit ==
  /\ now = 1
  /\ status = [m \in Mailbox |-> "absent"]
  /\ contacts = {}

Tick ==
  /\ now < MaxTime
  /\ now' = now + 1
  /\ UNCHANGED <<status, contacts>>

Register(m) ==
  /\ status[m] = "absent"
  /\ status' = [status EXCEPT ![m] = "bare"]
  /\ UNCHANGED <<now, contacts>>

(* A profile is made, or its status changes.                               *)
SetStatus(m, s) ==
  /\ status[m] \notin {"absent", s}
  /\ status' = [status EXCEPT ![m] = s]
  /\ UNCHANGED <<now, contacts>>

(* admin_delete_managed_user: an account goes with its mailbox and all     *)
(* that refers to it.                                                      *)
RemoveMailbox(m) ==
  /\ status[m] \in Status
  /\ status' = [status EXCEPT ![m] = "absent"]
  /\ contacts' = {c \in contacts : m \notin {c[1], c[2]}}
  /\ UNCHANGED now

AddContact(a, b) ==
  /\ a # b /\ Exists(a) /\ Exists(b)
  /\ contacts' = contacts \cup {<<a, b>>}
  /\ UNCHANGED <<now, status>>

DropContact(a, b) ==
  /\ contacts' = contacts \ {<<a, b>>}
  /\ UNCHANGED <<now, status>>

ChangeAccount(m) == Register(m) \/ \E s \in Status : SetStatus(m, s)

ChangeContact == \E a, b \in Mailbox : AddContact(a, b) \/ DropContact(a, b)

DirectoryNext ==
  \/ Tick \/ ChangeContact
  \/ \E m \in Mailbox : ChangeAccount(m) \/ RemoveMailbox(m)

DirectorySpec == DirectoryInit /\ [][DirectoryNext]_directory
=============================================================================
