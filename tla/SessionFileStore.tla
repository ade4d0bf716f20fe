-------------------------- MODULE SessionFileStore --------------------------
(***************************************************************************)
(* The session stores on a file system, for one session id.  comm-core's   *)
(* EncryptedFileDoubleRatchetSessionStore (rust) and Android's             *)
(* AndroidEncryptedRatchetStore (kotlin) write a temporary file, remove the*)
(* old file and rename; iOS (swift) writes atomically.  One action per file*)
(* system call, each of which may fail, and the process may die between    *)
(* two of them.  Encryption is left out: a record is readable exactly when *)
(* it was written completely.                                              *)
(*                                                                         *)
(* The desktop's commands call the Rust store under one mutex; the Kotlin  *)
(* store is called the same way; the Swift store by concurrent tasks.      *)
(***************************************************************************)
CONSTANTS Client, Value, None, Done, Error,
          Torn,       \* a file that was truncated and not completely written
          Platforms   \* the stores to look at, of "rust", "kotlin" and "swift"

ASSUME StoreConstantsAssumption ==
  /\ None \notin Value /\ Done \notin Value /\ Error \notin Value /\ Torn \notin Value
  /\ None # Done /\ None # Error /\ Done # Error /\ Torn \notin {None, Done, Error}
  /\ Platforms \subseteq {"rust", "kotlin", "swift"}

VARIABLES platform, \* which store this is
          path,     \* the session file: a record, Torn or None
          tmp,      \* the temporary file
          step,     \* where each client is in its operation
          request,  \* the operation, or None
          answer,   \* its result, or None
          seen      \* history: "saved" once a save succeeded, "delete" once one began

vars == <<platform, path, tmp, step, request, answer, seen>>

Request == [call : {"save"}, value : Value] \cup [call : {"load", "delete"}]

ASSUME RequestAssumption == None \notin Request

Step == {"idle", "start", "writing", "written", "replacing", "renaming",
         "reading", "removing", "end"}

Init ==
  /\ platform \in Platforms
  /\ path = None /\ tmp = None
  /\ step = [c \in Client |-> "idle"]
  /\ request = [c \in Client |-> None]
  /\ answer = [c \in Client |-> None]
  /\ seen = {}

GoTo(c, s) == step' = [step EXCEPT ![c] = s] /\ UNCHANGED answer

At(c, s, call) == step[c] = s /\ request[c].call = call

Finish(c, a) ==
  /\ step' = [step EXCEPT ![c] = "end"]
  /\ answer' = [answer EXCEPT ![c] = a]

Invoke(c, r) ==
  /\ step[c] = "idle"
  /\ platform # "swift" => \A d \in Client : step[d] = "idle"
  /\ GoTo(c, "start")
  /\ request' = [request EXCEPT ![c] = r]
  /\ seen' = IF r.call = "delete" THEN seen \cup {"delete"} ELSE seen
  /\ UNCHANGED <<platform, path, tmp>>

Respond(c) ==
  /\ step[c] = "end"
  /\ step' = [step EXCEPT ![c] = "idle"]
  /\ request' = [request EXCEPT ![c] = None]
  /\ answer' = [answer EXCEPT ![c] = None]
  /\ seen' = IF request[c].call = "save" /\ answer[c] = Done
             THEN seen \cup {"saved"} ELSE seen
  /\ UNCHANGED <<platform, path, tmp>>

-----------------------------------------------------------------------------
(* save_session and saveSession: write the temporary file, which the open  *)
(* truncates, ...                                                          *)

(* Mutant: the session file itself is opened for writing.                   *)
OpenInPlace(c) ==
  /\ At(c, "start", "save") /\ platform # "swift"
  /\ GoTo(c, "writing")
  /\ path' = Torn
  /\ UNCHANGED <<platform, tmp, request, seen>>

(* Mutant: a temporary file that exists is taken for this save's.           *)
OpenTempUnlessThere(c) ==
  /\ At(c, "start", "save") /\ platform # "swift"
  /\ IF tmp = None
     THEN tmp' = Torn /\ GoTo(c, "writing")
     ELSE GoTo(c, "written") /\ UNCHANGED tmp
  /\ UNCHANGED <<platform, path, request, seen>>

OpenTemp(c) ==
  /\ At(c, "start", "save") /\ platform # "swift"
  /\ GoTo(c, "writing")
  /\ tmp' = Torn
  /\ UNCHANGED <<platform, path, request, seen>>

WriteTemp(c) ==
  /\ At(c, "writing", "save")
  /\ GoTo(c, "written")
  /\ tmp' = request[c].value
  /\ UNCHANGED <<platform, path, request, seen>>

(* The directory, the encryption or the write fails, on every platform.    *)
FailWrite(c) ==
  /\ At(c, "start", "save") \/ At(c, "writing", "save")
  /\ Finish(c, Error)
  /\ UNCHANGED <<platform, path, tmp, request, seen>>

(* ... look for an old file, ...                                           *)
LookForOld(c) ==
  /\ At(c, "written", "save")
  /\ GoTo(c, IF path = None THEN "renaming" ELSE "replacing")
  /\ UNCHANGED <<platform, path, tmp, request, seen>>

(* ... remove it, ...                                                      *)
RemoveOld(c) ==
  /\ At(c, "replacing", "save")
  /\ path' = None
  /\ GoTo(c, "renaming")
  /\ UNCHANGED <<platform, tmp, request, seen>>

(* What becomes of the temporary file when a save gives up after writing   *)
(* it: Rust leaves it, Kotlin deletes it.                                  *)
GiveUpTemp == tmp' = IF platform = "kotlin" THEN None ELSE tmp

FailRemoveOld(c) ==
  /\ At(c, "replacing", "save")
  /\ Finish(c, Error)
  /\ GiveUpTemp
  /\ UNCHANGED <<platform, path, request, seen>>

(* ... and rename.                                                         *)
Rename(c) ==
  /\ At(c, "renaming", "save")
  /\ Finish(c, Done)
  /\ path' = tmp /\ tmp' = None
  /\ UNCHANGED <<platform, request, seen>>

FailRename(c) ==
  /\ At(c, "renaming", "save")
  /\ Finish(c, Error)
  /\ GiveUpTemp
  /\ UNCHANGED <<platform, path, request, seen>>

(* iOS: Data.write with .atomic moves a private file over the old one.     *)
WriteAtomically(c) ==
  /\ At(c, "start", "save") /\ platform = "swift"
  /\ Finish(c, Done)
  /\ path' = request[c].value
  /\ UNCHANGED <<platform, tmp, request, seen>>

-----------------------------------------------------------------------------
(* load_session: no file is no session; a file that went away, cannot be   *)
(* read or does not decrypt is an error.  The temporary file is never read.*)
LookForSession(c) ==
  /\ At(c, "start", "load")
  /\ IF path = None THEN Finish(c, Done) ELSE GoTo(c, "reading")
  /\ UNCHANGED <<platform, path, tmp, request, seen>>

ReadSession(c) ==
  /\ At(c, "reading", "load")
  /\ path \notin {None, Torn}
  /\ Finish(c, path)
  /\ UNCHANGED <<platform, path, tmp, request, seen>>

FailReadSession(c) ==
  /\ At(c, "reading", "load")
  /\ Finish(c, Error)
  /\ UNCHANGED <<platform, path, tmp, request, seen>>

(* delete_session.                                                         *)
LookForDeletion(c) ==
  /\ At(c, "start", "delete")
  /\ IF path = None THEN Finish(c, Done) ELSE GoTo(c, "removing")
  /\ UNCHANGED <<platform, path, tmp, request, seen>>

RemoveSession(c) ==
  /\ At(c, "removing", "delete")
  /\ path # None
  /\ Finish(c, Done)
  /\ path' = None
  /\ UNCHANGED <<platform, tmp, request, seen>>

(* Mutant: the error of the removal is ignored.                             *)
FailRemoveSessionSilently(c) ==
  /\ At(c, "removing", "delete")
  /\ Finish(c, Done)
  /\ UNCHANGED <<platform, path, tmp, request, seen>>

FailRemoveSession(c) ==
  /\ At(c, "removing", "delete")
  /\ Finish(c, Error)
  /\ UNCHANGED <<platform, path, tmp, request, seen>>

-----------------------------------------------------------------------------
(* The process dies: every operation is forgotten, the files stay.         *)
Crash ==
  /\ \E c \in Client : step[c] # "idle"
  /\ step' = [c \in Client |-> "idle"]
  /\ request' = [c \in Client |-> None]
  /\ answer' = [c \in Client |-> None]
  /\ UNCHANGED <<platform, path, tmp, seen>>

Saving(c) ==
  \/ OpenTemp(c) \/ WriteTemp(c) \/ FailWrite(c)
  \/ LookForOld(c) \/ RemoveOld(c) \/ FailRemoveOld(c) \/ Rename(c) \/ FailRename(c)
  \/ WriteAtomically(c)

Loading(c) == LookForSession(c) \/ ReadSession(c) \/ FailReadSession(c)

Deleting(c) == LookForDeletion(c) \/ RemoveSession(c) \/ FailRemoveSession(c)

Next ==
  \/ Crash
  \/ \E c \in Client :
       \/ \E r \in Request : Invoke(c, r)
       \/ Saving(c) \/ Loading(c) \/ Deleting(c) \/ Respond(c)

Spec == Init /\ [][Next]_vars

-----------------------------------------------------------------------------
(* Properties.                                                             *)

(* The session file is a complete record at every instant: a crash or an   *)
(* error during the write tears the temporary file only.  An operation has *)
(* a request from its call to its response, and a result at its end.       *)
TypeOK ==
  /\ platform \in Platforms
  /\ path \in Value \cup {None}
  /\ tmp \in Value \cup {None, Torn}
  /\ step \in [Client -> Step]
  /\ request \in [Client -> Request \cup {None}]
  /\ answer \in [Client -> Value \cup {None, Done, Error}]
  /\ seen \subseteq {"saved", "delete"}
  /\ \A c \in Client : /\ step[c] = "idle" <=> request[c] = None
                       /\ step[c] = "end" <=> answer[c] # None

(* What moves into the session file is the record of a save in progress,   *)
(* never what an interrupted save left in the temporary file: a session    *)
(* that was advanced is not rolled back.                                   *)
NothingLeftOverIsSaved ==
  [][path' \notin {path, None} =>
       \E c \in Client : request[c] # None /\ request[c].call = "save"
                         /\ path' = request[c].value]_vars

(* Once a save succeeded, and unless a deletion was asked for, there is a  *)
(* readable record whenever nothing runs: the replacement of the old record*)
(* by the new one is atomic, as the desktop's README says of its store and *)
(* a comment of Android's.                                                 *)
SavedRecordSurvives ==
  (seen = {"saved"} /\ \A c \in Client : step[c] = "idle") => path \in Value

Store == INSTANCE SessionStore WITH stored <- path

(* The calls on files add up to the store its callers were promised.       *)
ImplementsStore == Store!Spec
=============================================================================
