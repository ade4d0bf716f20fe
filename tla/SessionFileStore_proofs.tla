---------------------- MODULE SessionFileStore_proofs ----------------------
(***************************************************************************)
(* The session stores on a file system, for any number of clients and      *)
(* records: whatever call on a file fails, and wherever the process dies,  *)
(* they keep the promises of SessionStore.                                 *)
(***************************************************************************)
EXTENDS SessionFileStore, TLAPS

\* The steps of a save once its temporary file is complete.
Complete == {"written", "replacing", "renaming"}

(* The Rust and the Kotlin store run one operation at a time, ...          *)
OneAtATime ==
  platform # "swift" =>
    \A c, d \in Client : step[c] # "idle" /\ step[d] # "idle" => c = d

(* ... so a complete temporary file holds the record of the save that is   *)
(* about to rename it.                                                     *)
TempIsTheRecord ==
  \A c \in Client : step[c] \in Complete \cup {"writing"} =>
    /\ platform # "swift"
    /\ step[c] \in Complete => tmp = request[c].value

Inv == TypeOK /\ OneAtATime /\ TempIsTheRecord

LEMMA InvInit == Init => Inv
BY StoreConstantsAssumption DEF Init, Inv, TypeOK, OneAtATime, TempIsTheRecord, Step, Complete

LEMMA SaveHasValue ==
  ASSUME TypeOK, NEW c \in Client, NEW s \in Step, s # "idle", At(c, s, "save")
  PROVE  request[c].value \in Value
BY DEF TypeOK, At, Request

LEMMA InvStep == Inv /\ [Next]_vars => Inv'
<1> SUFFICES ASSUME Inv, [Next]_vars PROVE Inv'
  OBVIOUS
<1> USE StoreConstantsAssumption DEF Inv
<1>1. CASE UNCHANGED vars
  BY <1>1 DEF vars, TypeOK, OneAtATime, TempIsTheRecord
<1>2. CASE Crash
  BY <1>2 DEF Crash, TypeOK, OneAtATime, TempIsTheRecord, Step, Complete
<1>3. ASSUME NEW c \in Client, NEW r \in Request, Invoke(c, r) PROVE Inv'
  <2>2. TypeOK'
    BY <1>3, RequestAssumption DEF Invoke, GoTo, TypeOK, Step
  <2>3. OneAtATime'
    BY <1>3 DEF Invoke, GoTo, TypeOK, OneAtATime
  <2>4. TempIsTheRecord'
    BY <1>3 DEF Invoke, GoTo, TypeOK, TempIsTheRecord, Complete
  <2> QED  BY <2>2, <2>3, <2>4
<1>4. ASSUME NEW c \in Client, Respond(c) PROVE Inv'
  <2>2. TypeOK'
    BY <1>4 DEF Respond, TypeOK, Step
  <2>3. OneAtATime'
    BY <1>4 DEF Respond, TypeOK, OneAtATime
  <2>4. TempIsTheRecord'
    BY <1>4 DEF Respond, TypeOK, TempIsTheRecord, Complete
  <2> QED  BY <2>2, <2>3, <2>4
<1>5. ASSUME NEW c \in Client, Saving(c) \/ Loading(c) \/ Deleting(c) PROVE Inv'
  <2>1. /\ step[c] \notin {"idle", "end"} /\ UNCHANGED <<platform, request, seen>>
        /\ request[c] # None
        /\ \/ \E s \in Step \ {"idle", "end"} : GoTo(c, s)
           \/ \E a \in Value \cup {Done, Error} : Finish(c, a)
    BY <1>5, SaveHasValue
       DEF Saving, Loading, Deleting, OpenTemp, WriteTemp, FailWrite, LookForOld, RemoveOld,
           FailRemoveOld, Rename, FailRename, WriteAtomically, LookForSession, ReadSession,
           FailReadSession, LookForDeletion, RemoveSession, FailRemoveSession, At, TypeOK, Step
  <2>2. /\ path' \in Value \cup {None} /\ tmp' \in Value \cup {None, Torn}
    <3>1. \A s \in Step : s # "idle" /\ At(c, s, "save") => request[c].value \in Value
      BY SaveHasValue
    <3>2. Rename(c) => path' = request[c].value /\ At(c, "renaming", "save") /\ tmp' = None
      BY DEF Rename, At, TempIsTheRecord, Complete
    <3> QED
      BY <1>5, <3>1, <3>2
         DEF Saving, Loading, Deleting, OpenTemp, WriteTemp, FailWrite, LookForOld, RemoveOld,
             FailRemoveOld, FailRename, WriteAtomically, LookForSession, ReadSession, GiveUpTemp,
             FailReadSession, LookForDeletion, RemoveSession, FailRemoveSession, TypeOK, Step
  <2>3. TypeOK'
    BY <2>1, <2>2 DEF GoTo, Finish, TypeOK, Step
  <2>4. OneAtATime'
    BY <2>1 DEF GoTo, Finish, TypeOK, OneAtATime
  <2>5. TempIsTheRecord'
    <3>1. \A d \in Client \ {c} : step'[d] = step[d] /\ (platform # "swift" => step[d] = "idle")
      BY <2>1 DEF GoTo, Finish, TypeOK, OneAtATime
    <3>2. step'[c] = "writing" => platform # "swift"
      BY <1>5 DEF Saving, Loading, Deleting, OpenTemp, WriteTemp, FailWrite, LookForOld,
             RemoveOld, FailRemoveOld, Rename, FailRename, WriteAtomically, LookForSession,
             ReadSession, FailReadSession, LookForDeletion, RemoveSession, FailRemoveSession,
             GoTo, Finish, TypeOK
    <3>3. step'[c] \in Complete => platform # "swift" /\ tmp' = request[c].value
      BY <1>5 DEF Saving, Loading, Deleting, OpenTemp, WriteTemp, FailWrite, LookForOld,
             RemoveOld, FailRemoveOld, Rename, FailRename, WriteAtomically, LookForSession,
             ReadSession, FailReadSession, LookForDeletion, RemoveSession, FailRemoveSession,
             GoTo, Finish, At, TypeOK, TempIsTheRecord, Complete
    <3> QED  BY <2>1, <3>1, <3>2, <3>3 DEF TempIsTheRecord, Complete
  <2> QED  BY <2>3, <2>4, <2>5
<1> QED  BY <1>1, <1>2, <1>3, <1>4, <1>5 DEF Next

(* The session file is a complete record at every instant.                 *)
THEOREM NeverTorn == Spec => []TypeOK
<1>1. Inv => TypeOK
  BY DEF Inv
<1> QED  BY InvInit, InvStep, <1>1, PTL DEF Spec

(* What moves into the session file is the record of a save in progress.   *)
THEOREM OnlySavedRecords == Spec => NothingLeftOverIsSaved
<1>1. Inv /\ [Next]_vars =>
        [path' \notin {path, None} =>
           \E c \in Client : request[c] # None /\ request[c].call = "save"
                             /\ path' = request[c].value]_vars
  <2> SUFFICES ASSUME Inv, Next, path' \notin {path, None}
               PROVE  \E c \in Client : request[c] # None /\ request[c].call = "save"
                                        /\ path' = request[c].value
    OBVIOUS
  <2>1. PICK c \in Client : Rename(c) \/ WriteAtomically(c)
    BY DEF Next, Crash, Invoke, Respond, Saving, Loading, Deleting, OpenTemp, WriteTemp,
       FailWrite, LookForOld, RemoveOld, FailRemoveOld, FailRename, LookForSession, ReadSession,
       FailReadSession, LookForDeletion, RemoveSession, FailRemoveSession
  <2>2. request[c].call = "save" /\ path' = request[c].value /\ step[c] # "idle"
    BY <2>1 DEF Rename, WriteAtomically, At, Inv, TempIsTheRecord, Complete
  <2> QED  BY <2>2 DEF Inv, TypeOK
<1> QED  BY InvInit, InvStep, <1>1, PTL DEF Spec, NothingLeftOverIsSaved

-----------------------------------------------------------------------------
(* The calls on files add up to the store.                                 *)

StoreStep == [Store!Next]_(Store!storeVars)

(* A step of one operation is what the caller was promised, or unseen.     *)
LEMMA StepIsPromised ==
  ASSUME Inv, NEW c \in Client, Saving(c) \/ Loading(c) \/ Deleting(c)
  PROVE  StoreStep
<1>1. CASE UNCHANGED <<path, request, answer>>
  BY <1>1 DEF StoreStep, Store!storeVars
<1>2. step[c] \notin {"idle", "end"} => request[c] # None /\ answer[c] = None
  BY DEF Inv, TypeOK
<1>3. CASE \/ FailWrite(c) \/ FailRemoveOld(c) \/ FailRename(c) \/ FailReadSession(c)
           \/ FailRemoveSession(c)
  <2>1. Store!Refuse(c)
    BY <1>2, <1>3 DEF FailWrite, FailRemoveOld, FailRename, FailReadSession, FailRemoveSession,
       Finish, At, Store!Refuse, Store!Waiting
  <2> QED  BY <2>1 DEF StoreStep, Store!Next
<1>4. CASE Rename(c) \/ WriteAtomically(c)
  <2>1. path' = request[c].value
    BY <1>4 DEF Rename, WriteAtomically, At, Inv, TempIsTheRecord, Complete
  <2>2. Store!Save(c)
    BY <1>2, <1>4, <2>1 DEF Rename, WriteAtomically, Finish, At, Store!Save, Store!Waiting
  <2> QED  BY <2>2 DEF StoreStep, Store!Next
<1>5. CASE RemoveOld(c)
  <2>1. Store!Lose(c)
    BY <1>2, <1>5 DEF RemoveOld, GoTo, At, Store!Lose, Store!Waiting
  <2> QED  BY <2>1 DEF StoreStep, Store!Next
<1>6. CASE LookForSession(c) \/ ReadSession(c)
  <2>1. CASE UNCHANGED answer
    BY <1>1, <1>6, <2>1 DEF LookForSession, ReadSession
  <2>2. CASE Finish(c, IF path = None THEN Done ELSE path)
    <3>1. Store!Load(c)
      BY <1>2, <1>6, <2>2 DEF LookForSession, ReadSession, Finish, At, Store!Load, Store!Waiting
    <3> QED  BY <3>1 DEF StoreStep, Store!Next
  <2> QED  BY <1>6, <2>1, <2>2 DEF LookForSession, ReadSession, GoTo
<1>7. CASE LookForDeletion(c) \/ RemoveSession(c)
  <2>1. CASE UNCHANGED <<answer, path>>
    BY <1>1, <1>7, <2>1 DEF LookForDeletion, RemoveSession
  <2>2. CASE Finish(c, Done) /\ path' = None
    <3>1. Store!Delete(c)
      BY <1>2, <1>7, <2>2 DEF LookForDeletion, RemoveSession, Finish, At, Store!Delete,
         Store!Waiting
    <3> QED  BY <3>1 DEF StoreStep, Store!Next
  <2> QED  BY <1>7, <2>1, <2>2 DEF LookForDeletion, RemoveSession, GoTo
<1>8. CASE OpenTemp(c) \/ WriteTemp(c) \/ LookForOld(c)
  BY <1>1, <1>8 DEF OpenTemp, WriteTemp, LookForOld, GoTo
<1> QED  BY <1>3, <1>4, <1>5, <1>6, <1>7, <1>8 DEF Saving, Loading, Deleting

(* A save, a load and a delete that succeed take effect at one instant;    *)
(* one that fails loses at most the record a save was replacing.           *)
THEOREM FilesImplementTheStore == Spec => ImplementsStore
<1>1. Init => Store!Init
  BY DEF Init, Store!Init
<1>2. Inv /\ [Next]_vars => StoreStep
  <2> SUFFICES ASSUME Inv, [Next]_vars PROVE StoreStep
    OBVIOUS
  <2>1. CASE UNCHANGED vars
    BY <2>1 DEF vars, StoreStep, Store!storeVars
  <2>2. CASE Crash
    <3>1. Store!Crash
      BY <2>2 DEF Crash, Store!Crash
    <3> QED  BY <3>1 DEF StoreStep, Store!Next
  <2>3. ASSUME NEW c \in Client, NEW r \in Request, Invoke(c, r) PROVE StoreStep
    <3>1. Store!Invoke(c, r) /\ r \in Store!Request
      BY <2>3 DEF Invoke, GoTo, Store!Invoke, Store!Request, Request, Inv, TypeOK
    <3> QED  BY <3>1 DEF StoreStep, Store!Next
  <2>4. ASSUME NEW c \in Client, Respond(c) PROVE StoreStep
    <3>1. Store!Respond(c)
      BY <2>4 DEF Respond, Store!Respond, Inv, TypeOK
    <3> QED  BY <3>1 DEF StoreStep, Store!Next
  <2> QED  BY <2>1, <2>2, <2>3, <2>4, StepIsPromised DEF Next
<1> QED
  BY InvInit, InvStep, <1>1, <1>2, PTL DEF Spec, ImplementsStore, Store!Spec, StoreStep
=============================================================================
