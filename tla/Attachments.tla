---------------------------- MODULE Attachments -----------------------------
(***************************************************************************)
(* The attachments of one project and its Tasks: AttachmentsService, which *)
(* writes to two resources that share no transaction, the File table and   *)
(* an object store (LocalFileStorage), and undoes the write to the one     *)
(* when the other fails.                                                   *)
(*                                                                         *)
(* Uploads, removals and deletions of Tasks run concurrently.  What can go *)
(* wrong besides, Faults says: the store fails, the five seconds of an     *)
(* interactive transaction are over while the code still waits for the     *)
(* store, the process crashes, or the answer to a COMMIT is lost.          *)
(***************************************************************************)
EXTENDS Integers, FiniteSets, RowLocks

CONSTANTS
  Users, Tasks,
  Files,                 \* the ids of File rows; each has its own storage key
  Requests,              \* the requests that can be open at the same time
  Faults                 \* what can go wrong, of the list below

ASSUME FaultsAssumption ==
  Faults \subseteq {"storage", "tornWrite", "timeout", "crash", "lostCommit"}

Kinds == {"upload", "remove", "removeTask"}

PCs == {"idle", "store", "insert", "commit", "compensate", "lockFile", "find", "read", "unlink",
        "deleteRow", "restore", "lockProject", "lockTask", "deleteTask"}

ASSUME FileNoneAssumption ==
  None \notin Users \cup Tasks \cup Files \cup Requests \cup Kinds

VARIABLES
  tasks,                 \* the Tasks that exist
  access,                \* the users with access to the project
  owners,                \* those of them with owner authority
  file,                  \* file[f]: the committed File row, or NoFile
  objects,               \* the storage keys with an object
  logged,                \* the keys that an error in the log names for repair
  hit,                   \* history: the keys hit by a fault that no code handles
  pc,                    \* pc[r]: what request r does next
  req,                   \* req[r]: what it is asked
  open                   \* the requests whose transaction is open

vars == <<tasks, access, owners, file, objects, logged, hit, pc, req, open, holder, sharers>>

\* A row of Task scope, or of Project scope (task = None).
NoFile == [uploader |-> None, task |-> None]
File == [uploader : Users, task : Tasks \cup {None}]

NoRequest == [kind |-> None, user |-> None, file |-> None, task |-> None]
Request == [kind : Kinds, user : Users, file : Files \cup {None}, task : Tasks \cup {None}]

Project == <<"Project", None>>
LockRows == {Project} \cup ({"File"} \X Files) \cup ({"Task"} \X Tasks)

Stored == {f \in Files : file[f] # NoFile}

TaskRow(t) == {<<"Task", u>> : u \in {t} \cap Tasks}

-----------------------------------------------------------------------------
(* Transactions.                                                           *)

\* The rows the next statement of r locks FOR UPDATE.
Wants(r) ==
  CASE pc[r] = "lockFile" -> {<<"File", req[r].file>>}
    [] pc[r] = "lockProject" -> {Project}
    [] pc[r] = "lockTask" -> TaskRow(req[r].task)
    [] pc[r] = "deleteTask" -> {"File"} \X {f \in Stored : file[f].task = req[r].task}
    [] OTHER -> {}

\* The rows it refers to: a File and the Activity about it belong to the
\* Project and perhaps to a Task.
RefersTo(r) ==
  IF pc[r] \in {"insert", "deleteRow"} THEN {Project} \cup TaskRow(req[r].task) ELSE {}

Granted(r) ==
  /\ \A x \in Wants(r) : CanForUpdate(r, x)
  /\ \A x \in RefersTo(r) : CanKeyShare(r, x)

Goto(r, next) == pc' = [pc EXCEPT ![r] = next]

tables == <<tasks, access, owners, file, objects, logged, hit>>

\* The statement succeeds and keeps its locks.
Lock(r, next) ==
  /\ ForUpdate(r, Wants(r))
  /\ KeyShare(r, RefersTo(r))
  /\ Goto(r, next)
  /\ UNCHANGED <<tables, req, open>>

\* Mutant: the transaction is left open.
CloseKeepingLocks(r, next) ==
  /\ Goto(r, next)
  /\ req' = IF next = "idle" THEN [req EXCEPT ![r] = NoRequest] ELSE req
  /\ UNCHANGED <<open, holder, sharers>>

\* The transaction of r ends; the code of r goes on with next.
Close(r, next) ==
  /\ ReleaseLocks(r)
  /\ open' = open \ {r}
  /\ Goto(r, next)
  /\ req' = IF next = "idle" THEN [req EXCEPT ![r] = NoRequest] ELSE req

\* What the catch block does: upload deletes the object it has stored, remove
\* stores the object it has deleted.
Recovery(r) ==
  CASE req[r].kind = "upload" -> "compensate"
    [] req[r].kind = "remove" /\ pc[r] \in {"deleteRow", "commit"} -> "restore"
    [] OTHER -> "idle"

Rollback(r) == Close(r, Recovery(r)) /\ UNCHANGED tables

\* A step outside any transaction, or between two statements.
Proceed(r, next) ==
  /\ Goto(r, next)
  /\ req' = IF next = "idle" THEN [req EXCEPT ![r] = NoRequest] ELSE req
  /\ UNCHANGED <<tasks, access, owners, file, holder, sharers>>

Answer(r) == Proceed(r, "idle")

StorageFails == "storage" \in Faults

-----------------------------------------------------------------------------
(* uploadProject and uploadTask.                                           *)

\* assertProjectAccess or resolveTaskProject, before anything is stored.  The
\* key is fresh.
BeginUpload(r) ==
  /\ pc[r] = "idle"
  /\ \E u \in access, t \in tasks \cup {None}, f \in Files \ (Stored \cup objects) :
       /\ \A q \in Requests : req[q].file # f
       /\ req' = [req EXCEPT ![r] = [kind |-> "upload", user |-> u, file |-> f, task |-> t]]
  /\ Goto(r, "store")
  /\ UNCHANGED <<tables, open, holder, sharers>>

\* storeOrThrow: 503 when the store fails.  A write that is cut off leaves the
\* file it has opened behind.
StoreObject(r) ==
  /\ pc[r] = "store"
  /\ \/ /\ objects' = objects \cup {req[r].file}
        /\ open' = open \cup {r}
        /\ Proceed(r, "insert")
        /\ UNCHANGED hit
     \/ /\ StorageFails
        /\ Answer(r)
        /\ UNCHANGED <<objects, hit, open>>
     \/ /\ "tornWrite" \in Faults
        /\ objects' = objects \cup {req[r].file}
        /\ hit' = hit \cup {req[r].file}
        /\ Answer(r)
        /\ UNCHANGED open
  /\ UNCHANGED logged

\* Access and Task are read again in the transaction; then the File and its
\* Activity are inserted.
InsertFile(r) ==
  /\ pc[r] = "insert" /\ Granted(r)
  /\ IF req[r].user \in access /\ req[r].task \in tasks \cup {None}
     THEN Lock(r, "commit")
     ELSE Rollback(r)

\* Mutant: the object is left where it is.
CompensateNot(r) ==
  pc[r] = "compensate" /\ Answer(r) /\ UNCHANGED <<objects, logged, hit, open>>

\* The object is deleted again, or the log says that it could not be.
Compensate(r) ==
  /\ pc[r] = "compensate" /\ Answer(r) /\ UNCHANGED <<hit, open>>
  /\ \/ /\ req[r].file \in objects
        /\ objects' = objects \ {req[r].file}
        /\ UNCHANGED logged
     \/ /\ req[r].file \notin objects \/ StorageFails
        /\ logged' = logged \cup {req[r].file}
        /\ UNCHANGED objects

-----------------------------------------------------------------------------
(* removeProject and removeTask.                                           *)

\* The route names the scope; a Task has to exist.
BeginRemove(r) ==
  /\ pc[r] = "idle"
  /\ \E u \in access, t \in tasks \cup {None}, f \in Stored :
       req' = [req EXCEPT ![r] = [kind |-> "remove", user |-> u, file |-> f, task |-> t]]
  /\ Goto(r, "lockFile")
  /\ open' = open \cup {r}
  /\ UNCHANGED <<tables, holder, sharers>>

\* SELECT "id" FROM "File" ... FOR UPDATE: 404 when the row is gone.
LockFile(r) ==
  /\ pc[r] = "lockFile" /\ Granted(r)
  /\ IF req[r].file \in Stored THEN Lock(r, "find") ELSE Rollback(r)

\* The uploader, or somebody with owner authority.
Entitled(r) ==
  req[r].user \in access /\ (file[req[r].file].uploader = req[r].user \/ req[r].user \in owners)

\* The row is read again under the lock: 404 in another scope, 403 or 404 for
\* somebody who is not entitled.
FindFile(r) ==
  /\ pc[r] = "find"
  /\ IF file[req[r].file].task = req[r].task /\ Entitled(r)
     THEN Proceed(r, "read") /\ UNCHANGED <<objects, logged, hit, open>>
     ELSE Rollback(r)

\* The contents are read for a later restore: 409 without an object, 503 when
\* the store fails.
ReadObject(r) ==
  /\ pc[r] = "read"
  /\ \/ req[r].file \in objects /\ Proceed(r, "unlink") /\ UNCHANGED <<objects, logged, hit, open>>
     \/ (req[r].file \notin objects \/ StorageFails) /\ Rollback(r)

\* Mutant: an object that is gone already counts as deleted.
UnlinkObjectIfThere(r) ==
  /\ pc[r] = "unlink"
  /\ \/ /\ objects' = objects \ {req[r].file}
        /\ Proceed(r, "deleteRow")
        /\ UNCHANGED <<logged, hit, open>>
     \/ StorageFails /\ Rollback(r)

\* 409 without an object, again; 503 when the store fails, with the row kept.
UnlinkObject(r) ==
  /\ pc[r] = "unlink"
  /\ \/ /\ req[r].file \in objects
        /\ objects' = objects \ {req[r].file}
        /\ Proceed(r, "deleteRow")
        /\ UNCHANGED <<logged, hit, open>>
     \/ (req[r].file \notin objects \/ StorageFails) /\ Rollback(r)

\* The row is deleted and its Activity inserted, if the transaction still is
\* open.
DeleteRow(r) ==
  /\ pc[r] = "deleteRow"
  /\ IF r \in open THEN Granted(r) /\ Lock(r, "commit") ELSE Rollback(r)

\* Mutant: the object that was deleted is forgotten.
RestoreNot(r) == pc[r] = "restore" /\ Answer(r) /\ UNCHANGED <<objects, logged, hit, open>>

\* The object is written under its key again, which must be free.
Restore(r) ==
  /\ pc[r] = "restore" /\ Answer(r) /\ UNCHANGED <<hit, open>>
  /\ \/ /\ req[r].file \notin objects
        /\ objects' = objects \cup {req[r].file}
        /\ UNCHANGED logged
     \/ /\ req[r].file \in objects \/ StorageFails
        /\ logged' = logged \cup {req[r].file}
        /\ UNCHANGED objects
     \/ /\ "tornWrite" \in Faults
        /\ req[r].file \notin objects
        /\ objects' = objects \cup {req[r].file}
        /\ logged' = logged \cup {req[r].file}

-----------------------------------------------------------------------------
\* Mutant: the row does not say whose it is.
NewFileOfNobody(r) == [NoFile EXCEPT !.task = req[r].task]

NewFile(r) == [uploader |-> req[r].user, task |-> req[r].task]

\* The row of an upload appears, that of a removal disappears; the others get
\* to see it when the transaction commits.  If the answer to the COMMIT is
\* lost, the code takes it for a failure.
Commit(r) ==
  /\ pc[r] = "commit" /\ r \in open
  /\ file' = [file EXCEPT ![req[r].file] =
                IF req[r].kind = "upload" THEN NewFile(r) ELSE NoFile]
  /\ \/ Close(r, "idle") /\ UNCHANGED hit
     \/ /\ "lostCommit" \in Faults
        /\ Close(r, Recovery(r))
        /\ hit' = hit \cup {req[r].file}
  /\ UNCHANGED <<tasks, access, owners, objects, logged>>

-----------------------------------------------------------------------------
(* TasksService.remove: the files of the Task stay, in the Project's scope. *)

BeginRemoveTask(r) ==
  /\ pc[r] = "idle"
  /\ \E u \in access, t \in tasks :
       req' = [req EXCEPT ![r] = [kind |-> "removeTask", user |-> u, file |-> None, task |-> t]]
  /\ Goto(r, "lockProject")
  /\ open' = open \cup {r}
  /\ UNCHANGED <<tables, holder, sharers>>

LockProject(r) == pc[r] = "lockProject" /\ Granted(r) /\ Lock(r, "lockTask")

LockTask(r) ==
  /\ pc[r] = "lockTask" /\ Granted(r)
  /\ IF req[r].task \in tasks THEN Lock(r, "deleteTask") ELSE Rollback(r)

\* Mutant: the foreign key cascades.
DeleteTaskAndFiles(r) ==
  /\ pc[r] = "deleteTask" /\ Granted(r)
  /\ tasks' = tasks \ {req[r].task}
  /\ file' = [f \in Files |-> IF file[f].task = req[r].task THEN NoFile ELSE file[f]]
  /\ Close(r, "idle")
  /\ UNCHANGED <<access, owners, objects, logged, hit>>

\* ON DELETE SET NULL waits for whoever has a File row locked.
DeleteTask(r) ==
  /\ pc[r] = "deleteTask" /\ Granted(r)
  /\ tasks' = tasks \ {req[r].task}
  /\ file' = [f \in Files |-> IF file[f].task = req[r].task
                              THEN [file[f] EXCEPT !.task = None] ELSE file[f]]
  /\ Close(r, "idle")
  /\ UNCHANGED <<access, owners, objects, logged, hit>>

-----------------------------------------------------------------------------
\* A request changes the members of the project or its organization, or their
\* roles.  Any sets may result, more than the services allow.
ChangeMembers ==
  /\ \E as \in SUBSET Users : \E os \in SUBSET as : access' = as /\ owners' = os
  /\ UNCHANGED <<tasks, file, objects, logged, hit, pc, req, open, holder, sharers>>

\* The requests that r waits for.
Blockers(r) ==
  ({holder[x] : x \in Wants(r) \cup RefersTo(r)} \cup UNION {sharers[x] : x \in Wants(r)})
    \ {r, None}

\* PostgreSQL fails one request of a circle that wait for each other.
BreakDeadlock(r) ==
  /\ \E circle \in SUBSET Requests :
       r \in circle /\ \A q \in circle : Blockers(q) \cap circle # {}
  /\ Rollback(r)

\* A statement fails, and the code learns it.
Fail(r) == r \in open /\ pc[r] \notin {"read", "unlink"} /\ Rollback(r)

\* The transaction times out and is rolled back while the code waits for the
\* store; it learns it from its next statement.
Timeout(r) ==
  /\ "timeout" \in Faults
  /\ r \in open /\ pc[r] \in {"read", "unlink", "deleteRow"}
  /\ Close(r, pc[r])
  /\ UNCHANGED tables

\* Request r has deleted the object of f and may have to store it again.
Removing(r, f) ==
  req[r].kind = "remove" /\ req[r].file = f /\ pc[r] \in {"deleteRow", "commit", "restore"}

\* Request r has stored the object of f and may have to delete it again.
Uploading(r, f) ==
  req[r].kind = "upload" /\ req[r].file = f /\ pc[r] \in {"insert", "commit", "compensate"}

\* The process goes away with all its requests; nothing repairs at its start.
Crash ==
  /\ "crash" \in Faults
  /\ hit' = hit \cup {f \in Files : \E r \in Requests : Removing(r, f) \/ Uploading(r, f)}
  /\ pc' = [r \in Requests |-> "idle"]
  /\ req' = [r \in Requests |-> NoRequest]
  /\ open' = {}
  /\ holder' = [x \in LockRows |-> None]
  /\ sharers' = [x \in LockRows |-> {}]
  /\ UNCHANGED <<tasks, access, owners, file, objects, logged>>

Init ==
  /\ tasks = Tasks
  /\ access = Users
  /\ owners \in SUBSET Users
  /\ file = [f \in Files |-> NoFile]
  /\ objects = {}
  /\ logged = {}
  /\ hit = {}
  /\ pc = [r \in Requests |-> "idle"]
  /\ req = [r \in Requests |-> NoRequest]
  /\ open = {}
  /\ LocksInit(LockRows)

\* What an open request does next.
Step(r) ==
  \/ StoreObject(r)
  \/ InsertFile(r)
  \/ Compensate(r)
  \/ LockFile(r)
  \/ FindFile(r)
  \/ ReadObject(r)
  \/ UnlinkObject(r)
  \/ DeleteRow(r)
  \/ Restore(r)
  \/ Commit(r)
  \/ LockProject(r)
  \/ LockTask(r)
  \/ DeleteTask(r)
  \/ BreakDeadlock(r)

Next ==
  \/ ChangeMembers
  \/ Crash
  \/ \E r \in Requests :
       \/ BeginUpload(r)
       \/ BeginRemove(r)
       \/ BeginRemoveTask(r)
       \/ Step(r)
       \/ Fail(r)
       \/ Timeout(r)

Spec == Init /\ [][Next]_vars

\* An open request goes on: contended row locks are granted in the order of the
\* requests for them, deadlocks are detected, and the store answers.
FairSpec == Spec /\ \A r \in Requests : SF_vars(Step(r))

-----------------------------------------------------------------------------
TypeOK ==
  /\ tasks \subseteq Tasks
  /\ access \subseteq Users /\ owners \subseteq access
  /\ file \in [Files -> File \cup {NoFile}]
  /\ objects \subseteq Files /\ logged \subseteq Files /\ hit \subseteq Files
  /\ pc \in [Requests -> PCs]
  /\ req \in [Requests -> Request \cup {NoRequest}]
  /\ open \subseteq Requests
  /\ LocksTypeOK(LockRows, Requests)

\* An attachment that is listed can be downloaded: its object is there, or a
\* removal is at work on it, or the log names it, or a fault has hit it that no
\* code handles.  Neither two removals of it, nor one whose transaction is rolled
\* back behind its back, nor the deletion of its Task, nor what happens to other
\* attachments loses the object.
AttachmentsAvailable ==
  \A f \in Stored :
    f \in objects \cup logged \cup hit \/ \E r \in Requests : Removing(r, f)

\* No object is left without a row: what a failed upload has stored is deleted,
\* and what a removal has restored still has its row.
NoOrphans ==
  \A f \in objects :
    f \in Stored \cup logged \cup hit \/ \E r \in Requests : Uploading(r, f)

\* A removal that has to store the object again finds the key free: nobody else
\* can have restored or removed it in the meantime, though the row lock is gone.
RestoreFindsKeyFree ==
  \A r \in Requests : pc[r] = "restore" => req[r].file \notin objects

\* "this is logged for operator repair rather than hidden" (docs/attachments.md):
\* whenever table and store disagree and nobody is at work, the log says so.
DamageIsLogged ==
  (\A r \in Requests : pc[r] = "idle")
    => \A f \in Files : (f \in Stored <=> f \in objects) \/ f \in logged

\* An attachment goes away only by a request to remove it; the deletion of its
\* Task moves it to the Project's scope (docs/attachments.md).
FilesStep ==
  \A f \in Stored :
    \/ file'[f] = file[f]
    \/ /\ file[f].task \in tasks \ tasks'
       /\ file'[f] = [file[f] EXCEPT !.task = None]
    \/ /\ file'[f] = NoFile
       /\ \E r \in Requests : pc[r] = "commit" /\ req[r].kind = "remove" /\ req[r].file = f

FilesLeaveByRemoval == [][FilesStep]_vars

\* Every request is answered: a removal, which locks the File and then refers
\* to the Project, and a deletion of a Task, which locks the Project and then
\* the Files, can deadlock; the removal that fails for it stores the object
\* again.
RequestsEnd == \A r \in Requests : pc[r] # "idle" ~> pc[r] = "idle"
=============================================================================
