---------------------------- MODULE TimeTracking ----------------------------
(***************************************************************************)
(* The timers and time entries of the Tasks of one project:                *)
(* TimeTrackingService as database transactions that run concurrently      *)
(* under READ COMMITTED, with each other and with the deletion of Tasks    *)
(* (TasksService.remove), whose foreign key takes the entries along.       *)
(*                                                                         *)
(* The last statement of a transaction commits with it.  A clock is read   *)
(* afresh for each request and need not have advanced since another one    *)
(* did: it is set, and the backends have one each.                         *)
(***************************************************************************)
EXTENDS Integers, FiniteSets, RowLocks

CONSTANTS
  Users, Tasks, Entries,
  Requests,              \* the requests that can be open at the same time
  Second,                \* the clock's ticks in a second
  MaxTime                \* bound: the clock's readings are 0 .. MaxTime

ASSUME SecondAssumption == Second \in Nat \ {0} /\ MaxTime \in Nat /\ MaxTime >= Second

Kinds == {"start", "stop", "manual", "removeTask"}

PCs == {"idle", "resolve", "lockUser", "check", "insert", "lockTimer", "finish",
        "lockProject", "lockTask", "record", "delete"}

ASSUME EntryNoneAssumption ==
  None \notin Users \cup Tasks \cup Entries \cup Requests \cup Nat \cup Kinds

VARIABLES
  tasks,                 \* the Tasks that exist
  access,                \* the users with access to the project
  entry,                 \* entry[e]: the committed TimeEntry, or NoEntry
  pc,                    \* pc[r]: the statement request r executes next
  req                    \* req[r]: the user, what is asked, and the timer locked

vars == <<tasks, access, entry, pc, req, holder, sharers>>

Times == 0 .. MaxTime

NoEntry == [user |-> None, task |-> None, started |-> 0, ended |-> None, seconds |-> None]

Entry == [user : Users, task : Tasks, started : Nat, ended : Nat \cup {None},
          seconds : Int \cup {None}]

NoRequest == [kind |-> None, user |-> None, task |-> None, timer |-> None]

Request == [kind : Kinds, user : Users, task : Tasks, timer : Entries \cup {None}]

\* What can be locked: the Project, User, Task and TimeLog rows.
Project == <<"Project", None>>
LockRows == {Project} \cup ({"User"} \X Users) \cup ({"Task"} \X Tasks) \cup ({"Entry"} \X Entries)

Stored == {e \in Entries : entry[e] # NoEntry}

\* Mutant: a timer for each user and Task.
RunningOnTask(r) ==
  {e \in Stored : /\ entry[e].user = req[r].user /\ entry[e].ended = None
                  /\ entry[e].task = req[r].task}

\* The rows with activeMarker = TRUE of the user of request r: what start looks
\* for, what stop locks, and what the unique (userId, activeMarker) compares.
Running(r) == {e \in Stored : entry[e].user = req[r].user /\ entry[e].ended = None}

-----------------------------------------------------------------------------
(* Transactions.                                                           *)

\* The rows the next statement of r locks FOR UPDATE.
Wants(r) ==
  CASE pc[r] = "lockUser" -> {<<"User", req[r].user>>}
    [] pc[r] = "lockTimer" -> {"Entry"} \X Running(r)
    [] pc[r] = "lockProject" -> {Project}
    [] pc[r] = "lockTask" -> {<<"Task", req[r].task>>}
    [] pc[r] = "delete" -> {"Entry"} \X {e \in Stored : entry[e].task = req[r].task}
    [] OTHER -> {}

\* The rows it refers to by a foreign key.
RefersTo(r) ==
  IF pc[r] \in {"insert", "record"}
  THEN {Project, <<"User", req[r].user>>, <<"Task", req[r].task>>}
  ELSE {}

Granted(r) ==
  /\ \A x \in Wants(r) : CanForUpdate(r, x)
  /\ \A x \in RefersTo(r) : CanKeyShare(r, x)

Goto(r, next) == pc' = [pc EXCEPT ![r] = next]

\* Mutant: the transaction is left open.
EndKeepingLocks(r) ==
  /\ UNCHANGED locks
  /\ Goto(r, "idle")
  /\ req' = [req EXCEPT ![r] = NoRequest]

\* COMMIT or ROLLBACK, and the answer.
End(r) ==
  /\ ReleaseLocks(r)
  /\ Goto(r, "idle")
  /\ req' = [req EXCEPT ![r] = NoRequest]

Rollback(r) == End(r) /\ UNCHANGED <<tasks, access, entry>>

\* The statement succeeds and keeps its locks; next is the one after it.
Lock(r, next) ==
  /\ ForUpdate(r, Wants(r))
  /\ KeyShare(r, RefersTo(r))
  /\ Goto(r, next)
  /\ UNCHANGED <<tasks, access, entry>>

-----------------------------------------------------------------------------
(* Requests on timers and entries.                                         *)

First(kind) ==
  CASE kind = "stop" -> "lockUser"
    [] kind = "removeTask" -> "lockProject"
    [] OTHER -> "resolve"

\* DELETE of a Task finds its project from the stored row, before any lock.
Begin(r) ==
  /\ pc[r] = "idle"
  /\ \E kind \in Kinds, u \in Users, t \in Tasks :
       /\ kind = "removeTask" => t \in tasks /\ u \in access
       /\ req' = [req EXCEPT ![r] = [kind |-> kind, user |-> u, task |-> t, timer |-> None]]
       /\ Goto(r, First(kind))
  /\ UNCHANGED <<tasks, access, entry, holder, sharers>>

\* resolveTask, in the transaction but before any lock: 404 without the Task,
\* or without access to its project.
ResolveTask(r) ==
  /\ pc[r] = "resolve"
  /\ IF req[r].task \in tasks /\ req[r].user \in access
     THEN /\ Goto(r, IF req[r].kind = "start" THEN "lockUser" ELSE "insert")
          /\ UNCHANGED <<tasks, access, entry, req, holder, sharers>>
     ELSE Rollback(r)

\* Mutant: the user is not locked.
LockUserNot(r) ==
  /\ pc[r] = "lockUser"
  /\ Goto(r, IF req[r].kind = "start" THEN "check" ELSE "lockTimer")
  /\ UNCHANGED <<tasks, access, entry, req, holder, sharers>>

\* lockUser: SELECT "id" FROM "User" ... FOR UPDATE.
LockUser(r) ==
  /\ pc[r] = "lockUser" /\ Granted(r)
  /\ Lock(r, IF req[r].kind = "start" THEN "check" ELSE "lockTimer")
  /\ UNCHANGED req

\* start: 409 while any timer of the user runs.
CheckRunning(r) ==
  /\ pc[r] = "check"
  /\ IF Running(r) = {}
     THEN /\ Goto(r, "insert")
          /\ UNCHANGED <<tasks, access, entry, req, holder, sharers>>
     ELSE Rollback(r)

\* Mutant: the duration is rounded down, as for manual entries.
ElapsedRoundedDown(from, to) == (to - from) \div Second

\* Math.max(1, Math.ceil(...)) of the milliseconds.
Elapsed(from, to) ==
  LET seconds == (to - from + Second - 1) \div Second
  IN  IF seconds < 1 THEN 1 ELSE seconds

\* What a manual request may name: an interval of a whole second or more.
ManualInterval(from, to) == to - from >= Second

\* Mutant: the entry does not say whose it is.
NewEntryOfNobody(r) == {[NoEntry EXCEPT !.task = req[r].task]}

\* The row that start and createManual insert.
NewEntry(r) ==
  IF req[r].kind = "start"
  THEN {[user |-> req[r].user, task |-> req[r].task, started |-> now, ended |-> None,
         seconds |-> None] : now \in Times}
  ELSE {[user |-> req[r].user, task |-> req[r].task, started |-> span[1], ended |-> span[2],
         seconds |-> (span[2] - span[1]) \div Second] :
          span \in {s \in Times \X Times : ManualInterval(s[1], s[2])}}

\* INSERT INTO "TimeLog": the foreign keys wait for whoever deletes the Task or
\* changes the Project, and refuse the row when the Task is gone; the unique
\* (userId, activeMarker) refuses a second running timer with 409.
InsertEntry(r) ==
  /\ pc[r] = "insert" /\ Granted(r)
  /\ \/ /\ \/ req[r].task \notin tasks
           \/ req[r].kind = "start" /\ Running(r) # {}
           \/ Stored = Entries     \* bound: no id is left
        /\ Rollback(r)
     \/ /\ req[r].task \in tasks
        /\ req[r].kind = "start" => Running(r) = {}
        /\ \E e \in Entries \ Stored, row \in NewEntry(r) :
             entry' = [entry EXCEPT ![e] = row]
        /\ End(r)
        /\ UNCHANGED <<tasks, access>>

\* Mutant: the timer that runs is stopped, whichever Task it is for.
LockTimerOfAnyTask(r) ==
  /\ pc[r] = "lockTimer" /\ Granted(r)
  /\ IF Running(r) # {}
     THEN \E e \in Running(r) :
            /\ Lock(r, "finish")
            /\ req' = [req EXCEPT ![r].timer = e]
     ELSE Rollback(r)

\* stop: the running timer FOR UPDATE, which waits for a deletion of its Task;
\* 404 if there is none, 409 if it is for another Task.
LockTimer(r) ==
  /\ pc[r] = "lockTimer" /\ Granted(r)
  /\ \/ \E e \in Running(r) :
          /\ entry[e].task = req[r].task
          /\ Lock(r, "finish")
          /\ req' = [req EXCEPT ![r].timer = e]
     \/ /\ \A e \in Running(r) : entry[e].task # req[r].task
        /\ Rollback(r)

\* Mutant: the end is what the clock says.
EndTimeByClock(started, now) == now

\* The end of a timer, one millisecond past its start if the clock is not.
EndTime(started, now) == IF now <= started THEN started + 1 ELSE now

\* UPDATE "TimeLog" of the timer: the end, the duration, and no marker.
FinishTimer(r) ==
  /\ pc[r] = "finish"
  /\ \E now \in Times :
       LET started == entry[req[r].timer].started
           ended == EndTime(started, now)
       IN  entry' = [entry EXCEPT ![req[r].timer].ended = ended,
                                  ![req[r].timer].seconds = Elapsed(started, ended)]
  /\ End(r)
  /\ UNCHANGED <<tasks, access>>

-----------------------------------------------------------------------------
(* The deletion of a Task: Project and Task FOR UPDATE, the Activity with  *)
(* its foreign keys, and the DELETE that cascades to the entries.          *)

LockProject(r) ==
  /\ pc[r] = "lockProject" /\ Granted(r)
  /\ Lock(r, "lockTask")
  /\ UNCHANGED req

LockTask(r) ==
  /\ pc[r] = "lockTask" /\ Granted(r)
  /\ IF req[r].task \in tasks /\ req[r].user \in access
     THEN Lock(r, "record") /\ UNCHANGED req
     ELSE Rollback(r)

RecordActivity(r) ==
  /\ pc[r] = "record" /\ Granted(r)
  /\ Lock(r, "delete")
  /\ UNCHANGED req

\* Mutant: the foreign key of the entries does not cascade.
DeleteTaskAlone(r) ==
  /\ pc[r] = "delete" /\ Granted(r)
  /\ tasks' = tasks \ {req[r].task}
  /\ End(r)
  /\ UNCHANGED <<access, entry>>

DeleteTask(r) ==
  /\ pc[r] = "delete" /\ Granted(r)
  /\ tasks' = tasks \ {req[r].task}
  /\ entry' = [e \in Entries |-> IF entry[e].task = req[r].task THEN NoEntry ELSE entry[e]]
  /\ End(r)
  /\ UNCHANGED access

-----------------------------------------------------------------------------
\* A request changes the members of the project or its organization.  Any set may
\* result, more than the services allow.
ChangeAccess ==
  /\ access' \in SUBSET Users
  /\ UNCHANGED <<tasks, entry, pc, req, holder, sharers>>

\* The requests that r waits for.
Blockers(r) ==
  ({holder[x] : x \in Wants(r) \cup RefersTo(r)} \cup UNION {sharers[x] : x \in Wants(r)})
    \ {r, None}

\* r waits in a circle of requests.
Deadlocked(r) ==
  \E circle \in SUBSET Requests :
    r \in circle /\ \A q \in circle : Blockers(q) \cap circle # {}

\* deadlock_timeout: PostgreSQL fails one of them, and it is answered with 500.
BreakDeadlock(r) == Deadlocked(r) /\ Rollback(r)

\* A lost connection, a timeout, a crash.
Fail(r) == pc[r] # "idle" /\ Rollback(r)

Init ==
  /\ tasks = Tasks
  /\ access = Users
  /\ entry = [e \in Entries |-> NoEntry]
  /\ pc = [r \in Requests |-> "idle"]
  /\ req = [r \in Requests |-> NoRequest]
  /\ LocksInit(LockRows)

\* The statements of an open request.
Step(r) ==
  \/ ResolveTask(r)
  \/ LockUser(r)
  \/ CheckRunning(r)
  \/ InsertEntry(r)
  \/ LockTimer(r)
  \/ FinishTimer(r)
  \/ LockProject(r)
  \/ LockTask(r)
  \/ RecordActivity(r)
  \/ DeleteTask(r)
  \/ BreakDeadlock(r)

Next ==
  \/ ChangeAccess
  \/ \E r \in Requests : Begin(r) \/ Step(r) \/ Fail(r)

Spec == Init /\ [][Next]_vars

\* An open request goes on: contended row locks are granted in the order of the
\* requests for them, and a deadlock is detected.
FairSpec == Spec /\ \A r \in Requests : SF_vars(Step(r))

-----------------------------------------------------------------------------
TypeOK ==
  /\ tasks \subseteq Tasks
  /\ access \subseteq Users
  /\ entry \in [Entries -> Entry \cup {NoEntry}]
  /\ pc \in [Requests -> PCs]
  /\ req \in [Requests -> Request \cup {NoRequest}]
  /\ LocksTypeOK(LockRows, Requests)

\* "one running Task timer per user" (docs/time-tracking.md), whatever is
\* started and stopped at the same time and for whichever Tasks.
OneRunningTimer ==
  \A d, e \in Stored :
    /\ entry[d].user = entry[e].user
    /\ entry[d].ended = None /\ entry[e].ended = None
    => d = e

\* The lock on the User row is enough: between the check and the insert no
\* other request gives the user a timer, so that the unique index, whose error
\* is translated to 409, never has to refuse.
StartNeverConflicts ==
  \A r \in Requests :
    pc[r] = "insert" /\ req[r].kind = "start" => Running(r) = {}

\* TimeLog_active_state_check never refuses what the service writes: an entry
\* that has ended ended after it started and lasted a positive number of whole
\* seconds, whatever the clock did in between.
EntriesPassCheck ==
  \A e \in Stored :
    \/ entry[e].ended = None /\ entry[e].seconds = None
    \/ /\ entry[e].ended # None /\ entry[e].seconds # None
       /\ entry[e].ended > entry[e].started
       /\ entry[e].seconds > 0

\* What a step may do to a stored entry: delete its Task, or be its user's stop
\* of it, for its own Task, while it runs.
EntryStep ==
  \A e \in Stored :
    \/ entry'[e] = entry[e]
    \/ entry'[e] = NoEntry /\ entry[e].task \in tasks \ tasks'
    \/ /\ entry[e].ended = None
       /\ \E r \in Requests :
            /\ pc[r] = "finish"
            /\ req[r].user = entry[e].user
            /\ req[r].task = entry[e].task

\* Starting, stopping and recording never touch another entry, and no other
\* request silently stops prior work (docs/time-tracking.md).
EntriesEndByTheirUser == [][EntryStep]_vars

\* A Task is never left behind by its entries, nor an entry by its Task: what
\* is inserted while the Task is deleted is refused or deleted with it.
EntriesHaveTheirTask == \A e \in Stored : entry[e].task \in tasks

\* What the reports on logged time rely on: the three facts about the entries
\* hold together in every state, however the requests interleave.
EntriesSound == OneRunningTimer /\ EntriesPassCheck /\ EntriesHaveTheirTask

\* Every request is answered: starting a timer while a Task is deleted locks
\* the User and the Project in opposite orders, and one of them has to fail.
RequestsEnd == \A r \in Requests : pc[r] # "idle" ~> pc[r] = "idle"
=============================================================================
