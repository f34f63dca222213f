----------------------------- MODULE GithubSync -----------------------------
(***************************************************************************)
(* The repository of a Project, the Issues linked with its Tasks, and the  *)
(* webhook deliveries that follow them: GithubService and                  *)
(* GithubIssuesService, statement by statement.                            *)
(*                                                                         *)
(* A webhook never locks the Project.  What keeps it apart from the        *)
(* requests that do is the foreign key check of the delivery it inserts,   *)
(* which takes FOR KEY SHARE on the Project until the end.                 *)
(*                                                                         *)
(* What a request writes is written at its commit; the row locks are taken *)
(* by the statements.  What an Issue says, and a Task takes over, is left  *)
(* out: applied counts how often a delivery is.  Members, columns and      *)
(* activities are left out, too: Fail stands for what else may refuse a    *)
(* request.                                                                *)
(***************************************************************************)
EXTENDS Naturals, FiniteSets, RowLocks

CONSTANTS
  Projects,
  Connections,           \* the ids of Repository rows
  Externals,             \* the repositories at GitHub
  Issues,                \* the Issues at GitHub
  RepositoryOf,          \* RepositoryOf[i]: the repository at GitHub that has Issue i
  Tasks,
  Deliveries,            \* the delivery ids that GitHub uses
  Requests               \* the requests that can be open at the same time

Kinds == {"connect", "disconnect", "link", "import", "unlink", "remove", "webhook"}

ASSUME RepositoryOfAssumption == RepositoryOf \in [Issues -> Externals]

ASSUME SyncNoneAssumption ==
  None \notin Projects \cup Connections \cup Externals \cup Issues \cup Tasks
                \cup Deliveries \cup Requests \cup Kinds

PCs == {"idle", "resolve", "connected", "fetch", "lockProject", "checkFree", "insertRepository",
        "findConnection", "assertCurrent", "insertLink", "findLink", "lockTask", "deleteLinks",
        "deleteRepository", "findRepository", "findDelivery", "insertDelivery",
        "referProject", "referRepository", "findIssue", "updateIssue", "updateTask", "commit"}

VARIABLES
  repository,            \* repository[x]: the Repository row, or NoRepository
  task,                  \* task[t]: the Task, or NoTask
  link,                  \* link[t]: the Issue row whose taskId is t, or NoLink
  delivery,              \* delivery[d]: the GithubWebhookDelivery row, or NoDelivery
  applied,               \* applied[d]: how often delivery d has been committed
  sent,                  \* sent[d]: what GitHub sends, again and again, as delivery d
  pc,                    \* pc[r]: the next statement of request r
  req                    \* req[r]: what it is asked, and has read

rows == <<repository, task, link, delivery, applied>>

vars == <<rows, sent, pc, req, locks>>

NoRepository == [project |-> None, external |-> None]
NoTask == [project |-> None]
NoLink == [connection |-> None, issue |-> None]
NoDelivery == [received |-> FALSE, connection |-> None]
NoEvent == [issue |-> None, action |-> "other"]

\* What normalizeGithubWebhook makes of a delivery: an Issue opened or edited,
\* reopened or closed ("sync"), deleted or transferred ("gone"), or anything
\* else ("other"), which names a repository only.
Event == [issue : Issues, action : {"sync", "gone", "other"}]

\* Only what GitHub sends passes verifySignature.
Signed(d) == sent[d] # NoEvent

Request == [kind : Kinds, project : Projects \cup {None}, external : Externals \cup {None},
            issue : Issues \cup {None}, delivery : Deliveries \cup {None},
            connection : Connections \cup {None}, tasks : SUBSET Tasks]
NoRequest == [kind |-> None, project |-> None, external |-> None, issue |-> None,
              delivery |-> None, connection |-> None, tasks |-> {}]

LockRows == ({"Project"} \X Projects) \cup ({"Repository"} \X Connections)
              \cup ({"External"} \X Externals) \cup ({"Issue", "Task"} \X Tasks)
              \cup ({"Delivery"} \X Deliveries)

-----------------------------------------------------------------------------
Goto(r, next) == pc' = [pc EXCEPT ![r] = next]

End(r) ==
  /\ ReleaseLocks(r)
  /\ Goto(r, "idle")
  /\ req' = [req EXCEPT ![r] = NoRequest]
  /\ UNCHANGED sent

Rollback(r) == End(r) /\ UNCHANGED rows

\* A statement that only reads lets the request go on, with what it has read,
\* or refuses it.
Read(r, allowed, next, known) ==
  IF allowed
  THEN /\ Goto(r, next) /\ req' = [req EXCEPT ![r] = known]
       /\ UNCHANGED <<rows, sent, locks>>
  ELSE Rollback(r)

\* The same for a statement that locks rows X, once they are free.
Lock(r, X, allowed, next, known) ==
  IF allowed
  THEN /\ ForUpdate(r, X) /\ UNCHANGED sharers
       /\ Goto(r, next) /\ req' = [req EXCEPT ![r] = known]
       /\ UNCHANGED <<rows, sent>>
  ELSE (\A x \in X : CanForUpdate(r, x)) /\ Rollback(r)

ConnectionsOf(j) == {x \in Connections : repository[x].project = j}

Linked(x) == {t \in Tasks : link[t].connection = x}

Only(S) == CHOOSE x \in S : TRUE

\* The request of r with the one Repository row of X that it has found.
With(r, X) ==
  [req[r] EXCEPT !.connection = Only(X), !.external = repository[Only(X)].external]

-----------------------------------------------------------------------------
(* What a request does before its transaction.                             *)

\* What the paths, the bodies and the headers of the requests name.
Begin(r) ==
  /\ pc[r] = "idle"
  /\ \/ \E j \in Projects, g \in Externals :
          /\ req' = [req EXCEPT ![r] = [NoRequest EXCEPT !.kind = "connect", !.project = j,
                                                         !.external = g]]
          /\ Goto(r, "lockProject")
     \/ \E j \in Projects :
          /\ req' = [req EXCEPT ![r] = [NoRequest EXCEPT !.kind = "disconnect", !.project = j]]
          /\ Goto(r, "lockProject")
     \/ \E t \in Tasks, i \in Issues :
          /\ task[t] # NoTask
          /\ req' = [req EXCEPT ![r] = [NoRequest EXCEPT !.kind = "link", !.tasks = {t},
                                                         !.issue = i]]
          /\ Goto(r, "resolve")
     \/ \E j \in Projects, i \in Issues :
          /\ req' = [req EXCEPT ![r] = [NoRequest EXCEPT !.kind = "import", !.project = j,
                                                         !.issue = i]]
          /\ Goto(r, "connected")
     \/ \E t \in Tasks, kind \in {"unlink", "remove"} :
          /\ task[t] # NoTask
          /\ req' = [req EXCEPT ![r] = [NoRequest EXCEPT !.kind = kind, !.tasks = {t}]]
          /\ Goto(r, "resolve")
     \/ \E d \in Deliveries :
          /\ Signed(d)
          /\ req' = [req EXCEPT ![r] = [NoRequest EXCEPT !.kind = "webhook", !.delivery = d,
                                                         !.issue = sent[d].issue]]
          /\ Goto(r, "findRepository")
  /\ UNCHANGED <<rows, sent, locks>>

\* The Project of a Task, before any lock: it never changes, but the Task may go.
ResolveTask(r) ==
  LET t == Only(req[r].tasks) IN
  /\ pc[r] = "resolve"
  /\ Read(r, task[t] # NoTask, IF req[r].kind = "link" THEN "connected" ELSE "lockProject",
          [req[r] EXCEPT !.project = task[t].project])

\* connectedRepository
FindConnected(r) ==
  /\ pc[r] = "connected"
  /\ LET X == ConnectionsOf(req[r].project)
     IN  Read(r, X # {}, "fetch", With(r, X))

\* fetchIssue, from the repository the Project was connected with.
FetchIssue(r) ==
  /\ pc[r] = "fetch"
  /\ Read(r, RepositoryOf[req[r].issue] = req[r].external, "lockProject", req[r])

-----------------------------------------------------------------------------
(* The transactions of the users' requests.                                *)

\* What comes after SELECT ... FROM "Project" ... FOR UPDATE.
AfterLock(kind) ==
  CASE kind = "connect" -> "checkFree"
    [] kind = "disconnect" -> "findConnection"
    [] kind = "unlink" -> "findLink"
    [] kind = "remove" -> "lockTask"
    [] OTHER -> "assertCurrent"

LockProject(r) ==
  /\ pc[r] = "lockProject"
  /\ Lock(r, {<<"Project", req[r].project>>}, TRUE, AfterLock(req[r].kind), req[r])

\* 409 for a Project that has a repository.
CheckFree(r) ==
  /\ pc[r] = "checkFree"
  /\ Read(r, ConnectionsOf(req[r].project) = {}, "insertRepository", req[r])

\* The unique index makes an insert wait for whoever inserts or deletes a row
\* of the same repository, and then refuses it or not.
InsertRepository(r) ==
  /\ pc[r] = "insertRepository"
  /\ \E x \in Connections :
       /\ repository[x] = NoRepository /\ \A q \in Requests : req[q].connection # x
       /\ Lock(r, {<<"External", req[r].external>>},
               \A y \in Connections : repository[y].external # req[r].external,
               "commit", [req[r] EXCEPT !.connection = x])

FindConnection(r) ==
  /\ pc[r] = "findConnection"
  /\ LET X == ConnectionsOf(req[r].project)
     IN  Read(r, X # {}, "deleteLinks", With(r, X))

\* Mutant: the connection is not compared with the one the Issue came from.
AssertTaskOnly(r) ==
  /\ pc[r] = "assertCurrent"
  /\ Read(r, \A t \in req[r].tasks : task[t] # NoTask, "insertLink", req[r])

\* assertCurrentRepository, and the Task once more: 409 or 404.
AssertCurrent(r) ==
  /\ pc[r] = "assertCurrent"
  /\ Read(r, /\ ConnectionsOf(req[r].project) = {req[r].connection}
             /\ \A t \in req[r].tasks : task[t] # NoTask,
          "insertLink", req[r])

\* The foreign key of the Issue to its Repository and Project.
Referable(r) == repository[req[r].connection].project = req[r].project

\* The Issue row: 409 by a unique index, an error by a foreign key.  An import
\* inserts its Task first.
InsertLink(r) ==
  /\ pc[r] = "insertLink"
  /\ \E T \in IF req[r].kind = "link" THEN {req[r].tasks} ELSE {{t} : t \in Tasks} :
     LET t == Only(T)
         free == /\ link[t] = NoLink
                 /\ \A q \in Linked(req[r].connection) : link[q].issue # req[r].issue
     IN  /\ req[r].kind = "import" =>
              task[t] = NoTask /\ \A q \in Requests : t \notin req[q].tasks
         /\ LET X == {<<"Repository", req[r].connection>>} \cup
                       (IF req[r].kind = "link" THEN {<<"Task", t>>} ELSE {})
            IN  IF free /\ Referable(r) /\ (req[r].kind = "link" => task[t] # NoTask)
                THEN /\ KeyShare(r, X) /\ UNCHANGED holder
                     /\ Goto(r, "commit") /\ req' = [req EXCEPT ![r].tasks = T]
                     /\ UNCHANGED <<rows, sent>>
                ELSE (\A x \in X : CanKeyShare(r, x)) /\ Rollback(r)

FindLink(r) ==
  /\ pc[r] = "findLink"
  /\ LET t == Only(req[r].tasks)
     IN  Read(r, link[t] # NoLink /\ repository[link[t].connection].project = req[r].project,
              "deleteLinks", req[r])

LockTask(r) ==
  LET t == Only(req[r].tasks) IN
  /\ pc[r] = "lockTask"
  /\ Lock(r, {<<"Task", t>>}, task[t] # NoTask, "deleteLinks", req[r])

\* The links of a Repository, or of a Task.
DeleteLinks(r) ==
  LET T == IF req[r].kind = "disconnect" THEN Linked(req[r].connection)
           ELSE {t \in req[r].tasks : link[t] # NoLink}
  IN  /\ pc[r] = "deleteLinks"
      /\ Lock(r, {"Issue"} \X T, req[r].kind = "unlink" => T # {},
              IF req[r].kind = "disconnect" THEN "deleteRepository" ELSE "commit",
              IF req[r].kind = "disconnect" THEN [req[r] EXCEPT !.tasks = T] ELSE req[r])

\* 409 when a link is left.
DeleteRepository(r) ==
  /\ pc[r] = "deleteRepository"
  /\ Lock(r, {<<"Repository", req[r].connection>>, <<"External", req[r].external>>},
          Linked(req[r].connection) \subseteq req[r].tasks, "commit", req[r])

-----------------------------------------------------------------------------
(* A webhook.                                                              *)

\* Before the transaction; 404 for a repository that is not connected.
FindRepository(r) ==
  LET X == {x \in Connections : repository[x].external = RepositoryOf[req[r].issue]} IN
  /\ pc[r] = "findRepository"
  /\ IF X = {} THEN Rollback(r)
     ELSE LET x == Only(X)
          IN  Read(r, TRUE, "findDelivery",
                   [req[r] EXCEPT !.connection = x, !.project = repository[x].project])

\* A duplicate, or 409 for a delivery to another connection: either is the end.
FindDelivery(r) ==
  /\ pc[r] = "findDelivery"
  /\ Read(r, delivery[req[r].delivery] = NoDelivery, "insertDelivery", req[r])

\* Mutant: the unique index on the delivery id is not there.
InsertDeliveryAnyway(r) ==
  /\ pc[r] = "insertDelivery"
  /\ Read(r, TRUE, "referProject", req[r])

\* The unique index makes a second insert wait for the first, and then end as a
\* duplicate or as 409.
InsertDelivery(r) ==
  /\ pc[r] = "insertDelivery"
  /\ Lock(r, {<<"Delivery", req[r].delivery>>}, delivery[req[r].delivery] = NoDelivery,
          "referProject", req[r])

\* Mutant: the Repository is referred to before the Project.
RepositoryFirst(r) ==
  IF pc[r] = "referProject" THEN <<"Repository", req[r].connection>>
  ELSE <<"Project", req[r].project>>

\* The foreign keys of the delivery are checked in the order of their creation.
Reference(r) ==
  IF pc[r] = "referProject" THEN <<"Project", req[r].project>>
  ELSE <<"Repository", req[r].connection>>

\* Mutant: a reference that takes no lock.
ReferUnlocked(r) ==
  /\ pc[r] \in {"referProject", "referRepository"}
  /\ CanKeyShare(r, Reference(r))
  /\ Read(r, Reference(r)[1] = "Repository" => Referable(r),
          IF pc[r] = "referProject" THEN "referRepository" ELSE "findIssue", req[r])

\* An error when the Repository has been disconnected in the meantime.
Refer(r) ==
  /\ pc[r] \in {"referProject", "referRepository"}
  /\ CanKeyShare(r, Reference(r))
  /\ IF Reference(r)[1] = "Repository" => Referable(r)
     THEN /\ KeyShare(r, {Reference(r)}) /\ UNCHANGED holder
          /\ Goto(r, IF pc[r] = "referProject" THEN "referRepository" ELSE "findIssue")
          /\ UNCHANGED <<rows, sent, req>>
     ELSE Rollback(r)

\* syncWebhookIssue: a delivery about an Issue without a link is only recorded, as
\* is one about anything else.
FindIssue(r) ==
  LET T == {t \in Linked(req[r].connection) :
              link[t].issue = req[r].issue /\ sent[req[r].delivery].action # "other"} IN
  /\ pc[r] = "findIssue"
  /\ Read(r, TRUE, IF T = {} THEN "commit" ELSE "updateIssue", [req[r] EXCEPT !.tasks = T])

Follows(r, t) == link[t].connection = req[r].connection /\ link[t].issue = req[r].issue

\* The row that findIssue has read, or an error.
UpdateIssue(r) ==
  LET t == Only(req[r].tasks) IN
  /\ pc[r] = "updateIssue"
  /\ Lock(r, {<<"Issue", t>>}, Follows(r, t),
          IF sent[req[r].delivery].action = "gone" THEN "commit" ELSE "updateTask", req[r])

UpdateTask(r) ==
  LET t == Only(req[r].tasks) IN
  /\ pc[r] = "updateTask"
  /\ Lock(r, {<<"Task", t>>}, task[t] # NoTask, "commit", req[r])

-----------------------------------------------------------------------------
(* The commits.                                                            *)

At(r, kind) == pc[r] = "commit" /\ req[r].kind = kind

CommitConnect(r) ==
  /\ At(r, "connect")
  /\ repository' = [repository EXCEPT ![req[r].connection] =
                      [project |-> req[r].project, external |-> req[r].external]]
  /\ UNCHANGED <<task, link, delivery, applied>>
  /\ End(r)

\* ON DELETE SET NULL for the deliveries of the Repository.
CommitDisconnect(r) ==
  /\ At(r, "disconnect")
  /\ repository' = [repository EXCEPT ![req[r].connection] = NoRepository]
  /\ link' = [t \in Tasks |-> IF t \in req[r].tasks THEN NoLink ELSE link[t]]
  /\ delivery' = [d \in Deliveries |->
       IF delivery[d].connection = req[r].connection
       THEN [delivery[d] EXCEPT !.connection = None] ELSE delivery[d]]
  /\ UNCHANGED <<task, applied>>
  /\ End(r)

\* issueCreateData.  An imported Task is new, a linked one keeps its title.
CommitLink(r) ==
  /\ \E kind \in {"link", "import"} : At(r, kind)
  /\ link' = [t \in Tasks |->
       IF t \in req[r].tasks
       THEN [connection |-> req[r].connection, issue |-> req[r].issue] ELSE link[t]]
  /\ task' = [t \in Tasks |->
       IF t \in req[r].tasks THEN [project |-> req[r].project] ELSE task[t]]
  /\ UNCHANGED <<repository, delivery, applied>>
  /\ End(r)

CommitRemoval(r) ==
  /\ \E kind \in {"unlink", "remove"} : At(r, kind)
  /\ link' = [t \in Tasks |-> IF t \in req[r].tasks THEN NoLink ELSE link[t]]
  /\ task' = [t \in Tasks |->
       IF t \in req[r].tasks /\ req[r].kind = "remove" THEN NoTask ELSE task[t]]
  /\ UNCHANGED <<repository, delivery, applied>>
  /\ End(r)

CommitWebhook(r) ==
  /\ At(r, "webhook")
  /\ delivery' = [delivery EXCEPT ![req[r].delivery] =
                    [received |-> TRUE, connection |-> req[r].connection]]
  /\ applied' = [applied EXCEPT ![req[r].delivery] = @ + 1]
  /\ UNCHANGED <<repository, task, link>>
  /\ End(r)

\* A member or an administrator is missing, a statement or GitHub fails, or the
\* process goes away.
Fail(r) == pc[r] # "idle" /\ Rollback(r)

\* An Issue changes at GitHub, which has a delivery to send from then on.
Change(i, d) ==
  /\ sent[d] = NoEvent
  /\ \E e \in Event : e.issue = i /\ sent' = [sent EXCEPT ![d] = e]
  /\ UNCHANGED <<rows, pc, req, locks>>

-----------------------------------------------------------------------------
Init ==
  /\ repository = [x \in Connections |-> NoRepository]
  /\ task \in [Tasks -> {NoTask} \cup [project : Projects]]
  /\ link = [t \in Tasks |-> NoLink]
  /\ delivery = [d \in Deliveries |-> NoDelivery]
  /\ applied = [d \in Deliveries |-> 0]
  /\ sent = [d \in Deliveries |-> NoEvent]
  /\ pc = [r \in Requests |-> "idle"]
  /\ req = [r \in Requests |-> NoRequest]
  /\ LocksInit(LockRows)

\* What an open request does next.
Step(r) ==
  \/ ResolveTask(r) \/ FindConnected(r) \/ FetchIssue(r)
  \/ LockProject(r) \/ CheckFree(r) \/ InsertRepository(r)
  \/ FindConnection(r) \/ AssertCurrent(r) \/ InsertLink(r) \/ FindLink(r)
  \/ LockTask(r) \/ DeleteLinks(r) \/ DeleteRepository(r)
  \/ FindRepository(r) \/ FindDelivery(r) \/ InsertDelivery(r) \/ Refer(r)
  \/ FindIssue(r) \/ UpdateIssue(r) \/ UpdateTask(r)
  \/ CommitConnect(r) \/ CommitDisconnect(r) \/ CommitLink(r) \/ CommitRemoval(r)
  \/ CommitWebhook(r)

Next ==
  \/ \E r \in Requests : Begin(r) \/ Step(r) \/ Fail(r)
  \/ \E i \in Issues, d \in Deliveries : Change(i, d)

Spec == Init /\ [][Next]_vars

-----------------------------------------------------------------------------
TypeOK ==
  /\ repository \in [Connections ->
       {NoRepository} \cup [project : Projects, external : Externals]]
  /\ task \in [Tasks -> {NoTask} \cup [project : Projects]]
  /\ link \in [Tasks -> {NoLink} \cup [connection : Connections, issue : Issues]]
  /\ delivery \in [Deliveries -> [received : BOOLEAN, connection : Connections \cup {None}]]
  /\ applied \in [Deliveries -> Nat]
  /\ sent \in [Deliveries -> {NoEvent} \cup Event]
  /\ pc \in [Requests -> PCs]
  /\ req \in [Requests -> {NoRequest} \cup Request]
  /\ LocksTypeOK(LockRows, Requests)

\* Every link is with the repository that the Project of its Task is connected
\* with, whatever is disconnected and connected again while an Issue is fetched.
LinksAreConnected ==
  \A t \in Tasks : link[t] # NoLink =>
    task[t] # NoTask /\ repository[link[t].connection].project = task[t].project

\* "Webhook retries ... do not create duplicate domain effects"
\* (docs/github-issue-task-sync.md): however often GitHub sends a delivery, also
\* twice at once and across a new connection, it is applied at most once.
AppliedOnce == \A d \in Deliveries : applied[d] <= 1

\* The row that a webhook has found stays until it is updated, with its Task:
\* no delivery is lost because a user unlinks, disconnects or deletes meanwhile.
SyncFindsItsRows ==
  \A r \in Requests :
    /\ pc[r] \in {"updateIssue", "updateTask"} => \A t \in req[r].tasks : Follows(r, t)
    /\ pc[r] = "updateTask" => \A t \in req[r].tasks : task[t] # NoTask

\* The foreign keys never have to refuse a user: a link is inserted for the
\* connection it was fetched from, and a disconnected repository has no link left.
ForeignKeysHold ==
  \A r \in Requests :
    /\ pc[r] = "insertLink" =>
         Referable(r) /\ \A t \in req[r].tasks : task[t] # NoTask
    /\ pc[r] = "deleteRepository" => Linked(req[r].connection) \subseteq req[r].tasks

-----------------------------------------------------------------------------
\* The rows that the next statement of r waits for.
Wants(r) ==
  CASE pc[r] = "lockProject" -> {<<"Project", req[r].project>>}
    [] pc[r] = "insertRepository" -> {<<"External", req[r].external>>}
    [] pc[r] \in {"lockTask", "updateTask"} -> {"Task"} \X req[r].tasks
    [] pc[r] = "deleteLinks" ->
         {"Issue"} \X (IF req[r].kind = "disconnect" THEN Linked(req[r].connection)
                       ELSE req[r].tasks)
    [] pc[r] = "deleteRepository" ->
         {<<"Repository", req[r].connection>>, <<"External", req[r].external>>}
    [] pc[r] = "insertDelivery" -> {<<"Delivery", req[r].delivery>>}
    [] pc[r] = "updateIssue" -> {"Issue"} \X req[r].tasks
    [] OTHER -> {}

RefersTo(r) ==
  CASE pc[r] \in {"referProject", "referRepository"} -> {Reference(r)}
    [] pc[r] = "insertLink" -> {<<"Repository", req[r].connection>>} \cup ({"Task"} \X req[r].tasks)
    [] OTHER -> {}

Blockers(r) ==
  {q \in Requests \ {r} :
     \/ \E x \in Wants(r) : holder[x] = q \/ q \in sharers[x]
     \/ \E x \in RefersTo(r) : holder[x] = q}

\* Users' requests and webhooks lock rows in different orders, and still no set
\* of them waits for itself.
NoDeadlock ==
  \A S \in SUBSET Requests : S # {} => \E r \in S : Blockers(r) \cap S = {}
=============================================================================
