----------------------------- MODULE Discussion -----------------------------
(***************************************************************************)
(* What members say and hear about one Task: its comments, the activities  *)
(* that retell its changes, and the notifications about its assignee:      *)
(* CommentsService, the update of TasksService, ActivitiesService and      *)
(* NotificationsService.                                                   *)
(*                                                                         *)
(* Comments are created without a lock of the Project: only the foreign    *)
(* keys, of the Comment to its Task and of the Activity to the Project,    *)
(* keep them apart from the requests that lock both.                       *)
(*                                                                         *)
(* What a request writes is written at its commit; the row locks are taken *)
(* by the statements.  The assignee stands for the fields of a Task, the    *)
(* creation of one with an assignee for an update.  The locks on User  *)
(* rows are left out, and so are rows that nothing here reads again:       *)
(* activities, and notifications about comments.                           *)
(***************************************************************************)
EXTENDS Naturals, FiniteSets, RowLocks

CONSTANTS
  Users,
  Moderators,            \* the users who may delete the comments of others
  Reporter,              \* reporterId of the Task
  Comments,              \* the ids of Comment rows
  Texts,                 \* what a comment can say
  Requests,              \* the requests that can be open at the same time
  Gone                   \* instead of the assignee of a Task that is deleted

ASSUME DiscussionNoneAssumption ==
  None \notin Users \cup Comments \cup Texts \cup Requests

ASSUME GoneAssumption == Gone \notin Users \cup {None}

ASSUME PeopleAssumption == Moderators \subseteq Users /\ Reporter \in Users

VARIABLES
  assignee,              \* the user the Task is assigned to, None, or Gone
  comment,               \* comment[c]: the Comment row, or NoComment
  told,                  \* told[u]: the last Notification of u about the assignee
  member,                \* the users with access to the Project
  pc, req

rows == <<assignee, comment, told, member>>

vars == <<rows, pc, req, locks>>

Kinds == {"update", "remove", "comment", "edit", "erase"}

PCs == {"idle", "resolve", "lockProject", "lockTask", "assert", "parent", "referParent", "insert",
        "lockComment", "check", "referTask", "record", "cascade", "notify", "commit"}

NoComment == [author |-> None, text |-> None, deleted |-> FALSE]
Erased == None           \* the empty text of a deleted comment

NoRequest == [kind |-> None, user |-> None, comment |-> None, text |-> None, to |-> None,
              before |-> None, asked |-> {}, due |-> {}]

ProjectRow == <<"Project", None>>
TaskRow == <<"Task", None>>
LockRows == {ProjectRow, TaskRow} \cup ({"Comment"} \X Comments)

-----------------------------------------------------------------------------
Goto(r, next) == pc' = [pc EXCEPT ![r] = next]

Rollback(r) ==
  /\ ReleaseLocks(r)
  /\ Goto(r, "idle")
  /\ req' = [req EXCEPT ![r] = NoRequest]
  /\ UNCHANGED rows

\* A statement that only reads lets the request go on, with what it has read,
\* or refuses it.
Read(r, allowed, next, known) ==
  IF allowed
  THEN /\ Goto(r, next) /\ req' = [req EXCEPT ![r] = known]
       /\ UNCHANGED <<rows, locks>>
  ELSE Rollback(r)

\* Mutant: the row is read without FOR UPDATE.
ReadOnly(r, x, allowed, next, known) == Read(r, allowed, next, known)

\* SELECT ... FOR UPDATE, once row x is free.
Lock(r, x, allowed, next, known) ==
  IF allowed
  THEN /\ ForUpdate(r, {x}) /\ UNCHANGED sharers
       /\ Goto(r, next) /\ req' = [req EXCEPT ![r] = known]
       /\ UNCHANGED rows
  ELSE CanForUpdate(r, x) /\ Rollback(r)

\* The check of a foreign key to row x.
Refer(r, x, allowed, next, known) ==
  IF allowed
  THEN /\ KeyShare(r, {x}) /\ UNCHANGED holder
       /\ Goto(r, next) /\ req' = [req EXCEPT ![r] = known]
       /\ UNCHANGED rows
  ELSE CanKeyShare(r, x) /\ Rollback(r)

Asks(r, request, first) ==
  /\ req' = [req EXCEPT ![r] = request]
  /\ Goto(r, first)

-----------------------------------------------------------------------------
\* What the paths and the bodies of the requests name.
Begin(r) ==
  /\ pc[r] = "idle"
  /\ \E u \in Users :
     LET asks == [NoRequest EXCEPT !.user = u] IN
     \/ \E a \in Users \cup {None} : Asks(r, [asks EXCEPT !.kind = "update", !.to = a], "resolve")
     \/ Asks(r, [asks EXCEPT !.kind = "remove"], "resolve")
     \/ \E p \in Comments \cup {None}, x \in Texts :
          /\ p # None => comment[p] # NoComment
          /\ Asks(r, [asks EXCEPT !.kind = "comment", !.comment = p, !.text = x], "resolve")
     \/ \E c \in Comments, x \in Texts :
          /\ comment[c] # NoComment
          /\ Asks(r, [asks EXCEPT !.kind = "edit", !.comment = c, !.text = x], "resolve")
     \/ \E c \in Comments :
          /\ comment[c] # NoComment
          /\ Asks(r, [asks EXCEPT !.kind = "erase", !.comment = c], "resolve")
  /\ UNCHANGED <<rows, locks>>

\* assertTaskAccess, or the Project of a Task that is going to be locked.
ResolveTask(r) ==
  /\ pc[r] = "resolve"
  /\ IF req[r].kind \in {"update", "remove"}
     THEN Read(r, assignee # Gone, "lockProject", req[r])
     ELSE Read(r, assignee # Gone /\ req[r].user \in member,
               IF req[r].kind = "comment" THEN "parent" ELSE "lockComment",
               IF req[r].kind = "comment" THEN [req[r] EXCEPT !.before = assignee] ELSE req[r])

\* Mutant: a removal locks the Task first.
TaskFirst(kind) ==
  IF kind = "remove" THEN <<TaskRow, ProjectRow>> ELSE <<ProjectRow, TaskRow>>

\* lockTaskForOrdering, for every request on the Task.
LockOrder(kind) == <<ProjectRow, TaskRow>>

LockProject(r) ==
  /\ pc[r] = "lockProject"
  /\ Lock(r, LockOrder(req[r].kind)[1], TRUE, "lockTask", req[r])

\* ... and the Task as it is under the locks.
LockTask(r) ==
  /\ pc[r] = "lockTask"
  /\ Lock(r, LockOrder(req[r].kind)[2], assignee # Gone, "assert",
          [req[r] EXCEPT !.before = assignee])

\* assertProjectAccess and assertAssigneeAccess
AssertAccess(r) ==
  /\ pc[r] = "assert"
  /\ Read(r, /\ req[r].user \in member
             /\ req[r].to \in Users => req[r].to \in member,
          IF req[r].kind = "remove" THEN "cascade" ELSE "referTask", req[r])

-----------------------------------------------------------------------------
(* Comments.                                                               *)

\* 400 for a parent that is gone.
CheckParent(r) ==
  /\ pc[r] = "parent"
  /\ IF req[r].comment = None THEN Read(r, TRUE, "insert", req[r])
     ELSE Read(r, comment[req[r].comment] # NoComment, "referParent", req[r])

\* The foreign keys of the new Comment are checked in the order of their creation.
ReferParent(r) ==
  /\ pc[r] = "referParent"
  /\ Refer(r, <<"Comment", req[r].comment>>, comment[req[r].comment] # NoComment, "insert", req[r])

InsertComment(r) ==
  /\ pc[r] = "insert"
  /\ Refer(r, TaskRow, assignee # Gone, "referTask", req[r])

\* Mutant: the comment is looked up and not locked.
LockCommentNot(r) ==
  /\ pc[r] = "lockComment"
  /\ Read(r, comment[req[r].comment] # NoComment, "check", req[r])

LockComment(r) ==
  /\ pc[r] = "lockComment"
  /\ Lock(r, <<"Comment", req[r].comment>>, comment[req[r].comment] # NoComment, "check", req[r])

\* 403 for who may not, 409 for the edit of a deleted comment; an edit without a
\* change and a second deletion end with nothing written.
CheckComment(r) ==
  LET c == comment[req[r].comment] IN
  /\ pc[r] = "check"
  /\ Read(r, IF req[r].kind = "edit"
             THEN c.author = req[r].user /\ ~ c.deleted /\ c.text # req[r].text
             ELSE req[r].user \in Moderators \cup {c.author} /\ ~ c.deleted,
          "referTask", req[r])

-----------------------------------------------------------------------------
(* Activities and notifications.                                           *)

\* recordTaskChanges: an update that changes nothing is not told.
Changes(r) == req[r].kind = "update" /\ req[r].to # req[r].before

\* Mutant: only the new assignee hears of it.
NewAssigneeOnly(r) ==
  {x \in (Users \ {req[r].user}) \X {"assigned"} : Changes(r) /\ x[1] = req[r].to}

\* recordTaskAssignment: the old and the new assignee, without the actor.
AssignmentCandidates(r) ==
  {x \in (Users \ {req[r].user}) \X {"assigned", "unassigned"} :
     Changes(r) /\ x[1] = IF x[2] = "assigned" THEN req[r].to ELSE req[r].before}

Owner(c) == IF c = None THEN None ELSE comment[c].author

\* recordCommentCreated: a reply comes before a comment on one's Task.
CommentCandidates(r) ==
  {x \in (Users \ {req[r].user}) \X {"reply", "onTask"} :
     IF x[2] = "reply" THEN x[1] = Owner(req[r].comment)
     ELSE x[1] \in {Reporter, req[r].before} \ {Owner(req[r].comment)}}

\* ActivitiesService.record: its row refers to the Task, then to the Project.
ReferTask(r) ==
  /\ pc[r] = "referTask"
  /\ Refer(r, TaskRow, assignee # Gone, "record", req[r])

RecordActivity(r) ==
  /\ pc[r] = "record"
  /\ Refer(r, ProjectRow, TRUE, IF req[r].kind \in {"update", "comment"} THEN "notify" ELSE "commit",
           [req[r] EXCEPT !.asked = CASE req[r].kind = "update" -> AssignmentCandidates(r)
                                      [] req[r].kind = "comment" -> CommentCandidates(r)
                                      [] OTHER -> {}])

\* createForCandidates: one after the other, for who has access at that time.
\* due is what an update is going to tell.
Notify(r) ==
  /\ pc[r] = "notify" /\ req[r].asked # {}
  /\ \E x \in req[r].asked :
       req' = [req EXCEPT ![r].asked = @ \ {x},
                          ![r].due = IF req[r].kind = "comment" THEN {}
                                     ELSE @ \cup {IF x[1] \in member THEN x ELSE <<x[1], "nothing">>}]
  /\ UNCHANGED <<rows, pc, locks>>

NotifyDone(r) ==
  /\ pc[r] = "notify" /\ req[r].asked = {}
  /\ Read(r, TRUE, "commit", req[r])

\* Task.delete locks the comments that go with it.
Cascade(r) ==
  /\ pc[r] = "cascade"
  /\ ForUpdate(r, {"Comment"} \X {c \in Comments : comment[c] # NoComment}) /\ UNCHANGED sharers
  /\ Goto(r, "commit")
  /\ UNCHANGED <<rows, req>>

-----------------------------------------------------------------------------
(* The commits.                                                            *)

At(r, kind) == pc[r] = "commit" /\ req[r].kind = kind

End(r) ==
  /\ ReleaseLocks(r)
  /\ Goto(r, "idle")
  /\ req' = [req EXCEPT ![r] = NoRequest]

\* What u has been told last, once r has committed: nothing of a change of its own.
Hears(r, u) ==
  LET heard == {t \in {"assigned", "unassigned", "nothing"} : <<u, t>> \in req[r].due} IN
  IF heard # {} THEN CHOOSE t \in heard : TRUE
  ELSE IF u = req[r].user /\ Changes(r) THEN "nothing"
  ELSE told[u]

CommitUpdate(r) ==
  /\ At(r, "update")
  /\ assignee' = req[r].to
  /\ told' = [u \in Users |-> Hears(r, u)]
  /\ UNCHANGED <<comment, member>>
  /\ End(r)

CommitRemoval(r) ==
  /\ At(r, "remove")
  /\ assignee' = Gone
  /\ comment' = [c \in Comments |-> NoComment]
  /\ UNCHANGED <<told, member>>
  /\ End(r)

CommitComment(r) ==
  /\ At(r, "comment")
  /\ \E c \in Comments :
       /\ comment[c] = NoComment
       /\ comment' = [comment EXCEPT ![c] = [author |-> req[r].user, text |-> req[r].text,
                                             deleted |-> FALSE]]
  /\ UNCHANGED <<assignee, told, member>>
  /\ End(r)

CommitEdit(r) ==
  /\ At(r, "edit")
  /\ comment' = [comment EXCEPT ![req[r].comment].text = req[r].text]
  /\ UNCHANGED <<assignee, told, member>>
  /\ End(r)

CommitErase(r) ==
  /\ At(r, "erase")
  /\ comment' = [comment EXCEPT ![req[r].comment].text = Erased, ![req[r].comment].deleted = TRUE]
  /\ UNCHANGED <<assignee, told, member>>
  /\ End(r)

\* A statement fails, the database breaks a deadlock, or the process goes away.
Fail(r) == pc[r] # "idle" /\ Rollback(r)

-----------------------------------------------------------------------------
\* The members change, in transactions of their own.
Join(u) ==
  /\ u \notin member /\ member' = member \cup {u}
  /\ UNCHANGED <<assignee, comment, told, pc, req, locks>>

Leave(u) ==
  /\ u \in member /\ member' = member \ {u}
  /\ UNCHANGED <<assignee, comment, told, pc, req, locks>>

Init ==
  /\ assignee \in Users \cup {None}
  /\ comment = [c \in Comments |-> NoComment]
  /\ told = [u \in Users |-> "nothing"]
  /\ member = Users
  /\ pc = [r \in Requests |-> "idle"]
  /\ req = [r \in Requests |-> NoRequest]
  /\ LocksInit(LockRows)

Next ==
  \/ \E r \in Requests :
       \/ Begin(r) \/ ResolveTask(r) \/ LockProject(r) \/ LockTask(r) \/ AssertAccess(r)
       \/ CheckParent(r) \/ ReferParent(r) \/ InsertComment(r) \/ LockComment(r) \/ CheckComment(r)
       \/ ReferTask(r) \/ RecordActivity(r) \/ Notify(r) \/ NotifyDone(r) \/ Cascade(r)
       \/ CommitUpdate(r) \/ CommitRemoval(r) \/ CommitComment(r)
       \/ CommitEdit(r) \/ CommitErase(r) \/ Fail(r)
  \/ \E u \in Users : Join(u) \/ Leave(u)

Spec == Init /\ [][Next]_vars

-----------------------------------------------------------------------------
TypeOK ==
  /\ assignee \in Users \cup {None, Gone}
  /\ comment \in [Comments -> {NoComment} \cup
       [author : Users, text : Texts \cup {Erased}, deleted : BOOLEAN]]
  /\ told \in [Users -> {"nothing", "assigned", "unassigned"}]
  /\ member \subseteq Users
  /\ pc \in [Requests -> PCs]
  /\ LocksTypeOK(LockRows, Requests)

\* "Stored content is erased" and "editing a tombstone returns HTTP 409"
\* (docs/comments.md): once a comment is deleted its text does not come back,
\* whatever edits and deletions are under way, and it stays until its Task goes.
ErasedForGood ==
  [][\A c \in Comments : comment[c].deleted =>
       comment[c].text = Erased /\ comment'[c] \in {comment[c], NoComment}]_vars

\* "Project and Task rows are locked before capturing mutable before-state"
\* (docs/activity.md), and a deletion creates "no duplicate event"
\* (docs/comments.md): what an activity is going to tell of the state before is
\* still true when it is committed.
ActivitiesAreTrue ==
  \A r \in Requests : pc[r] = "commit" =>
    /\ req[r].kind \in {"update", "remove"} => assignee = req[r].before
    /\ req[r].kind \in {"edit", "erase"} => ~ comment[req[r].comment].deleted

\* Whoever has been told to be the assignee, or not to be it any more, by the last
\* change that they did not make themselves and had access to, can rely on it.
LastNoticeIsTrue ==
  assignee # Gone =>
    \A u \in Users : told[u] # "nothing" => (told[u] = "assigned" <=> assignee = u)

-----------------------------------------------------------------------------
\* The rows that the next statement of r waits for, or refers to.
Wants(r) ==
  CASE pc[r] = "lockProject" -> {LockOrder(req[r].kind)[1]}
    [] pc[r] = "lockTask" -> {LockOrder(req[r].kind)[2]}
    [] pc[r] = "lockComment" -> {<<"Comment", req[r].comment>>}
    [] pc[r] = "cascade" -> {"Comment"} \X {c \in Comments : comment[c] # NoComment}
    [] OTHER -> {}

RefersTo(r) ==
  CASE pc[r] = "referParent" -> {<<"Comment", req[r].comment>>}
    [] pc[r] \in {"insert", "referTask"} -> {TaskRow}
    [] pc[r] = "record" -> {ProjectRow}
    [] OTHER -> {}

Blockers(r) ==
  {q \in Requests \ {r} :
     \/ \E x \in Wants(r) : holder[x] = q \/ q \in sharers[x]
     \/ \E x \in RefersTo(r) : holder[x] = q}

\* A new comment has the Task and waits for the Project, a change of a comment has
\* the Comment and waits for the Project; an update and a removal wait the other
\* way round.  There is no other deadlock: requests on comments never wait for
\* each other in a circle, nor do requests on the Task.
DeadlocksTakeBoth ==
  \A S \in (SUBSET Requests) \ {{}} :
    (\A r \in S : Blockers(r) \cap S # {}) =>
      /\ \E r \in S : req[r].kind \in {"comment", "edit", "erase"}
      /\ \E r \in S : req[r].kind \in {"update", "remove"}
=============================================================================
