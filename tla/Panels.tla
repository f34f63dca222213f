------------------------------- MODULE Panels -------------------------------
(***************************************************************************)
(* What the pages of the web client show and how they keep it up to date.  *)
(*                                                                         *)
(* A key names a query of the cache: lib/queries.ts, for one Project, one  *)
(* of its Tasks, one of its pages and the signed-in user.  An operation is *)
(* a request that changes what some queries answer.  For an operation the  *)
(* module says which queries it changes (ShownIn), what event the backend  *)
(* publishes for it (Published), which queries that event refreshes        *)
(* (EventRefresh) and which ones the panel that sent it refreshes          *)
(* (PanelRefresh).                                                         *)
(***************************************************************************)
Keys == {"project", "projects", "projectColumns", "projectMembers", "projectActivities",
         "tasks", "task", "taskComments", "projectAttachments", "taskAttachments",
         "wikiPages", "wikiPage", "taskTime", "projectTime", "activeTimer",
         "projectRepository", "githubIssues", "taskGithubIssue",
         "notifications", "notificationUnreadCount",
         "organizationMembers", "organization", "organizations"}

\* The requests of lib/api.ts that change something, what GitHub says (sync) and
\* what the backend notifies its users of (notify).
Deletions == {"deleteTask", "removeRow"}     \* on the Task's page, in the list of Tasks

\* changeColumn: by the form of the Task; moveTask: on the board.
TaskOps == {"createTask", "updateTask", "changeColumn", "moveTask"} \cup Deletions

ProjectOps == {"updateProject", "archive", "restore"}

ColumnOps == {"createColumn", "renameColumn", "deleteColumn"}

MemberOps == {"addMember", "updateRole", "removeMember"}

CommentOps == {"createComment", "updateComment", "deleteComment"}

ProjectFileOps == {"uploadToProject", "removeFromProject"}

TaskFileOps == {"uploadToTask", "removeFromTask"}

WikiOps == {"createPage", "updatePage", "movePage", "removePage"}

TimeOps == {"start", "stop", "manual"}

RepositoryOps == {"connectRepository", "disconnectRepository"}

IssueOps == {"link", "unlink", "createFromIssue", "sync"}   \* sync: a webhook

BellOps == {"notify", "markRead", "markAllRead"}

OrganizationOps == {"addOrganizationMember", "updateOrganizationRole",
                    "removeOrganizationMember"}

-----------------------------------------------------------------------------
(***************************************************************************)
(* The operations that change the answer to each query.                    *)
(***************************************************************************)

\* The Project with its Columns, how many Tasks each has, and its roster.
ProjectShows == TaskOps \cup {"createFromIssue"} \cup ProjectOps \cup ColumnOps \cup MemberOps

\* The Projects of an Organization, with the number of Tasks and members.
ProjectsShow == Deletions \cup {"createTask", "createFromIssue", "createProject", "duplicate"}
                  \cup ProjectOps \cup MemberOps

\* Tasks, each with the name of its Column and of its Project.
TasksShow == TaskOps \cup {"createFromIssue", "sync", "renameColumn", "updateProject"}

TaskShows == TasksShow \ {"createTask", "createFromIssue"}

ActivitiesShow == TaskOps \cup ProjectOps \cup MemberOps \cup CommentOps \cup ProjectFileOps
                    \cup TaskFileOps \cup WikiOps \cup RepositoryOps \cup (IssueOps \ {"sync"})

\* The files of no Task; a deleted Task leaves its files to the Project.
ProjectFilesShow == ProjectFileOps \cup Deletions

\* Entries name their Task.
TaskTimeShows == TimeOps \cup {"updateTask", "sync"}

\* Sums of the ended entries by Task, and by user for those who administer the Project.
ProjectTimeShows == (TimeOps \ {"start"}) \cup {"updateTask", "sync"} \cup Deletions \cup MemberOps

ActiveTimerShows == (TimeOps \ {"manual"}) \cup {"updateTask", "sync"} \cup Deletions

\* The issues of the connected repository, with the Tasks linked to them.
IssuesShow == RepositoryOps \cup IssueOps \cup {"updateTask"} \cup Deletions

TaskIssueShows == (IssueOps \ {"createFromIssue"}) \cup {"disconnectRepository"}

ShownIn ==
  [project |-> ProjectShows, projects |-> ProjectsShow, projectColumns |-> ColumnOps,
   projectMembers |-> MemberOps, projectActivities |-> ActivitiesShow,
   tasks |-> TasksShow, task |-> TaskShows, taskComments |-> CommentOps,
   projectAttachments |-> ProjectFilesShow, taskAttachments |-> TaskFileOps,
   wikiPages |-> WikiOps, wikiPage |-> {"updatePage", "movePage"},
   taskTime |-> TaskTimeShows, projectTime |-> ProjectTimeShows, activeTimer |-> ActiveTimerShows,
   projectRepository |-> RepositoryOps, githubIssues |-> IssuesShow, taskGithubIssue |-> TaskIssueShows,
   notifications |-> BellOps, notificationUnreadCount |-> BellOps,
   organizationMembers |-> OrganizationOps, organization |-> OrganizationOps,
   organizations |-> OrganizationOps \cup {"createOrganization"}]

-----------------------------------------------------------------------------
(***************************************************************************)
(* The events: what a controller publishes once its service has committed, *)
(* and what RealtimeProvider does with one.                                *)
(***************************************************************************)
TaskEvents == TaskOps
ProjectEvents == ProjectOps
ColumnEvents == ColumnOps
MemberEvents == MemberOps
CommentEvents == CommentOps
ProjectFileEvents == ProjectFileOps
TaskFileEvents == TaskFileOps
WikiEvents == WikiOps
TimeEvents == TimeOps
RepositoryEvents == RepositoryOps
LinkEvents == {"link", "unlink"}
ImportEvent == {"createFromIssue"}
SyncEvent == {"sync"}
NotificationEvent == {"notify"}

\* New Projects, read notifications and Organizations are told to nobody.
Published ==
  TaskEvents \cup ProjectEvents \cup ColumnEvents \cup MemberEvents \cup CommentEvents
    \cup ProjectFileEvents \cup TaskFileEvents \cup WikiEvents \cup TimeEvents
    \cup RepositoryEvents \cup LinkEvents \cup ImportEvent \cup SyncEvent \cup NotificationEvent

\* tombstones: cancelled and set to null; edits: changed in place if there is
\* data; refetches: fetched at once, also when no panel shows them.
Untouched == [tombstones |-> {}, edits |-> {}, refetches |-> {}, invalidates |-> {}]

Invalidating(keys) == [Untouched EXCEPT !.invalidates = keys]

OnProject == Invalidating({"project", "projects"})

OnMember == [Untouched EXCEPT !.refetches = {"projectMembers", "project"},
                          !.invalidates = {"projectActivities"}]

OnColumn == Invalidating({"projectColumns", "project"})

OnTask(op) ==
  LET always == {"tasks", "project", "projectActivities"}
  IN IF op \in Deletions
     THEN [Untouched EXCEPT !.tombstones = {"task"}, !.edits = {"tasks"},
                        !.invalidates = always \cup {"taskAttachments", "projectAttachments"}]
     ELSE Invalidating(always \cup {"task"})

OnComment == Invalidating({"taskComments", "projectActivities"})

\* invalidateGithubResources: the lists of issues, and the links in the Project.
GithubResources == {"githubIssues", "taskGithubIssue"}

\* Mutant: the repository itself is not refreshed.
OnRepositoryIssues == Invalidating(GithubResources \cup {"projectActivities"})

OnRepository == Invalidating(GithubResources \cup {"projectRepository", "projectActivities"})

OnGithubIssue == Invalidating({"task", "githubIssues", "taskGithubIssue", "tasks",
                               "projectActivities"})

OnAttachment(op) ==
  Invalidating({"projectAttachments", "projectActivities"}
                 \cup IF op \in TaskFileOps THEN {"taskAttachments"} ELSE {})

OnWikiPage == Invalidating({"wikiPages", "wikiPage", "projectActivities"})

OnTimeEntry == Invalidating({"projectTime", "activeTimer", "taskTime"})

OnNotification == Invalidating({"notifications", "notificationUnreadCount"})

\* The switch on the entity of an event.
EventRefresh(op) ==
  CASE op \in TaskEvents -> OnTask(op)
    [] op \in ProjectEvents -> OnProject
    [] op \in ColumnEvents -> OnColumn
    [] op \in MemberEvents -> OnMember
    [] op \in CommentEvents -> OnComment
    [] op \in ProjectFileEvents \cup TaskFileEvents -> OnAttachment(op)
    [] op \in WikiEvents -> OnWikiPage
    [] op \in TimeEvents -> OnTimeEntry
    [] op \in RepositoryEvents -> OnRepository
    [] op \in LinkEvents \cup ImportEvent \cup SyncEvent -> OnGithubIssue
    [] op \in NotificationEvent -> OnNotification

\* invalidateProjectScope: what is refetched once a reconnected socket is subscribed again.
ProjectScope ==
  {"task", "taskAttachments", "taskGithubIssue", "project", "tasks", "projectColumns",
   "projectMembers", "projectActivities", "projectRepository", "projectAttachments",
   "wikiPages", "wikiPage", "githubIssues", "projectTime", "activeTimer", "taskComments",
   "taskTime"}

-----------------------------------------------------------------------------
(***************************************************************************)
(* What a panel does with the cache for its own request.                   *)
(*   snapshots    cancelled, and kept to be restored, when it is sent      *)
(*   optimistic   changed in place when it is sent                         *)
(*   tombstones   cancelled and set to null once it is answered            *)
(*   replaces     set to the answer                                        *)
(*   writes       changed in place, made of the answer if there is no data *)
(*   edits        changed in place if there is data                        *)
(*   invalidates  then invalidated                                         *)
(*   follows      invalidated after that                                   *)
(*   conflicts    invalidated after a refusal that says 404 or 409         *)
(*   settles      invalidated in the end, and also after a failure         *)
(***************************************************************************)
Nothing ==
  [snapshots |-> {}, optimistic |-> {}, tombstones |-> {}, replaces |-> {}, writes |-> {},
   edits |-> {}, invalidates |-> {}, follows |-> {}, conflicts |-> {}, settles |-> {}]

Refreshing(keys) == [Nothing EXCEPT !.invalidates = keys]

\* components/tasks
CreateTask ==
  [Nothing EXCEPT !.writes = {"tasks"},
                  !.invalidates = {"project", "projects", "projectActivities"}]

TaskSettled == {"tasks", "project", "projectActivities"}

UpdateTask ==
  [Nothing EXCEPT !.snapshots = {"tasks"}, !.replaces = {"task"}, !.writes = {"tasks"},
                  !.settles = TaskSettled]

ChangeColumn == [UpdateTask EXCEPT !.optimistic = {"tasks"}]

DeleteTask ==
  [Nothing EXCEPT !.tombstones = {"task"}, !.edits = {"tasks"},
                  !.invalidates = {"projects", "projectAttachments"}, !.settles = TaskSettled]

RemoveRow ==
  [Nothing EXCEPT !.tombstones = {"task"}, !.edits = {"tasks"},
                  !.invalidates = {"tasks", "project", "projects"}]

\* A move to another Column.
MoveTask ==
  [Nothing EXCEPT !.snapshots = {"tasks"}, !.optimistic = {"tasks"}, !.writes = {"tasks"},
                  !.conflicts = {"projectColumns"},
                  !.settles = {"tasks", "projectActivities"}]

CreateComment ==
  [Nothing EXCEPT !.writes = {"taskComments"}, !.invalidates = {"projectActivities"}]

UpdateComment ==
  [Nothing EXCEPT !.edits = {"taskComments"}, !.invalidates = {"projectActivities"}]

DeleteComment ==
  [Nothing EXCEPT !.edits = {"taskComments"},
                  !.invalidates = {"taskComments", "projectActivities"}]

\* components/projects
ColumnsModal ==
  [Nothing EXCEPT !.writes = {"projectColumns"},
                  !.invalidates = {"projectColumns", "project", "tasks"}]

MembersPanel ==
  [Nothing EXCEPT !.writes = {"projectMembers"},
                  !.invalidates = {"projectMembers", "project", "projectActivities"}]

EditProject ==
  [Nothing EXCEPT !.replaces = {"project"}, !.invalidates = {"projects", "projectActivities"}]

ArchiveProject == [Nothing EXCEPT !.edits = {"projects"}, !.invalidates = {"projects"}]

RestoreProject == [Nothing EXCEPT !.replaces = {"project"}, !.invalidates = {"projects"}]

DuplicateProject == Refreshing({"projects"})

CreateProject == Refreshing({"projects"})

ConnectRepository ==
  [Nothing EXCEPT !.replaces = {"projectRepository"},
                  !.invalidates = GithubResources, !.follows = {"projectActivities"}]

DisconnectRepository == ConnectRepository

\* components/github, attachments, wiki, time-tracking, notifications, organizations
LinkIssue ==
  [Nothing EXCEPT !.replaces = {"taskGithubIssue"},
                  !.invalidates = {"githubIssues", "projectActivities"}]

CreateFromIssue ==
  [Nothing EXCEPT !.writes = {"tasks"}, !.invalidates = {"githubIssues", "projectActivities"}]

\* Mutant: the panel waits for the event to refresh its own list.
OnlyActivities(op) == Refreshing({"projectActivities"})

AttachmentsPanel(op) ==
  Refreshing({"projectActivities",
              IF op \in TaskFileOps THEN "taskAttachments" ELSE "projectAttachments"})

WikiRefresh(op) ==
  Refreshing({"wikiPages", "projectActivities"}
               \cup IF op = "removePage" THEN {} ELSE {"wikiPage"})

UpdatePage == [WikiRefresh("updatePage") EXCEPT !.replaces = {"wikiPage"}]

TimePanel == Refreshing({"taskTime", "activeTimer", "projectTime"})

Bell == Refreshing({"notifications", "notificationUnreadCount"})

OrganizationMembers ==
  [Nothing EXCEPT !.writes = {"organizationMembers"},
                  !.invalidates = {"organizationMembers", "organization", "organizations",
                                   "projects"}]

CreateOrganization == [Nothing EXCEPT !.writes = {"organizations", "organization"}]

\* The requests that panels send: those of GitHub and the notifications are the backend's.
PanelOps ==
  TaskOps \cup ColumnOps \cup CommentOps \cup MemberOps \cup ProjectOps
    \cup {"duplicate", "createProject"} \cup RepositoryOps \cup (IssueOps \ {"sync"})
    \cup ProjectFileOps \cup TaskFileOps \cup WikiOps \cup TimeOps
    \cup (BellOps \ {"notify"}) \cup OrganizationOps \cup {"createOrganization"}

PanelRefresh(op) ==
  CASE op = "createTask" -> CreateTask
    [] op = "updateTask" -> UpdateTask
    [] op = "changeColumn" -> ChangeColumn
    [] op = "moveTask" -> MoveTask
    [] op = "deleteTask" -> DeleteTask
    [] op = "removeRow" -> RemoveRow
    [] op \in ColumnOps -> ColumnsModal
    [] op = "createComment" -> CreateComment
    [] op = "updateComment" -> UpdateComment
    [] op = "deleteComment" -> DeleteComment
    [] op \in MemberOps -> MembersPanel
    [] op = "updateProject" -> EditProject
    [] op = "archive" -> ArchiveProject
    [] op = "restore" -> RestoreProject
    [] op = "duplicate" -> DuplicateProject
    [] op = "createProject" -> CreateProject
    [] op = "connectRepository" -> ConnectRepository
    [] op = "disconnectRepository" -> DisconnectRepository
    [] op \in {"link", "unlink"} -> LinkIssue
    [] op = "createFromIssue" -> CreateFromIssue
    [] op \in ProjectFileOps \cup TaskFileOps -> AttachmentsPanel(op)
    [] op = "updatePage" -> UpdatePage
    [] op \in WikiOps \ {"updatePage"} -> WikiRefresh(op)
    [] op \in TimeOps -> TimePanel
    [] op \in BellOps \ {"notify"} -> Bell
    [] op \in OrganizationOps -> OrganizationMembers
    [] op = "createOrganization" -> CreateOrganization

Ops == PanelOps \cup Published
=============================================================================
