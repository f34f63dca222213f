# FlowPlan: a specification

FlowPlan is a project-management application: a NestJS backend on PostgreSQL
(through Prisma), a Socket.IO gateway, and a Next.js client that caches with
TanStack Query. This directory specifies its core logic in TLA+. TLC
model-checks the specifications on small instances, and TLAPS proves the
properties that matter most for every value of the constants.

All source paths below are relative to `src/`.

## 1. The system

| Component | State it keeps | Operations | Where |
|---|---|---|---|
| Task boards | Task rows (Column, position), Columns, Boards | create, update, move, remove Tasks; add, rename, remove Columns | `backend/src/tasks/tasks.service.ts`, `backend/src/projects/project-columns.service.ts` |
| Organization membership | member rows with a role, `ownerId` | create, add, change role, remove | `backend/src/organizations/` |
| Project membership | explicit member rows with a role | add, change role, remove | `backend/src/projects/project-members.service.ts` |
| Projects | Project rows, Board, first Columns, owner | create, duplicate, update, archive, restore | `backend/src/projects/projects.service.ts` |
| Access checks | none: they read the member rows | six assertions | `backend/src/access/access.service.ts` |
| Realtime gateway | rooms of each socket | connect, subscribe, unsubscribe, publish, notify, reauthorize | `backend/src/realtime/` |
| Time tracking | TimeEntry rows, one active per user | start, stop, manual entry | `backend/src/time-tracking/` |
| Attachments | File rows and stored objects | upload, download, remove | `backend/src/attachments/` |
| GitHub Issues | Repository, Issue links, webhook deliveries | connect, disconnect, link, unlink, import, webhook | `backend/src/github/github.service.ts`, `github-issues.service.ts` |
| GitHub App flow | one-time authorization states | begin, setup, callback | `backend/src/github/github-app.service.ts` |
| Wiki | a tree of pages per Project | create, edit, move, remove | `backend/src/wiki/` |
| Comments, notifications, activities | Comment and Notification rows | create, edit, remove, mark read | `backend/src/comments/`, `notifications/`, `activities/` |
| Web client | query caches, drafts, optimistic moves | mutations, event handling | `frontend/src/lib/`, `frontend/src/components/` |
| Sessions, configuration, pages | Better Auth's tables, environment, layout | | `backend/src/auth/`, `config/`, `frontend/src/app/` |

How they interact. Every REST call goes through a guard (session), a controller
and one service; the service runs one Prisma transaction at PostgreSQL's
default isolation level, READ COMMITTED. Services of the same data meet only in
the database: they serialize by `SELECT ... FOR UPDATE` on a parent row
(Project, Organization, Board, Column, User, ...), by unique indexes and by
foreign keys. After the transaction has committed, the controller tells the
realtime gateway, which looks up every socket of a room again and emits an
event or takes the socket out. A removal of a member asks the gateway to
reauthorize the rooms. The client answers an event by refetching.

What is hard. *Concurrency*: each statement of a transaction reads what is
committed at that moment, so a check is only worth the lock it is made under;
requests lock rows in several orders. *Stale reads*: several services read
before they lock, and the gateway joins a room after an awaited lookup.
*Ordering*: reordering Tasks rewrites many rows under a unique index, one row
at a time. *Failure*: a request can fail between any two statements; object
storage and the database are not one transaction; publication is best effort.
*Delivery*: webhooks are duplicated and reordered.

What makes each part correct, in a line: boards - Columns stay dense and moves
are not lost; membership - nothing is ever without an owner and only owners
change it; realtime - nobody is sent what they may no longer read, and losing
access empties the rooms; time tracking - one running timer per user;
attachments - no row without its object; GitHub - a link follows the Issue and
a delivery is applied once; App flow - a state is used once; wiki - the pages
form a tree; comments - the history stays; client - the caches converge.
`PROJECT.json` lists each hazard with its line and the properties that answer
it.

## 2. The modules

| Module | What it is |
|---|---|
| `RowLocks` | PostgreSQL's row locks as the services use them: FOR UPDATE, the FOR KEY SHARE of foreign key checks, and their release |
| `TaskBoard` | TasksService and ProjectColumnsService, statement by statement |
| `OrderedBoard` | the abstract board: each request takes effect in one atomic step on sequences, or not at all |
| `BoardRefinement` | the refinement mapping from `TaskBoard` to `OrderedBoard` |
| `MCTaskBoard` | instances of `TaskBoard` and its refinement |
| `TaskBoardProofs` | lemmas about orders and locks; the theorems of `TaskBoard`, the refinement among them |
| `Memberships` | OrganizationsService, ProjectMembersService, creation of projects, the checks of AccessService |
| `MembershipsHistory` | `Memberships` with a history of authority |
| `MCMemberships`, `MembershipsProofs` | instances; the theorems of `Memberships` and its history |
| `Realtime` | RealtimeGateway, with the commits that change access |
| `RealtimeHistory` | `Realtime` with histories of authority: what has been true of a socket since a delivery began |
| `MCRealtime` | instances of `Realtime` and its history |
| `TimeTracking` | TimeTrackingService and the deletion of Tasks, as transactions that can deadlock |
| `MCTimeTracking`, `TimeTrackingProofs` | instances; the theorems of `TimeTracking` |
| `Attachments` | AttachmentsService on the File table and the object store, with faults of both |
| `MCAttachments`, `AttachmentsProofs` | instances; the theorems of `Attachments` |
| `Wiki` | WikiService: the pages of projects and their order |
| `MCWiki`, `WikiProofs` | instances; the theorems of `Wiki` |
| `GithubSync` | GithubService and GithubIssuesService: repository, links and webhook deliveries |
| `GithubAppFlow` | GithubAppService: one-time states and installations |
| `MCGithub`, `GithubProofs` | instances of these two, where a behaviour runs one of them; the theorems of both |
| `Discussion` | CommentsService, the update and removal of a Task, ActivitiesService and NotificationsService |
| `MCDiscussion`, `DiscussionProofs` | instances; the theorems of `Discussion` |
| `Panels` | which queries of the client each request changes, each event refreshes and each panel refreshes: data, no state |
| `ClientCache` | one query of the browser's cache with everything that happens to it |
| `KanbanMove` | a drop on the board, over an `OrderedBoard` |
| `Drafts` | the form of a Task or the editor of a page, and what is kept of it |
| `MCWebClient` | instances of `ClientCache`, `KanbanMove` and `Drafts`; a behaviour runs one of them |
| `RealtimeClientProofs` | the theorems of `Realtime` and its history, and of the three modules of the client |

### RowLocks

`holder[x]` has row x FOR UPDATE; `sharers[x]` have FOR KEY SHARE on it. A
transaction keeps its locks until it ends. PostgreSQL is not part of the
repository: this module is external, modelled from how the services rely on it.
A DELETE or an UPDATE is modelled as FOR UPDATE, which is what a DELETE takes
and what the code needs of an UPDATE.

### TaskBoard

`task`, `home`, `column` are the committed rows; `work[r]` is what the open
request r has written and not committed, so `Seen(r)` is the table r reads.
A request goes through its statements (`pc`):

- a Task request: `StartCreate`/`StartChange` (which finds the project from the
  stored Task before any lock, as `lockTaskForOrdering` does), `LockProject`,
  one of the `Read...` actions (checks and computes the new orders: `plan`),
  then, as `persistOrders` does, `Shift` row by row past every position in use,
  `Place` row by row in the order of its loops, and `Commit`;
- a Column request: `LockBoard` or `LockColumn`, the write with its foreign
  key check, and `Commit`.

`Shift` takes the rows of the one UPDATE statement in any order, because
PostgreSQL does, and checks the unique index after each. `Taken` is the unique
constraint; a request it stops is answered with 409 and rolls back. `Fail`
stands for everything that may roll a request back anywhere: an access check, a
lost connection, a timeout, a crash. The guards that refuse a request by the
state of the board are explicit. Titles, assignees, priorities and activities
are left out: they do not meet with the order.

### OrderedBoard

The promise: `order[c]` is a sequence; create appends, a change of Column in an
update appends, a move takes the Task out and inserts it at the index the
client asked for, a removal closes the gap. `BoardRefinement` maps the committed
rows to `order` by ORDER BY position and the open requests to `asked`.

### Memberships

`memberRole[o][u]` and `projectRole[p][u]` are the member rows, `primary[o]`
the organization's `ownerId`. A request is seen from its first statement on:
`ChangeMembers` (withLockedOrganization), `CheckOwner`, `FindMember` (with the
replacement owner), `ListProjects` for a removal, `CommitMember`;
`ChangeRoster` (withLockedProject), `Authorize`, `InsertMember` or
`FindProjectMember`, `CommitRoster`; `CreateProject` or `DuplicateProject`,
`InsertProject` (whose foreign key check locks the Organization row against
deletion), `CommitProject`. What a request writes it writes at its commit: no
other request can see it earlier. Where the code checks roles first and finds
the row second, or the other way round, under the same lock, the model has one
order; both refuse. Slugs, names, notifications and activities are left out.

### Realtime

Every `await` of the gateway is a boundary between steps. A subscribe handler
is `Subscribe` (limit check), `AuthorizeSubscribe` (the awaited lookup),
`Join`. A publication is `Fetch` and then, for each socket on its own,
`CheckSession`, `CheckAccess`, and `Emit` or `Leave`. A lookup can fail, and
the code's `catch` then treats it as a refusal: stage `error`. Memberships
change in one step here (`Memberships` has the inside of those requests);
`due` holds the Projects whose reauthorization follows a commit. Two removals
of members of the same Project before the first reauthorization share one in
the model; the code runs two, and the second finds what the first left.
`wanted` is what the messages received from the socket ask for.

### TimeTracking

`tasks` and `entry[e]` are the committed rows, `access` the users with access
to the project; an entry with `ended = None` has `activeMarker = TRUE`. A
request goes through its statements: `ResolveTask` (`resolveTask`, before any
lock), `LockUser`, then `CheckRunning` and `InsertEntry` for a start,
`LockTimer` and `FinishTimer` for a stop; a manual entry is `ResolveTask` and
`InsertEntry`; the deletion of a Task is `LockProject`, `LockTask`,
`RecordActivity`, `DeleteTask`, whose foreign key takes the entries along.
Each request reads the clock afresh (`now \in Times`): it may stand still or
run backwards between a start and its stop. `Second` is the number of ticks
in a second, so that rounding (up for a timer, down for a manual entry) shows.
`Wants(r)` and `RefersTo(r)` are the rows the next statement locks;
`Blockers` derives from them who waits for whom, and `BreakDeadlock` is
PostgreSQL's deadlock detection. Descriptions, lists and summaries only read,
and are left out.

### Attachments

Two resources: `file[f]`, the committed File rows, and `objects`, the keys in
the store. An upload is `BeginUpload`, `StoreObject`, `InsertFile`, `Commit`,
and `Compensate` when the transaction fails; a removal is `BeginRemove`,
`LockFile`, `FindFile`, `ReadObject`, `UnlinkObject`, `DeleteRow`, `Commit`,
and `Restore` when it fails after the object is gone; the deletion of a Task
moves its rows to the Project's scope. `open` is the set of requests whose
transaction is open: `Timeout` closes one while the code of the request still
waits for the store, and the code goes on (`interactive transactions` of
Prisma end after five seconds by themselves). `Faults` names what can go wrong
in a run. `logged` are the keys an error in the log names for repair, and the
history variable `hit` the keys at which the code cannot keep its promise: a
crash stopped a request that had stored or deleted the object, the write of an
upload was cut off, or the answer to its COMMIT was lost. The properties excuse
these keys and no other, so a fault at one attachment must not damage another.

### Wiki

`page[p]` are the committed rows and `work[r]` what request r has written, as
in `TaskBoard`. A request goes through its statements: `LockProject` (after the
access check), `LockPage` for everything but a creation, `Ascend` once per
ancestor of the new parent until `ReachRoot` (`assertValidParent` and
`assertMoveHierarchy` are the same walk with different refusals), then
`InsertPage`; or `CheckHeight`, `CheckIndex`, `CloseGap`, `OpenGap`, `Place`;
or `CountChildren`, `DeletePage`, `CloseGap`; or `EditPage`. Titles, contents
and users are left out: that a page is removed by its creator or an owner, and
that a request is refused for want of access, is part of `Fail`, which may
refuse anything anywhere. `current[r]` is the row as `LockPage` read it, which
the later statements trust.

### GithubSync

`repository`, `task`, `link`, `delivery` are the committed rows; what a request
writes it writes at its commit, and the row locks are taken by the statements.
The requests of users read before they lock (`ResolveTask`, `FindConnected`,
`FetchIssue`: the request to GitHub), lock the Project, look again
(`AssertCurrent`) and write: `InsertRepository`, `InsertLink`, `DeleteLinks`,
`DeleteRepository`. A webhook (`FindRepository`, `FindDelivery`,
`InsertDelivery`, `Refer` twice, `FindIssue`, `UpdateIssue`, `UpdateTask`)
never locks the Project: the foreign keys of the delivery it inserts do, in the
order in which the migration creates them. Unique indexes are locks on
`External` and `Delivery` rows that make a second insert wait. `Change` is
GitHub, which then may send the delivery any number of times; there is no order
between deliveries. What an Issue says is left out: `applied` counts how often
a delivery has been committed.

### GithubAppFlow

`state[s]` are the rows of one-time states, `installation[i]` who connected an
installation, `flow[f]` an open request: an install URL (`DeleteStates`,
`CreateState`), a setup (`LockState`, `CheckSetup`, `Bind`) or a callback
(`LockState`, `CheckCallback`, `Consume`, then the requests to GitHub, `Create`
and `Cleanup`). Each is a transaction of its own in the code, and `Crash` can
come between any two. Any browser may send any state that exists, again and at
the same time. `used` counts consumptions.

### Discussion

One Task with its comments. A new comment takes no lock of its own: its
foreign keys do (`ReferParent`, `InsertComment`), and so do those of the
Activity (`ReferTask`, `RecordActivity`). An edit or a deletion is `LockComment`, `CheckComment`; an
update and a removal of the Task are `LockProject`, `LockTask`, `AssertAccess`,
and for the removal `Cascade`. `told[u]` is the last notice to u about the
assignee; members come and go meanwhile.

### Panels, ClientCache

A query of the cache is a key (`Keys`), for one Project, Task, page and user.
`ShownIn[k]` are the operations that change what the services answer for k,
read off their `include`s and `where`s. `Published` is what the controllers
publish, `EventRefresh(op)` is `RealtimeProvider`'s switch, and
`PanelRefresh(op)` the `onMutate`, `onSuccess`, `onSettled` of every panel: what
it cancels, edits, replaces and invalidates. The services, the controllers and the
panels are in different files and written independently, so that the three
tables agree is what `ClientCache` checks.

`ClientCache` picks one key in `Init`, and for every change one operation on it.
Data is the set of changes it contains. A change of this browser is sent
(`Mutate`, which keeps the data that a failure restores in `snapshot[c]`),
committed (`Commit`, which makes the answer `reply[c]`), published
(`PublishChange`: into the browser's `inbox`, dropped, or not sent because the
browser is not in the room), and its answer comes (`Answer`, then
`SettleRequest`) or not (`Fails`). `LoseSocket`, `Reconnect` and `EnterRoom`
are the socket's; the first subscription is not awaited, later ones refetch at
their acknowledgement (`OnAck`). A fetch is asked, read by the server and
answered, in three steps, and the page is left and opened again (`LeavePanel`,
`ReturnToPanel`). TanStack Query is not part of the repository; `SetData`,
`Edit`, `Cancel`, `StartFetch`, `Invalidate` and `Refetch` are what the code
relies on: data set by hand is fresh and leaves a running fetch alone;
invalidation replaces a running fetch, but joins the first one; a query that is
not shown is fetched when it is shown again. Revocation of access is left out
(it ends in the same refetches), as are the polling of the GitHub popup, pages
of a list and background focus.

`EventGaps` and `PanelGaps` are the pairs the code does not refresh, stated
once and each needed: without any of them the check fails. They are stale until
the data is 30 seconds old and the page is opened again:

- the names of Columns and of the Project that a Task's answer includes, after
  a rename or an update;
- the Organization's list of Projects, with its counts of Tasks and members,
  after what others create, delete or add;
- the number of Tasks in each Column, after an import from an Issue;
- the activities of a Project after its own update, archival or restoration;
- the times of a Project, the entries of a Task and the active timer, which
  name Tasks, after a Task is renamed, deleted or synchronized, and the sums by
  user, which depend on the roster, after it changes;
- the list of issues, which names the Task linked to each, after a Task is
  renamed or deleted;
- for the panel's own list: what `PanelGaps` says, which mostly are the same.

Two history variables say which changes the code cannot show, and the
properties exempt exactly those. `missed`: the event was dropped, or sent when
the browser was not in the room, and nothing has refetched since (a fetch that
the server has not read yet clears it). `overtaken`: data was declared fresh
without the change, because an invalidation joined the first fetch, which was
read before it, or because a panel replaced the data by an older answer.

### KanbanMove

The server is `OrderedBoard` (which `TaskBoard` implements: section 4), with
one request of this browser and one of all others; `cache` is the list of Tasks
with their believed places, refetched at any time (`RefetchBoard`).
`DropOnTask` and `DropOnColumn` are `handleDragEnd`: from the Task or Column
under the pointer, and the half of it, to an index. `SendMove` shows the
outcome (`optimisticallyMove`), `ServeMove` is the server's, `MoveSucceeds` and
`MoveFails` put the answer or the former list into the cache. The names are the
code's where they are functions of it. The sort of `groupTasks` is stated by
ranks: the Task at an index is the one with so many Tasks above it (`Above`).

### Drafts

One row, written by others at any time; `known` is the row as the last answer
had it, or `Gone`, `failed` says that the last fetch failed, `form` is the
open form and what it began with, `draft` what `TaskDraftProvider` or
`WikiDraftProvider` keeps in memory, `save` the request under way. `Input` is
what is sent: for a Task what differs from the form's beginning, for a page
both title and content. `text` remembers what the user has typed and not saved
or discarded, and `answeredLate` that a save was answered when its page had been
left and opened again, which deletes the newer draft. The form of a new Task, and
the small drafts of comments and time entries, are left out.

A fetch that does not succeed differs between the two forms. `TaskRoute` unmounts
a Task's form whatever the error (`task-route.tsx:82-95`); the draft is deleted
if the Task is no longer available and stays otherwise (`RefetchRow`,
`RefetchFails`, `DraftAfterError`). `ProjectWikiPanel` keeps mode, text and draft
of an editor and shows `ErrorState` in its place (`Hidden`,
`project-wiki-panel.tsx:345-349`), in which nothing can be typed or saved, but
another page be selected (`DiscardEdits`); it does so until a fetch succeeds, and
for a page that was deleted none will. A page with a draft is opened in its
editor even then. The loss of access is left out.

## 3. What is checked

Every property has a mutant in `PROJECT.json`: a plausible bug in one
definition that TLC must find with the run's own configuration.

| Run | Instance | What it shows |
|---|---|---|
| `TaskBoard` | 3 Tasks, 3 Columns, 2 projects, 2 requests | `DensePositions`, `TasksOnColumnsOfProject`, `NoPositionConflict` (no statement of a reordering meets the unique index), and `ImplementsOrderedBoard`: the refinement |
| `TaskBoardAnswers` | 4 Columns, 1 Task, 2 requests | `ColumnsAppend` while Columns come and go; `RequestsEnd`: Task and Column requests do not deadlock |
| `Memberships` | 2 users, 1 organization, 2 Projects, 2 requests | `PrimaryIsOwner`, `EveryProjectHasOwner`, `OwnersChangeMembers`, `RosterChangesEntitled`, `RemovalCoversProjects` |
| `Realtime` | 1 socket, 1 Project, 2 subscribe handlers, 2 publications | `SentToAuthorized`, `EvictedForCause`, `RoomsFollowAccess` |
| `RealtimeProjects` | 1 socket, 2 Projects, 1 publication | `StrangersLeave`: a removal from the organization reaches the rooms of all its Projects in the end |
| `TimeTracking` | 1 user, 2 Tasks, 2 entries, 2 requests | `EntriesSound` (one running timer per user, the CHECK of the table, no entry without its Task), `StartNeverConflicts` (the unique index never has to refuse), `EntriesEndByTheirUser`; `RequestsEnd`, although a start and the deletion of a Task can deadlock |
| `Attachments` | 2 users, 1 file, 1 Task, 2 requests, every fault | `AttachmentsAvailable`, `NoOrphans`, `RestoreFindsKeyFree`, `FilesLeaveByRemoval`; `RequestsEnd`: a removal and a deletion of its Task can deadlock |
| `Wiki` | 3 pages, 2 projects, 2 levels, 2 requests | `PagesFormForest`, `SiblingsDense`, `ChangesTakeEffect` |
| `Github` | 2 Projects, 2 connections, 1 Issue, 2 Tasks, 2 deliveries, 2 requests; 2 users, 2 states, 1 installation, 2 flows | `AppliedOnce`, `SyncFindsItsRows`, `ForeignKeysHold` (no foreign key has to refuse a user), `NoDeadlock`; `FlowsAreExclusive`: one exchange per state, one owner per installation |
| `Discussion` | 2 users, 2 comments, 2 texts, 2 requests | `ActivitiesAreTrue`, `LastNoticeIsTrue`, `ErasedForGood`, `DeadlocksTakeBoth`: which requests can deadlock, and that no others can |
| `WebClient` | every query, 2 changes of which this browser may make one, 2 faults; 3 Tasks on 2 Columns, 2 drops, 1 request of others; 2 fields with 2 values | `ConnectedCacheConverges`, `OwnChangesShow`; `DropsLandWhereShown`; `EditsAreKept` |

One run finds the code at odds with its documentation:

| Run | Property | What happens |
|---|---|---|
| `RealtimeRace` | `LosingAccessEvicts` | a subscription authorized before a removal joins after its reauthorization, and stays; no event reaches it, because every delivery checks again (`SentToAuthorized` holds), but it keeps the room |

Known disagreements without a run of their own, and how to see each:

- The limit of rooms is compared with joined rooms before an await, so that
  subscriptions in flight pass it together: check `SubscriptionLimit` of
  `Realtime` in `Realtime.cfg`.
- An unsubscribe overtakes the subscribe before it, which then joins a room
  nobody wants: `LeavingReleases`, likewise.
- The COMMIT of an upload succeeds and its answer is lost: the code takes it
  for a failure, deletes the object and logs nothing, and the row stays without
  an object: `DamageIsLogged` of `Attachments` in `Attachments.cfg`.
- `docs/ui-refinement.md:308` says that an earlier save cannot clear a newly
  started draft. It can when the page is left and opened again while the save is
  under way, because the disabled form is another one: leave `answeredLate` out of
  `DraftsSurvive` in `Drafts`.
- `project-wiki-panel.tsx:260` says of an unsaved draft "It stays available
  during navigation in this session". When others delete the page and the browser
  refetches it, an error takes the place of the editor for good, also after
  coming back, though the draft is still in memory: leave `Withheld` out of
  `DraftsSurvive` in `Drafts`.
- A drop on the empty part of a Task's own Column asks for the index after the
  last, which the server refuses (`tasks.service.ts:393`), as the Task is no
  longer counted: `DropsLandWhereShown` says so; the board goes back.
- `docs/tasks.md:236` says that a failed movement "restores the exact Project
  Task cache". What it restores may contain the preview of another request
  that overlapped and was refused, such as a change of Column in a Task's form:
  the refetch that follows puts it right, but if that fails and a Task is
  created then, the list counts as fresh and keeps the refused edit. It shows with
  three changes of this browser and three faults, more than the run has: check
  `ConnectedCacheConverges` for the key "tasks" with a move, a change of Column
  and a creation. `CacheConverges` (section 4) has a hypothesis for it.
- `docs/realtime.md:3` says that the events "keep collaborators viewing the same
  Project converged"; the pairs of `EventGaps` above are not.

Bounds. Two concurrent requests are what every race here needs: the invariants
relate a request that has read something to one that changes it, and a third
request meets each of the two the same way. Three Tasks in two Columns of one
project give a reordering rows before, at and after the moved one, and a second
project's Column gives the wrong-project case. Columns are never used twice, so
that four of them give two additions, a removal and a Column that stays. Two
users are enough for `Memberships`: an owner who acts and one who is demoted,
removed or left as the only one, in both roles at once when two requests cross;
what a third adds is a bystander. In `Realtime` the sockets only meet through
memberships and sessions, so one socket stands for each; `Limit` is 2 instead
of 20, and the own rooms of the socket are counted as in the code. In
`TimeTracking` one user is enough, because requests of two users meet in no
row of theirs, only in Tasks; two requests of one user and the deletion of a
Task are the races. A second of two ticks and readings 0 to 2 give intervals
of none, half and one second, and a clock behind the start. In `Attachments`
requests for different files never meet; two requests on one file give two
removals of it, or a removal and the deletion of its Task, and the upload, the
removal and the restore follow each other within one behaviour. In `Wiki` two
levels make both refusals of the depth happen (a page that is too deep, and
one that takes a child along), and three pages two walks that cross. For
everything the backend promises beside liveness, the proofs below cover every
number of users, rows, requests and levels, so the bounds matter only for what section 4 lists as
model-checked. In `Github` a second Project and a
second connection give a repository that moves from one to the other while an
Issue is fetched or a delivery is on its way, and the second delivery one that
crosses the first; two flows are a callback and its double, or two users. In
`Discussion` two comments are a parent and its reply, and one is enough while
the assignee changes (`thread`). In `WebClient` queries share nothing, so that
one at a time is all of them; two changes are one that overtakes another, and
two faults give a lost event and a reconnection, or a refusal and a failed
fetch. A second change of this browser is left out for time: what it adds is
the overlap of two mutations, for which the proof stands. Three Tasks give a
drop above, on and below another Task in the same Column and in the other; the
second drop begins from what the first has left. Fields of a form only matter
as typed or not, so two are enough. Ids of Tasks
and Columns are never used twice; the sets of ids are the bound on how many
rows a run creates. Symmetry is declared for ids that the specification only
compares, and in no run with a liveness property. `WebClient` alone does not
check for deadlock: when its changes, drops and faults are used up nothing is
left to happen.

Fairness. `RequestsEnd` assumes strong fairness of each request's own steps
(`Step(r)`, not `Fail`): PostgreSQL grants a row lock in the order it was
asked for, so a request whose lock is free again and again gets it.
In `TimeTracking` and `Attachments` that includes `BreakDeadlock(r)`, which
PostgreSQL does after `deadlock_timeout`, and in `Attachments` that the store
answers, with success or failure.
`StrangersLeave` assumes that lookups are answered (weak fairness of `Handle`)
and that a reauthorization is started although others are running (strong
fairness, because the model bounds how many run at once and the code does not).

## 4. What is proved

`TaskBoardProofs`: `TypeCorrect`, `PositionsStayDense`,
`TasksStayOnColumns`, `PositionsNeverConflict`, the action property
`NewColumnsAppend` and the refinement `BoardImplementsOrder`. Density is not inductive: in the middle of a reordering
nothing is dense. The inductive invariant `IInv` says that a Task request past
`LockProject` has the Project row, that the rows it has written or plans are of
its project, that what it has placed is what it planned, and that `Post(r)`,
the table its plan leaves, is dense; what keeps `Post(r)` the same from plan to
commit is that nobody else writes rows of a project that is locked. The step
into `plan` rests on lemmas about ranks: that splicing a Task into a dense
order, or closing a gap, gives a dense order. `CInv` is about Columns: every
Column that a request relies on is there until it ends, because the request,
or a foreign key check it has made, has the row. `PInv` follows the two passes
of a reordering: which rows `Shift` has moved and which not (`Shifting`), that
those `Place` has left are where `Shift` put them (`Placing`), and that the plan
has every Task of the Columns it changes (`Covering`). With the lemma that the
offset is beyond every old and every new position, no statement meets the
unique index.

`BoardImplementsOrder` proves `Spec => ImplementsOrderedBoard`. A request on
Tasks is asked for by its start, takes effect by its commit, and is refused by
its rollback; every other step, and every step of a request on Columns, leaves
the abstract board alone. What makes the commit the right step is `EInv`, the
invariant of the promises: from its read to its commit, the sequences of
`Post(r)` are what the request asked for (`Wanted`) of the board *as it is
committed at that moment*, and it can still be had (`Allowed`). The read
establishes it, by lemmas on sequences: in a dense Column the index in the
sequence is the position (`RankIsPosition`), there is one such sequence
(`OrderIsUnique`), a renumbering that closes a gap is `RemoveAt`, and one that
makes room is `InsertAt` (`OrderAfterLeaving`, `OrderAfterComing`). The writes
keep it, because they carry out the plan; the others keep it, because nobody
else writes the project's Tasks. That an idle request asks nothing is a small
invariant of its own (`Rested`). `OrderIn` picks the Task at each index by its
rank, and `Without` of `OrderedBoard` takes a Task out by its index: what a sort
or `SelectSeq` computes is defined by recursion, and out of the prover's reach.

`MembershipsProofs`: `TypeCorrect`, `OrganizationsAreOwned`,
`ProjectsAreOwned`, and the action properties `OnlyOwnersChangeMembers`,
`RemovalReachesEveryProject` and `RosterChangesAreEntitled`. `PrimaryIsOwner` alone is not inductive: the
commit trusts what `FindMember` saw. `IInv` adds what every open request has
found out - the actor is an owner, the heir is another owner, another owner of
the project is left, the listed Projects are all - and that it has the row
lock (`Exclusive`), so that no other commit can make it false. A Project that
is being inserted shares the Organization row, which is why it cannot commit
between a removal's list and its commit. `RosterChangesAreEntitled` is about
the specification with its history, `HSpec`: `EntitledInv` adds that a roster
request past `Authorize` is entitled or leaves, which no lock has to protect,
because the history remembers.

`TimeTrackingProofs`: `TypeCorrect`, `OneTimerPerUser`, `UserLockSuffices`,
`EntriesAreAccepted`, `EntriesBelongToTasks`, `EntriesStaySound` (the three
together), `EntriesAreKept`. `IInv` adds,
for each request, what its statements have found (`RequestInv`): one past
`LockUser` has the User row; a start past `CheckRunning` has a user without a
timer; a stop at `finish` has the row of the timer, which runs and is for its
Task. Another request can make none of this false, since an insert of a timer
needs the User row of its user, and a deletion of the Task the row of every
entry it takes along.

`AttachmentsProofs`: `TypeCorrect`, `AttachmentsStayAvailable`,
`NoObjectIsOrphaned`, `RestoreIsNeverBlocked`, `FilesLeaveOnlyByRemoval`. The
row lock does not carry the argument, because a timeout takes it from a
request that goes on. What does is `Claims(r)`, who may touch a storage key:
an upload is alone with its fresh key until it commits, and of the removals of
one file at most one is past `UnlinkObject`, because the store deletes an
object for one of them and answers the others with 409. A removal past it
therefore finds neither the row deleted by another nor the key taken.

`RealtimeClientProofs`, over `HSpec` of `RealtimeHistory`: `TypeCorrect`,
`DeliveriesAreAuthorized`, `EvictionsHaveCause`, `LossOfAccessReachesRooms`.
`HInv` says what the stage of a socket in a publication means in terms of the
history: past the check of the session it has had one since the publication
began, at `emit` and `sent` it has had access since, and one refused, failed or
taken out has been in doubt (`FoundOut`); that the stages fit the kind of the
publication (`StagesFit`); and that whoever is in a room without access will be
met by a reauthorization that is due or running, or is in `late`, the race of
`RealtimeRace` (`RoomsFollowAccess`, which is inductive with the rest).

`WikiProofs`: `TypeCorrect`, `SiblingsStayDense`, `PagesStayForest`, and the
action property `ChangesDoWhatWasAsked`. `IInv` says what each request knows at
its statement (`Good`): that the row it has read is still the committed one
(`PageRead`), how far its walk to the root has come and that it has not met the
page (`Walked`), that index and height fit (`Checked`), what the rows it
has written are, given the passes it has made (`Written`), and that they are of
its Project (`WritesOwn`). Requests of one Project exclude each other
(`HasProject`, `Disjoint`), and `GoodStays` says that what one knows outlives
commits to other Projects. A forest is stated by a level map: each page is one
below its parent, the levels are 1 to `MaxDepth`. That makes cycles impossible
and is what a move must keep; the height of what hangs below a page, a
recursion in the code, is the least number of levels that covers it, so that
no induction over the tree is needed.

`GithubProofs`: `SyncTypeCorrect`, `DeliveriesApplyOnce`,
`WebhooksFindTheirRows`, `KeysHold`, `TransactionsNeverDeadlock` of
`GithubSync`; `AppTypeCorrect` and `FlowsStayExclusive` of `GithubAppFlow`.
`SyncInv` says what a request has read at each statement and that its locks
keep it so: its form (`Shape`, `Fields`), whose its Tasks are (`OwnTasks`), that
the rows it has read are still there (`Rows`, because of `OwnLocks`), that an id
it has made is nobody else's (`FreshIds`), and that a delivery has been applied
exactly if its row is there (`Counted`). There is no deadlock because the
statements have a `Rank` such that a request only ever waits for requests of a
higher one (`BlockersAhead`), which `LockInv` shows: the locks a request has are
those of its statement. In a circle the one of the highest rank would wait for
nobody. For the App flow, that a
state is consumed once is not inductive: `Consume` trusts what `CheckCallback`
saw. `AppInv` adds that a request at `bind` or `consume` has a state that was
never consumed, that a consumed row says so until it is deleted, and that no
row is locked by two requests, so that nobody consumes the state in between. An
expiry needs no lock, and disturbs none of it. That an installation stays with
its user rests on the unique index alone.

`DiscussionProofs`: `TypeCorrect`, `ActivitiesTellTheTruth`,
`LastNoticeStaysTrue`, `DeletedIsErased`, `DeadlocksMixBoth`. `IInv` says which
rows a request has at its statement, these and no others (`RowLocksOf`), what it
has read that these rows keep true (`Knows`), and that an update tells everybody
its change concerns, or has yet to ask whether they may be told, and nobody else
(`Notices`). That a deadlock needs requests of both kinds follows because
requests of one kind take their rows in one order.

The client, in the same module, where each specification has its own
invariant:

- `CacheInvariance`, `OwnChangesAlwaysShow`, `ConnectedCacheMissesNothing` and
  `CacheConverges` of `ClientCache`, for any number of changes and faults. The
  proof has three layers. The *tables*: for each operation, what its row says
  (`EventsRefresh`, `PanelsRefresh`), and from these that, the gaps aside, every
  query an operation shows in is refreshed by its event and by its panel, and
  that a panel that edits in advance settles (`TraitsFit`). This is where the
  switch of `RealtimeProvider`, the panels and the services meet. The *query*:
  what each operation of the query leaves of its data, its fetch and its
  staleness (`EventRefreshes`, `AnswerRefreshes`). The *invariant*: neither
  property is inductive, since both speak of moments at which nothing is under
  way. `HandledIsCovered` says what holds meanwhile. Every change whose event has
  been handled or whose answer has come is in the data, or in what the running
  fetch has read, or the fetch is still to be read, or the query is stale or
  empty or in error, or a request that cancelled the fetch is bound to settle
  (`Snaps`); and a stale query in view is being fetched. `ToldIsTrue` orders
  what is told: a change is published before it is answered, and neither before
  it is committed. `CoversAgain` carries the cover over a step, and there is a
  lemma for each handler.
  That what is shown is also true, the other half of
  `ConnectedCacheConverges`, is proved for behaviours in which requests that
  edit this query in advance do not overlap (`OneOptimistic`): then what the
  data has and the server has not is an edit still to be decided, and its
  snapshot is true (`EditsAreTentative`). The board sends one move at a time and
  a form one update, but nothing keeps a move and an update apart, so this is a
  hypothesis and no invariant; section 3 says what happens without it. With one
  change of this browser, as in the run, it always holds.
- `DropsAlwaysLandWhereShown` of `KanbanMove`, for every board, any number of
  drops and of other users' requests. `KanbanInv` says that a request under way
  asks for the move that is shown, at an index that fits unless the drop was on
  the Task's own Column (`RequestIsShown`), and that the answer is of the board
  that the server made (`AnswerIsMade`). The drop itself is a chain of lemmas on
  sequences without repetition: `groupTasks` of a cache has each Task once and in
  order, what `optimisticallyMove` writes is, grouped again, the board with the
  Task taken out and inserted (`Moved`), the server's `Without` and `InsertAt`
  do the same, and the index of `IndexOver` is next to the Task under the
  pointer once the dragged one is out.
- `EditsAreKeptAlways` of `Drafts`. `DraftsInv` says where the typed text is:
  the form and the draft each hold exactly it or nothing, and the draft is there
  while there is text, unless `answeredLate` (`FormsHoldText`); the text of a Task
  ends when the Task is known to be gone (`TextEndsWithTask`); a request has
  only what was typed (`InputIsTyped`). The theorem does not cover the two cases
  that `DraftsSurvive` exempts: `answeredLate`, and `Withheld`, the page that is
  known to be deleted.

Assumptions. The constant functions have their types (`ProjectOfAssumption`,
`OrganizationOfAssumption`, `UserOfAssumption`, `RepositoryOfAssumption`, ...);
`None`, `Gone`, `Nobody`, `NoSocket`, `Base` and `Ack` are no ids; the keys of a user's own
rooms are no Projects (`RoomsAssumption`); `Tasks`, `Users` of `Memberships` and
`Pages` are finite; the ids of the Tasks on a board are ordered without ties
(`IdsAssumption`); `MaxDepth` and `Second` are positive and `Limit` is a number;
`Faults` are among those known (`FaultsAssumption`), the moderators and the
reporter are users (`PeopleAssumption`).
They are ASSUMEs of the specifications, and TLC evaluates them in every run.

Only model-checked: liveness (`RequestsEnd`, `StrangersLeave`), which TLAPS
does not reach because of fairness. Every invariant and every action property
that a run expects to hold is stated by a theorem, `ConnectedCacheConverges`
with the hypothesis above. The prover has no induction over data (what a fold
or a recursive function computes cannot be proved); the models therefore state
sorts and tree heights by ranks and levels.

## 5. What is not modelled, and the plan

The plan of the proofs is carried out. What could follow: two changes of this
browser in the `WebClient` run, the small drafts of comments and time entries,
and the selected Organization.

Not modelled: the update, archival and restoration of a Project beside the
events they send (single statements on a row that nothing else reads), the plain
lists, parsing and validation of requests, sessions (Better Auth is a library;
sessions end at any time in `Realtime`), configuration and bootstrap (no state),
the plumbing of the HTTP client and the selected Organization (one value in the
browser's storage), the popup in which GitHub is opened, pages and
presentational components (layout).
