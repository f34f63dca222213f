---------------------------- MODULE GithubProofs ----------------------------
(***************************************************************************)
(* Theorems about GithubSync and GithubAppFlow, for any sets of Projects,  *)
(* connections, repositories, Issues, Tasks, deliveries, requests, states  *)
(* and installations.                                                      *)
(*                                                                         *)
(* SyncInv says, request by request and statement by statement, what has   *)
(* been read and is still true, and which locks keep it true.  LockInv     *)
(* says the converse of a lock: which statements are behind the request    *)
(* that has it.  From both follows that whoever waits does so for one that *)
(* is further, so that nobody waits for himself.                           *)
(***************************************************************************)
EXTENDS GithubSync, GithubAppFlow, TLAPS

-----------------------------------------------------------------------------
(* The inductive invariant.                                                *)

\* The statements of a user's request that come after the lock on the Project.
Locked == {"checkFree", "insertRepository", "findConnection", "assertCurrent", "insertLink",
           "findLink", "lockTask", "deleteLinks", "deleteRepository"}

\* Those of a webhook.
Following == {"findRepository", "findDelivery", "insertDelivery", "referProject",
              "referRepository", "findIssue", "updateIssue", "updateTask"}

\* r has the Project FOR UPDATE, as a user's request, or FOR KEY SHARE, as a webhook.
HasProject(r) == pc[r] \in Locked \/ (pc[r] = "commit" /\ req[r].kind # "webhook")

SharesProject(r) ==
  \/ pc[r] \in {"referRepository", "findIssue", "updateIssue", "updateTask"}
  \/ At(r, "webhook")

\* A webhook has the delivery from its insert on.
HasDelivery(r) == pc[r] = "referProject" \/ SharesProject(r)

\* Which kind of request comes to which statement.
Shape(r) ==
  /\ pc[r] = "idle" => req[r] = NoRequest
  /\ pc[r] # "idle" => req[r] \in Request
  /\ pc[r] = "resolve" => req[r].kind \in {"link", "unlink", "remove"}
  /\ pc[r] \in {"connected", "fetch", "assertCurrent", "insertLink"} =>
       req[r].kind \in {"link", "import"}
  /\ pc[r] = "lockProject" => req[r].kind # "webhook"
  /\ pc[r] \in {"checkFree", "insertRepository"} => req[r].kind = "connect"
  /\ pc[r] \in {"findConnection", "deleteRepository"} => req[r].kind = "disconnect"
  /\ pc[r] = "findLink" => req[r].kind = "unlink"
  /\ pc[r] = "lockTask" => req[r].kind = "remove"
  /\ pc[r] = "deleteLinks" => req[r].kind \in {"disconnect", "unlink", "remove"}
  /\ pc[r] \in Following => req[r].kind = "webhook"

\* r has read, or made, its connection.
HasConnection(r) ==
  \/ req[r].kind \in {"link", "import"} /\ pc[r] \notin {"resolve", "connected"}
  \/ req[r].kind = "disconnect" /\ pc[r] \in {"deleteLinks", "deleteRepository", "commit"}
  \/ req[r].kind = "webhook" /\ pc[r] # "findRepository"
  \/ At(r, "connect")

\* What r has read is of the right kind, and there.
Fields(r) ==
  /\ pc[r] \notin {"idle", "resolve", "findRepository"} => req[r].project \in Projects
  /\ HasConnection(r) => req[r].connection \in Connections
  /\ req[r].kind = "connect" => req[r].external \in Externals
  /\ req[r].kind = "disconnect" /\ pc[r] \in {"deleteLinks", "deleteRepository"} =>
       req[r].external \in Externals
  /\ req[r].kind \in {"link", "import", "webhook"} => req[r].issue \in Issues
  /\ req[r].kind = "webhook" => req[r].delivery \in Deliveries
  /\ req[r].kind \in {"link", "unlink", "remove"} => \E t \in Tasks : req[r].tasks = {t}
  /\ req[r].kind \in {"connect", "import"} /\ pc[r] # "commit" => req[r].tasks = {}
  /\ req[r].kind = "disconnect" /\ pc[r] \notin {"deleteRepository", "commit"} =>
       req[r].tasks = {}
  /\ pc[r] = "findRepository" => req[r].tasks = {}
  /\ pc[r] \in {"updateIssue", "updateTask"} => req[r].tasks # {}

\* The connection of r is the one of its Project, and stays it.
Current(r) ==
  \/ pc[r] = "insertLink"
  \/ \E kind \in {"link", "import", "disconnect", "webhook"} : At(r, kind)
  \/ pc[r] = "deleteLinks" /\ req[r].kind = "disconnect"
  \/ pc[r] \in {"deleteRepository", "findIssue", "updateIssue", "updateTask"}

\* The Tasks of r are there, and stay.
Keeps(r) ==
  /\ pc[r] \in {"insertLink", "deleteLinks", "deleteRepository", "updateIssue", "updateTask", "commit"}
  /\ req[r].kind # "import"

\* They are Tasks of its Project, unless r makes its Task itself.
OwnTasks(r) ==
  \A t \in req[r].tasks :
    /\ req[r].kind = "import" => task[t] = NoTask
    /\ req[r].kind # "import" /\ pc[r] # "resolve" =>
         task[t] \in {NoTask, [project |-> req[r].project]}
    /\ Keeps(r) => task[t] # NoTask

\* What r has read is still true of the rows.
Rows(r) ==
  /\ Current(r) => Referable(r)
  /\ pc[r] = "deleteRepository" \/ At(r, "disconnect") =>
       Linked(req[r].connection) \subseteq req[r].tasks
  /\ At(r, "connect") => repository[req[r].connection] = NoRepository
  /\ pc[r] \in {"updateIssue", "updateTask"} => \A t \in req[r].tasks : Follows(r, t)
  /\ HasDelivery(r) => delivery[req[r].delivery] = NoDelivery

\* And that is so because of these locks.
OwnLocks(r) ==
  /\ HasProject(r) => holder[<<"Project", req[r].project>>] = r
  /\ SharesProject(r) => r \in sharers[<<"Project", req[r].project>>]
  /\ HasDelivery(r) => holder[<<"Delivery", req[r].delivery>>] = r

RequestInv(r) == Shape(r) /\ Fields(r) /\ OwnTasks(r) /\ Rows(r) /\ OwnLocks(r)

\* An id that one request has made is known to no other.
FreshIds ==
  \A r, q \in Requests : r # q =>
    /\ req[r].kind = "import" => req[r].tasks \cap req[q].tasks = {}
    /\ At(r, "connect") => req[r].connection # req[q].connection

\* A delivery is counted once it has been received.
Counted ==
  \A d \in Deliveries :
    /\ ~delivery[d].received => delivery[d] = NoDelivery
    /\ applied[d] = IF delivery[d].received THEN 1 ELSE 0

\* The inductive invariant.  Each request's part holds because the locks of the others
\* keep them from the rows it has read.
SyncInv ==
  /\ TypeOK
  /\ LockExclusion
  /\ LinksAreConnected
  /\ Counted
  /\ FreshIds
  /\ \A r \in Requests : RequestInv(r)

-----------------------------------------------------------------------------
(* The locks.                                                              *)

\* A statement that commits nothing, and locks X FOR UPDATE and Y FOR KEY SHARE.
SyncMoves(q, next, known, X, Y) ==
  /\ Goto(q, next) /\ req' = [req EXCEPT ![q] = known]
  /\ UNCHANGED <<rows, sent>>
  /\ ForUpdate(q, X) /\ KeyShare(q, Y)

\* What the locks look like after a step.
LockStep(q) == ReleaseLocks(q) \/ \E X, Y : ForUpdate(q, X) /\ KeyShare(q, Y)

\* Locks left alone are no locks taken.
LEMMA NothingLocked ==
  ASSUME NEW q \in Requests, LocksTypeOK(LockRows, Requests)
  PROVE  /\ holder' = holder => ForUpdate(q, {})
         /\ sharers' = sharers => KeyShare(q, {})
BY DEF ForUpdate, KeyShare, LocksTypeOK

\* Locks do not pass from one request to another, and stay exclusive.
LEMMA LockStepKeeps ==
  ASSUME LocksTypeOK(LockRows, Requests), NEW q \in Requests, LockStep(q)
  PROVE  /\ LocksTypeOK(LockRows, Requests)'
         /\ \A r \in Requests \ {q}, x \in LockRows :
              /\ holder'[x] = r <=> holder[x] = r
              /\ r \in sharers'[x] <=> r \in sharers[x]
         /\ LockExclusion => LockExclusion'
<1>1. None \notin Requests
  BY SyncNoneAssumption
<1>2. CASE ReleaseLocks(q)
  <2>1. /\ holder' = [x \in LockRows |-> IF holder[x] = q THEN None ELSE holder[x]]
        /\ sharers' = [x \in LockRows |-> sharers[x] \ {q}]
        /\ DOMAIN holder = LockRows
    BY <1>2 DEF ReleaseLocks, LocksTypeOK
  <2>2. LocksTypeOK(LockRows, Requests)'
    BY <2>1 DEF LocksTypeOK
  <2> QED
    BY <1>1, <2>1, <2>2 DEF LockExclusion
<1>3. ASSUME NEW X, NEW Y, ForUpdate(q, X), KeyShare(q, Y)
      PROVE  /\ LocksTypeOK(LockRows, Requests)'
             /\ \A r \in Requests \ {q}, x \in LockRows :
                  /\ holder'[x] = r <=> holder[x] = r
                  /\ r \in sharers'[x] <=> r \in sharers[x]
             /\ LockExclusion => LockExclusion'
  <2>1. /\ DOMAIN holder = LockRows
        /\ holder' = [x \in LockRows |-> IF x \in X THEN q ELSE holder[x]]
        /\ sharers' = [x \in LockRows |-> IF x \in Y THEN sharers[x] \cup {q} ELSE sharers[x]]
        /\ \A x \in X : holder[x] \in {None, q} /\ sharers[x] \subseteq {q}
        /\ \A x \in Y : holder[x] \in {None, q}
    BY <1>3 DEF ForUpdate, KeyShare, CanForUpdate, CanKeyShare, LocksTypeOK
  <2>2. ASSUME LockExclusion, NEW x \in LockRows, holder'[x] # None
        PROVE  sharers'[x] \subseteq {holder'[x]}
    <3>1. CASE x \in X
      BY <2>1, <2>2, <3>1
    <3>2. CASE x \notin X
      <4>1. holder'[x] = holder[x] /\ sharers[x] \subseteq {holder[x]}
        BY <2>1, <2>2, <3>2 DEF LockExclusion
      <4> QED
        BY <2>1, <2>2, <4>1
    <3> QED
      BY <3>1, <3>2
  <2>3. \A r \in Requests \ {q}, x \in LockRows :
          /\ holder'[x] = r <=> holder[x] = r
          /\ r \in sharers'[x] <=> r \in sharers[x]
    BY <1>1, <2>1
  <2>4. LocksTypeOK(LockRows, Requests)'
    BY <2>1 DEF LocksTypeOK
  <2> QED
    BY <2>1, <2>2, <2>3, <2>4 DEF LockExclusion
<1> QED
  BY <1>2, <1>3 DEF LockStep

-----------------------------------------------------------------------------
(* What a step leaves to the others.                                       *)

\* Nobody can be given an id that q has just made, and the other way round.
Fresh(q) ==
  \A r \in Requests \ {q} :
    /\ req[r].kind = "import" \/ req[q].kind = "import" => req[r].tasks \cap req[q].tasks = {}
    /\ At(r, "connect") \/ At(q, "connect") => req[r].connection # req[q].connection

\* A request keeps its part of the invariant if its rows do.
LEMMA OthersStay ==
  ASSUME SyncInv, NEW q \in Requests, NEW r \in Requests \ {q}, LockStep(q),
         pc'[r] = pc[r], req'[r] = req[r], OwnTasks(r)', Rows(r)'
  PROVE  RequestInv(r)'
<1>1. RequestInv(r) /\ LocksTypeOK(LockRows, Requests)
  BY DEF SyncInv, TypeOK
<1>2. \A x \in LockRows : /\ holder[x] = r => holder'[x] = r
                          /\ r \in sharers[x] => r \in sharers'[x]
  BY <1>1, LockStepKeeps
<1>3. Shape(r)' /\ Fields(r)'
  BY <1>1 DEF RequestInv, Shape, Fields, HasConnection, At
<1>4. OwnLocks(r)'
  <2>1. HasProject(r) \/ SharesProject(r) => <<"Project", req[r].project>> \in LockRows
    BY <1>1 DEF RequestInv, Fields, HasProject, SharesProject, At, Locked, LockRows
  <2>2. HasDelivery(r) => <<"Delivery", req[r].delivery>> \in LockRows
    BY <1>1 DEF RequestInv, Fields, Shape, HasDelivery, SharesProject, At, Following, LockRows
  <2>3. /\ HasProject(r)' <=> HasProject(r)
        /\ SharesProject(r)' <=> SharesProject(r)
        /\ HasDelivery(r)' <=> HasDelivery(r)
    BY DEF HasProject, SharesProject, HasDelivery, At
  <2> DEFINE project == <<"Project", req[r].project>>
             event == <<"Delivery", req[r].delivery>>
  <2>4. /\ HasProject(r) => holder[project] = r
        /\ SharesProject(r) => r \in sharers[project]
        /\ HasDelivery(r) => holder[event] = r
    BY <1>1 DEF RequestInv, OwnLocks
  <2>5. /\ HasProject(r) \/ SharesProject(r) => project \in LockRows
        /\ HasDelivery(r) => event \in LockRows
    BY <2>1, <2>2
  <2> HIDE DEF project, event
  <2>6. /\ HasProject(r) => holder'[project] = r
        /\ SharesProject(r) => r \in sharers'[project]
        /\ HasDelivery(r) => holder'[event] = r
    BY <1>2, <2>4, <2>5
  <2> QED
    BY <2>3, <2>6 DEF OwnLocks, project, event
<1> QED
  BY <1>3, <1>4 DEF RequestInv

\* Ids stay fresh if those of the request that takes the step do.
LEMMA StayFresh ==
  ASSUME SyncInv, NEW q \in Requests, Fresh(q)',
         \A r \in Requests \ {q} : pc'[r] = pc[r] /\ req'[r] = req[r]
  PROVE  FreshIds'
BY DEF SyncInv, FreshIds, Fresh, At

\* The facts about a statement that commits nothing.
LEMMA MovesTo ==
  ASSUME SyncInv, NEW q \in Requests, NEW next \in PCs, NEW known, NEW X, NEW Y,
         SyncMoves(q, next, known, X, Y)
  PROVE  /\ pc'[q] = next /\ req'[q] = known
         /\ \A r \in Requests \ {q} : pc'[r] = pc[r] /\ req'[r] = req[r]
         /\ UNCHANGED <<repository, task, link, delivery, applied, sent>>
         /\ LockStep(q)
         /\ \A x \in LockRows \cap X : holder'[x] = q
         /\ \A x \in LockRows \ X : holder'[x] = holder[x]
         /\ \A x \in LockRows \cap Y : q \in sharers'[x]
         /\ \A x \in LockRows : sharers[x] \subseteq sharers'[x]
         /\ \A x \in LockRows \ Y : sharers'[x] = sharers[x]
<1>1. /\ pc \in [Requests -> PCs] /\ DOMAIN req = Requests
      /\ DOMAIN holder = LockRows /\ DOMAIN sharers = LockRows
  BY DEF SyncInv, TypeOK, LocksTypeOK
<1> QED
  BY <1>1 DEF SyncMoves, Goto, rows, LockStep, ForUpdate, KeyShare

\* Such a statement keeps the invariant, if its own request does.
LEMMA MovesKeep ==
  ASSUME SyncInv, NEW q \in Requests, NEW next \in PCs, NEW known \in {NoRequest} \cup Request,
         NEW X, NEW Y, SyncMoves(q, next, known, X, Y),
         RequestInv(q)', Fresh(q)'
  PROVE  SyncInv'
<1>1. /\ \A r \in Requests \ {q} : pc'[r] = pc[r] /\ req'[r] = req[r]
      /\ repository' = repository /\ task' = task /\ link' = link /\ delivery' = delivery
      /\ applied' = applied /\ sent' = sent
      /\ LockStep(q)
  BY MovesTo
<1>2. TypeOK /\ LinksAreConnected /\ Counted /\ LockExclusion
  BY DEF SyncInv
<1>3. LocksTypeOK(LockRows, Requests)' /\ LockExclusion'
  BY <1>1, <1>2, LockStepKeeps DEF TypeOK
<1>4. TypeOK'
  BY <1>1, <1>2, <1>3 DEF TypeOK, SyncMoves, Goto
<1>5. LinksAreConnected' /\ Counted'
  BY <1>1, <1>2 DEF LinksAreConnected, Counted
<1>6. FreshIds'
  BY <1>1, StayFresh
<1>7. ASSUME NEW r \in Requests \ {q} PROVE RequestInv(r)'
  <2>1. RequestInv(r)
    BY DEF SyncInv
  <2>2. OwnTasks(r)'
    BY <1>1, <2>1 DEF RequestInv, OwnTasks, Keeps
  <2>3. Rows(r)'
    BY <1>1, <2>1 DEF RequestInv, Rows, Current, Referable, Linked, Follows, HasDelivery,
                      SharesProject, At
  <2> QED
    BY <1>1, <2>2, <2>3, OthersStay
<1> QED
  BY <1>3, <1>4, <1>5, <1>6, <1>7 DEF SyncInv

\* A request that ends: nothing is left of it, and the others stay who they are.
LEMMA EndKeeps ==
  ASSUME SyncInv, NEW q \in Requests, End(q)
  PROVE  /\ \A r \in Requests \ {q} : pc'[r] = pc[r] /\ req'[r] = req[r]
         /\ LockStep(q) /\ LocksTypeOK(LockRows, Requests)' /\ LockExclusion'
         /\ pc' \in [Requests -> PCs] /\ req' \in [Requests -> {NoRequest} \cup Request]
         /\ sent' = sent
         /\ RequestInv(q)' /\ FreshIds'
<1>1. /\ pc \in [Requests -> PCs] /\ req \in [Requests -> {NoRequest} \cup Request]
      /\ LocksTypeOK(LockRows, Requests) /\ LockExclusion
  BY DEF SyncInv, TypeOK
<1>2. /\ pc' = [pc EXCEPT ![q] = "idle"] /\ req' = [req EXCEPT ![q] = NoRequest] /\ sent' = sent
  BY DEF End, Goto
<1>3. pc'[q] = "idle" /\ req'[q] = NoRequest
  BY <1>1, <1>2
<1>4. LockStep(q)
  BY DEF End, LockStep
<1>5. /\ NoRequest.kind = None /\ NoRequest.tasks = {} /\ NoRequest.connection = None
      /\ None \notin Kinds /\ None \notin Connections
  BY SyncNoneAssumption DEF NoRequest
<1>6. RequestInv(q)'
  <2>1. Shape(q)' /\ Fields(q)'
    BY <1>3, <1>5 DEF Shape, Fields, HasConnection, At, Following, Kinds
  <2>2. OwnTasks(q)'
    BY <1>3, <1>5 DEF OwnTasks
  <2>3. Rows(q)' /\ OwnLocks(q)'
    BY <1>3 DEF Rows, Current, OwnLocks, HasProject, SharesProject, HasDelivery, At, Locked
  <2> QED
    BY <2>1, <2>2, <2>3 DEF RequestInv
<1>7. \A r \in Requests \ {q} : pc'[r] = pc[r] /\ req'[r] = req[r]
  BY <1>1, <1>2
<1>8. Fresh(q)'
  <2>1. \A r \in Requests \ {q} : At(r, "connect") => req[r].connection \in Connections
    BY DEF SyncInv, RequestInv, Fields, HasConnection, At
  <2> QED
    BY <1>3, <1>5, <1>7, <2>1 DEF Fresh, At, Kinds
<1>9. LocksTypeOK(LockRows, Requests)' /\ LockExclusion'
  BY <1>1, <1>4, LockStepKeeps
<1>10. /\ pc' \in [Requests -> PCs] /\ req' \in [Requests -> {NoRequest} \cup Request]
  BY <1>1, <1>2 DEF PCs
<1> QED
  BY <1>2, <1>4, <1>6, <1>7, <1>8, <1>9, <1>10, StayFresh

\* A request that fails.
LEMMA RollbackInv ==
  ASSUME SyncInv, NEW q \in Requests, Rollback(q)
  PROVE  SyncInv'
<1>1. /\ \A r \in Requests \ {q} : pc'[r] = pc[r] /\ req'[r] = req[r]
      /\ LockStep(q) /\ LocksTypeOK(LockRows, Requests)' /\ LockExclusion'
      /\ pc' \in [Requests -> PCs] /\ req' \in [Requests -> {NoRequest} \cup Request]
      /\ sent' = sent
      /\ RequestInv(q)' /\ FreshIds'
  BY EndKeeps DEF Rollback
<1>2. /\ repository' = repository /\ task' = task /\ link' = link /\ delivery' = delivery
      /\ applied' = applied
  BY DEF Rollback, rows
<1>3. TypeOK /\ LinksAreConnected /\ Counted
  BY DEF SyncInv
<1>4. TypeOK'
  BY <1>1, <1>2, <1>3 DEF TypeOK
<1>5. LinksAreConnected' /\ Counted'
  BY <1>2, <1>3 DEF LinksAreConnected, Counted
<1>6. ASSUME NEW r \in Requests \ {q} PROVE RequestInv(r)'
  <2>1. RequestInv(r)
    BY DEF SyncInv
  <2>2. OwnTasks(r)'
    BY <1>1, <1>2, <2>1 DEF RequestInv, OwnTasks, Keeps
  <2>3. Rows(r)'
    BY <1>1, <1>2, <2>1 DEF RequestInv, Rows, Current, Referable, Linked, Follows, HasDelivery,
                            SharesProject, At
  <2> QED
    BY <1>1, <2>2, <2>3, OthersStay
<1> QED
  BY <1>1, <1>4, <1>5, <1>6 DEF SyncInv

-----------------------------------------------------------------------------
(* The statements, before the transactions.                                *)

\* A statement that reads or locks moves on, or the request is rolled back.
LEMMA ReadMoves ==
  ASSUME SyncInv, NEW q \in Requests, NEW next, NEW known, NEW allowed \in BOOLEAN,
         Read(q, allowed, next, known)
  PROVE  Rollback(q) \/ (allowed /\ SyncMoves(q, next, known, {}, {}))
<1>1. LocksTypeOK(LockRows, Requests)
  BY DEF SyncInv, TypeOK
<1>2. CASE allowed
  <2>1. /\ Goto(q, next) /\ req' = [req EXCEPT ![q] = known] /\ UNCHANGED <<rows, sent>>
        /\ holder' = holder /\ sharers' = sharers
    BY <1>2 DEF Read, locks
  <2> QED
    BY <1>1, <1>2, <2>1, NothingLocked DEF SyncMoves
<1>3. CASE ~allowed
  BY <1>3 DEF Read
<1> QED
  BY <1>2, <1>3

\* The same for a statement that locks.
LEMMA LockMoves ==
  ASSUME SyncInv, NEW q \in Requests, NEW next, NEW known, NEW X, NEW allowed \in BOOLEAN,
         Lock(q, X, allowed, next, known)
  PROVE  Rollback(q) \/ (allowed /\ SyncMoves(q, next, known, X, {}))
<1>1. LocksTypeOK(LockRows, Requests)
  BY DEF SyncInv, TypeOK
<1>2. CASE allowed
  <2>1. /\ Goto(q, next) /\ req' = [req EXCEPT ![q] = known] /\ UNCHANGED <<rows, sent>>
        /\ ForUpdate(q, X) /\ sharers' = sharers
    BY <1>2 DEF Lock
  <2> QED
    BY <1>1, <1>2, <2>1, NothingLocked DEF SyncMoves
<1>3. CASE ~allowed
  BY <1>3 DEF Lock
<1> QED
  BY <1>2, <1>3

\* The one member of a set, and some member of another.
LEMMA OnlyOne ==
  /\ \A t : Only({t}) = t
  /\ \A S : S # {} => Only(S) \in S
BY DEF Only

\* Two requests that ask the same.
Asks(R, S) == R.kind = S.kind /\ R.issue = S.issue /\ R.delivery = S.delivery

\* A request that has read its Project.
LEMMA ProjectRead ==
  ASSUME NEW R \in Request, NEW j \in Projects \cup {None}
  PROVE  LET S == [R EXCEPT !.project = j]
         IN  /\ S \in Request /\ Asks(S, R)
             /\ S.project = j /\ S.tasks = R.tasks /\ S.connection = R.connection
BY DEF Request, Asks

\* One that has its connection.
LEMMA ConnectionRead ==
  ASSUME NEW R \in Request, NEW x \in Connections \cup {None}
  PROVE  LET S == [R EXCEPT !.connection = x]
         IN  /\ S \in Request /\ Asks(S, R)
             /\ S.connection = x /\ S.project = R.project /\ S.tasks = R.tasks /\ S.external = R.external
BY DEF Request, Asks

\* One that has its Tasks.
LEMMA TasksRead ==
  ASSUME NEW R \in Request, NEW T \in SUBSET Tasks
  PROVE  LET S == [R EXCEPT !.tasks = T]
         IN  /\ S \in Request /\ Asks(S, R)
             /\ S.tasks = T /\ S.project = R.project /\ S.connection = R.connection
             /\ S.external = R.external
BY DEF Request, Asks

\* Ids stay fresh in a statement that makes none.
LEMMA FreshMoves ==
  ASSUME SyncInv, NEW q \in Requests,
         \A r \in Requests \ {q} : pc'[r] = pc[r] /\ req'[r] = req[r],
         req'[q].kind = req[q].kind,
         \/ req'[q].connection = req[q].connection
         \/ repository[req'[q].connection] # NoRepository,
         \/ req'[q].tasks = req[q].tasks
         \/ req[q].kind # "import" /\ \A t \in req'[q].tasks : task[t] # NoTask,
         req[q].kind = "connect" => pc'[q] # "commit"
  PROVE  Fresh(q)'
<1> SUFFICES ASSUME NEW r \in Requests \ {q}
             PROVE  /\ req[r].kind = "import" \/ req[q].kind = "import"
                         => req[r].tasks \cap req'[q].tasks = {}
                    /\ At(r, "connect") => req[r].connection # req'[q].connection
  BY DEF Fresh, At
<1>1. RequestInv(r) /\ FreshIds
  BY DEF SyncInv
<1>2. At(r, "connect") => req[r].connection # req'[q].connection
  BY <1>1 DEF RequestInv, Rows, FreshIds
<1>3. req[r].kind = "import" \/ req[q].kind = "import" => req[r].tasks \cap req[q].tasks = {}
  BY <1>1 DEF FreshIds
<1>4. req[r].kind = "import" => \A t \in req[r].tasks : task[t] = NoTask
  BY <1>1 DEF RequestInv, OwnTasks
<1> QED
  BY <1>2, <1>3, <1>4

\* The statement after the lock on the Project.
LEMMA AfterLockIs ==
  /\ AfterLock("connect") = "checkFree"
  /\ AfterLock("disconnect") = "findConnection"
  /\ AfterLock("unlink") = "findLink"
  /\ AfterLock("remove") = "lockTask"
  /\ AfterLock("link") = "assertCurrent"
  /\ AfterLock("import") = "assertCurrent"
BY DEF AfterLock

\* fetchIssue.
LEMMA FetchIssueInv ==
  ASSUME SyncInv, NEW q \in Requests, FetchIssue(q)
  PROVE  SyncInv'
<1>1. pc[q] = "fetch" /\ RequestInv(q)
  BY DEF FetchIssue, SyncInv
<1>2. Rollback(q) \/ SyncMoves(q, "lockProject", req[q], {}, {})
  BY ReadMoves DEF FetchIssue
<1>3. CASE SyncMoves(q, "lockProject", req[q], {}, {})
  <2>1. /\ pc'[q] = "lockProject" /\ req'[q] = req[q]
        /\ \A r \in Requests \ {q} : pc'[r] = pc[r] /\ req'[r] = req[r]
        /\ UNCHANGED <<repository, task, link, delivery, applied, sent>>
    BY <1>3, MovesTo DEF PCs
  <2>2. RequestInv(q)'
    BY <1>1, <2>1 DEF RequestInv, Shape, Fields, HasConnection, OwnTasks, Keeps, Rows, Current, OwnLocks, HasProject, SharesProject, HasDelivery, At, Locked, Following
  <2>3. Fresh(q)'
    BY <1>1, <2>1 DEF Fresh, SyncInv, FreshIds, At
  <2> QED
    BY <1>1, <1>3, <2>2, <2>3, MovesKeep DEF PCs, RequestInv, Shape
<1> QED
  BY <1>2, <1>3, RollbackInv

\* The Project of a Task that is there.
LEMMA ResolveTaskInv ==
  ASSUME SyncInv, NEW q \in Requests, ResolveTask(q)
  PROVE  SyncInv'
<1> DEFINE t == Only(req[q].tasks)
           next == IF req[q].kind = "link" THEN "connected" ELSE "lockProject"
           known == [req[q] EXCEPT !.project = task[t].project]
<1>1. pc[q] = "resolve" /\ RequestInv(q) /\ TypeOK
  BY DEF ResolveTask, SyncInv
<1>2. req[q] \in Request /\ req[q].kind \in {"link", "unlink", "remove"}
      /\ req[q].tasks = {t} /\ t \in Tasks
  BY <1>1, OnlyOne DEF RequestInv, Shape, Fields
<1>3. Rollback(q) \/ (task[t] # NoTask /\ SyncMoves(q, next, known, {}, {}))
  BY ReadMoves DEF ResolveTask
<1>4. ASSUME task[t] # NoTask, SyncMoves(q, next, known, {}, {}) PROVE SyncInv'
  <2>1. task[t].project \in Projects /\ task[t] = [project |-> task[t].project]
    BY <1>1, <1>2, <1>4 DEF TypeOK
  <2>2. known \in Request /\ Asks(known, req[q]) /\ known.project = task[t].project
        /\ known.tasks = req[q].tasks /\ known.connection = req[q].connection
    BY <1>2, <2>1, ProjectRead, Zenon
  <2>3. next \in {"connected", "lockProject"} /\ (next = "connected" <=> req[q].kind = "link")
    OBVIOUS
  <2> HIDE DEF known, next, t
  <2>4. /\ pc'[q] = next /\ req'[q] = known
        /\ \A r \in Requests \ {q} : pc'[r] = pc[r] /\ req'[r] = req[r]
        /\ UNCHANGED <<repository, task, link, delivery, applied, sent>>
    BY <1>4, <2>3, MovesTo DEF PCs
  <2>5. RequestInv(q)'
    BY <1>1, <1>2, <2>1, <2>2, <2>3, <2>4
       DEF Asks, RequestInv, Shape, Fields, HasConnection, OwnTasks, Keeps, Rows,
           Current, OwnLocks, HasProject, SharesProject, HasDelivery, At, Locked, Following
  <2>6. Fresh(q)'
    BY <2>2, <2>3, <2>4, FreshMoves DEF Asks
  <2> QED
    BY <1>4, <2>2, <2>3, <2>5, <2>6, MovesKeep DEF PCs
<1> QED
  BY <1>3, <1>4, RollbackInv

\* The Repository row of the Project of a request.
LEMMA RowOfProject ==
  ASSUME SyncInv, NEW q \in Requests, req[q] \in Request, req[q].project \in Projects,
         ConnectionsOf(req[q].project) # {}
  PROVE  LET S == With(q, ConnectionsOf(req[q].project))
         IN  /\ S \in Request /\ Asks(S, req[q])
             /\ S.project = req[q].project /\ S.tasks = req[q].tasks
             /\ S.connection \in Connections /\ S.external \in Externals
             /\ repository[S.connection].project = req[q].project
             /\ repository[S.connection] # NoRepository
<1> DEFINE x == Only(ConnectionsOf(req[q].project))
<1>1. x \in Connections /\ repository[x].project = req[q].project
  BY OnlyOne DEF ConnectionsOf
<1>2. repository[x] # NoRepository
  BY <1>1, SyncNoneAssumption DEF NoRepository
<1> DEFINE g == repository[x].external
           R == req[q]
           S == [R EXCEPT !.connection = x, !.external = g]
<1>3. R \in Request /\ x \in Connections \cup {None} /\ g \in Externals
  BY <1>1, <1>2 DEF SyncInv, TypeOK
<1>4. S = With(q, ConnectionsOf(req[q].project))
  BY Zenon DEF With
<1> HIDE DEF x, g, R
<1>5. /\ S \in Request /\ Asks(S, R)
      /\ S.connection = x /\ S.project = R.project /\ S.tasks = R.tasks /\ S.external = g
  BY <1>3 DEF Request, Asks
<1> HIDE DEF S
<1> QED
  BY <1>1, <1>2, <1>3, <1>4, <1>5 DEF R

\* connectedRepository.
LEMMA FindConnectedInv ==
  ASSUME SyncInv, NEW q \in Requests, FindConnected(q)
  PROVE  SyncInv'
<1> DEFINE X == ConnectionsOf(req[q].project)
           known == With(q, X)
<1>1. pc[q] = "connected" /\ RequestInv(q)
  BY DEF FindConnected, SyncInv
<1>2. /\ req[q] \in Request /\ req[q].project \in Projects
      /\ req[q].kind \in {"link", "import"}
  BY <1>1 DEF RequestInv, Shape, Fields
<1>3. Rollback(q) \/ (X # {} /\ SyncMoves(q, "fetch", known, {}, {}))
  BY ReadMoves DEF FindConnected
<1>4. ASSUME X # {}, SyncMoves(q, "fetch", known, {}, {}) PROVE SyncInv'
  <2>1. /\ known \in Request /\ Asks(known, req[q])
        /\ known.project = req[q].project /\ known.tasks = req[q].tasks
        /\ known.connection \in Connections /\ repository[known.connection] # NoRepository
    BY <1>2, <1>4, RowOfProject, Zenon
  <2> HIDE DEF known, X
  <2>2. /\ pc'[q] = "fetch" /\ req'[q] = known
        /\ \A r \in Requests \ {q} : pc'[r] = pc[r] /\ req'[r] = req[r]
        /\ UNCHANGED <<repository, task, link, delivery, applied, sent>>
    BY <1>4, MovesTo DEF PCs
  <2>3. RequestInv(q)'
    BY <1>1, <1>2, <2>1, <2>2
       DEF Asks, RequestInv, Shape, Fields, HasConnection, OwnTasks, Keeps, Rows,
           Current, OwnLocks, HasProject, SharesProject, HasDelivery, At, Locked, Following
  <2>4. Fresh(q)'
    BY <2>1, <2>2, FreshMoves DEF Asks
  <2> QED
    BY <1>4, <2>1, <2>3, <2>4, MovesKeep DEF PCs
<1> QED
  BY <1>3, <1>4, RollbackInv

\* SELECT ... FROM "Project" ... FOR UPDATE.
LEMMA LockProjectInv ==
  ASSUME SyncInv, NEW q \in Requests, LockProject(q)
  PROVE  SyncInv'
<1> DEFINE X == {<<"Project", req[q].project>>}
           next == AfterLock(req[q].kind)
<1>1. pc[q] = "lockProject" /\ RequestInv(q)
  BY DEF LockProject, SyncInv
<1>2. /\ req[q] \in Request /\ req[q].project \in Projects
      /\ req[q].kind \in Kinds \ {"webhook"}
  BY <1>1 DEF RequestInv, Shape, Fields, Request
<1>3. Rollback(q) \/ SyncMoves(q, next, req[q], X, {})
  BY LockMoves DEF LockProject
<1>4. ASSUME SyncMoves(q, next, req[q], X, {}) PROVE SyncInv'
  <2>1. /\ req[q].kind = "connect" => next = "checkFree"
        /\ req[q].kind = "disconnect" => next = "findConnection"
        /\ req[q].kind = "unlink" => next = "findLink"
        /\ req[q].kind = "remove" => next = "lockTask"
        /\ req[q].kind \in {"link", "import"} => next = "assertCurrent"
    BY AfterLockIs
  <2> HIDE DEF next, X
  <2>2. next \in {"checkFree", "findConnection", "findLink", "lockTask", "assertCurrent"}
    BY <1>2, <2>1 DEF Kinds
  <2> next \in PCs
    BY <2>2 DEF PCs
  <2>3. /\ pc'[q] = next /\ req'[q] = req[q]
        /\ \A r \in Requests \ {q} : pc'[r] = pc[r] /\ req'[r] = req[r]
        /\ UNCHANGED <<repository, task, link, delivery, applied, sent>>
        /\ \A x \in LockRows \cap X : holder'[x] = q
    BY <1>4, MovesTo
  <2>4. OwnLocks(q)'
    <3> DEFINE x == <<"Project", req[q].project>>
    <3>1. x \in LockRows /\ X = {x}
      BY <1>2 DEF LockRows, X
    <3> HIDE DEF x
    <3>2. holder'[x] = q
      BY <2>3, <3>1
    <3> QED
      BY <2>2, <2>3, <3>2 DEF OwnLocks, SharesProject, HasDelivery, At, x
  <2>5. Shape(q)' /\ Fields(q)'
    <3>1. /\ next = "checkFree" => req[q].kind = "connect"
          /\ next = "findConnection" => req[q].kind = "disconnect"
          /\ next = "findLink" => req[q].kind = "unlink"
          /\ next = "lockTask" => req[q].kind = "remove"
          /\ next = "assertCurrent" => req[q].kind \in {"link", "import"}
      BY <1>2, <2>1 DEF Kinds
    <3>2. Shape(q)'
      BY <1>2, <2>2, <2>3, <3>1 DEF Shape, Following
    <3>3. Fields(q)'
      BY <1>1, <1>2, <2>2, <2>3, <3>1 DEF RequestInv, Fields, HasConnection, At
    <3> QED
      BY <3>2, <3>3
  <2>6. OwnTasks(q)' /\ Rows(q)'
    BY <1>1, <2>2, <2>3
       DEF RequestInv, OwnTasks, Keeps, Rows, Current, HasDelivery, SharesProject, At
  <2>7. RequestInv(q)'
    BY <2>4, <2>5, <2>6 DEF RequestInv
  <2>8. Fresh(q)'
    BY <2>2, <2>3, FreshMoves
  <2> QED
    BY <1>2, <1>4, <2>7, <2>8, MovesKeep
<1> QED
  BY <1>3, <1>4, RollbackInv

\* A user's request that goes on keeps the Project.
LEMMA UserLockStays ==
  ASSUME SyncInv, NEW q \in Requests, HasProject(q),
         \A x \in LockRows : holder[x] = q => holder'[x] = q
  PROVE  holder'[<<"Project", req[q].project>>] = q
<1> DEFINE x == <<"Project", req[q].project>>
<1>1. RequestInv(q)
  BY DEF SyncInv
<1>2. x \in LockRows
  BY <1>1 DEF RequestInv, Fields, HasProject, Locked, LockRows
<1>3. holder[x] = q
  BY <1>1 DEF RequestInv, OwnLocks
<1> HIDE DEF x
<1>4. holder'[x] = q
  BY <1>2, <1>3
<1> QED
  BY <1>4 DEF x

\* A statement that only goes on: the request is what it was.
LEMMA GoesOn ==
  ASSUME SyncInv, NEW q \in Requests, NEW next \in PCs, NEW X, NEW Y,
         SyncMoves(q, next, req[q], X, Y), req[q].kind = "connect" => next # "commit", RequestInv(q)'
  PROVE  SyncInv'
<1>1. /\ pc'[q] = next /\ req'[q] = req[q]
      /\ \A r \in Requests \ {q} : pc'[r] = pc[r] /\ req'[r] = req[r]
  BY MovesTo
<1>2. Fresh(q)'
  BY <1>1, FreshMoves
<1>3. req[q] \in {NoRequest} \cup Request
  BY DEF SyncInv, TypeOK
<1> QED
  BY <1>2, <1>3, MovesKeep

\* 409 for a Project that has a repository.
LEMMA CheckFreeInv ==
  ASSUME SyncInv, NEW q \in Requests, CheckFree(q)
  PROVE  SyncInv'
<1>1. pc[q] = "checkFree" /\ RequestInv(q)
  BY DEF CheckFree, SyncInv
<1>2. Rollback(q) \/ SyncMoves(q, "insertRepository", req[q], {}, {})
  BY ReadMoves DEF CheckFree
<1>3. CASE SyncMoves(q, "insertRepository", req[q], {}, {})
  <2>1. /\ pc'[q] = "insertRepository" /\ req'[q] = req[q]
        /\ UNCHANGED <<repository, task, link, delivery, applied, sent>>
        /\ \A x \in LockRows : holder'[x] = holder[x]
    BY <1>3, MovesTo DEF PCs
  <2>2. RequestInv(q)'
    BY <1>1, <2>1, UserLockStays
       DEF RequestInv, Shape, Fields, HasConnection, OwnTasks, Keeps, Rows,
           Current, OwnLocks, HasProject, SharesProject, HasDelivery, At, Locked, Following
  <2> QED
    BY <1>3, <2>2, GoesOn DEF PCs
<1> QED
  BY <1>2, <1>3, RollbackInv

\* The Repository row of a Project that is disconnected.
LEMMA FindConnectionInv ==
  ASSUME SyncInv, NEW q \in Requests, FindConnection(q)
  PROVE  SyncInv'
<1> DEFINE X == ConnectionsOf(req[q].project)
           known == With(q, X)
<1>1. pc[q] = "findConnection" /\ RequestInv(q)
  BY DEF FindConnection, SyncInv
<1>2. /\ req[q] \in Request /\ req[q].project \in Projects
      /\ req[q].kind = "disconnect" /\ req[q].tasks = {}
  BY <1>1 DEF RequestInv, Shape, Fields
<1>3. Rollback(q) \/ (X # {} /\ SyncMoves(q, "deleteLinks", known, {}, {}))
  BY ReadMoves DEF FindConnection
<1>4. ASSUME X # {}, SyncMoves(q, "deleteLinks", known, {}, {}) PROVE SyncInv'
  <2>1. /\ known \in Request /\ Asks(known, req[q])
        /\ known.project = req[q].project /\ known.tasks = req[q].tasks
        /\ known.connection \in Connections /\ known.external \in Externals
        /\ repository[known.connection] # NoRepository
        /\ repository[known.connection].project = req[q].project
    BY <1>2, <1>4, RowOfProject, Zenon
  <2> HIDE DEF known, X
  <2>2. /\ pc'[q] = "deleteLinks" /\ req'[q] = known
        /\ \A r \in Requests \ {q} : pc'[r] = pc[r] /\ req'[r] = req[r]
        /\ UNCHANGED <<repository, task, link, delivery, applied, sent>>
        /\ \A x \in LockRows : holder'[x] = holder[x]
    BY <1>4, MovesTo DEF PCs
  <2>3. OwnLocks(q)'
    BY <1>1, <2>1, <2>2, UserLockStays
       DEF RequestInv, OwnLocks, HasProject, SharesProject, HasDelivery, At, Locked, Asks
  <2>4. RequestInv(q)'
    BY <1>1, <1>2, <2>1, <2>2, <2>3
       DEF Asks, Referable, RequestInv, Shape, Fields, HasConnection, OwnTasks, Keeps, Rows,
           Current, OwnLocks, HasProject, SharesProject, HasDelivery, At, Locked, Following
  <2>5. Fresh(q)'
    BY <2>1, <2>2, FreshMoves DEF Asks
  <2> QED
    BY <1>4, <2>1, <2>4, <2>5, MovesKeep DEF PCs
<1> QED
  BY <1>3, <1>4, RollbackInv

\* assertCurrentRepository: the connection is the one that the Issue came from.
LEMMA AssertCurrentInv ==
  ASSUME SyncInv, NEW q \in Requests, AssertCurrent(q)
  PROVE  SyncInv'
<1> DEFINE allowed == /\ ConnectionsOf(req[q].project) = {req[q].connection}
                      /\ \A t \in req[q].tasks : task[t] # NoTask
<1>1. pc[q] = "assertCurrent" /\ RequestInv(q)
  BY DEF AssertCurrent, SyncInv
<1>2. Rollback(q) \/ (allowed /\ SyncMoves(q, "insertLink", req[q], {}, {}))
  BY ReadMoves DEF AssertCurrent
<1>3. ASSUME allowed, SyncMoves(q, "insertLink", req[q], {}, {}) PROVE SyncInv'
  <2>1. /\ pc'[q] = "insertLink" /\ req'[q] = req[q]
        /\ UNCHANGED <<repository, task, link, delivery, applied, sent>>
        /\ \A x \in LockRows : holder'[x] = holder[x]
    BY <1>3, MovesTo DEF PCs
  <2>2. repository[req[q].connection].project = req[q].project
    BY <1>3 DEF ConnectionsOf
  <2>3. RequestInv(q)'
    BY <1>1, <1>3, <2>1, <2>2, UserLockStays
       DEF Referable, RequestInv, Shape, Fields, HasConnection, OwnTasks, Keeps, Rows,
           Current, OwnLocks, HasProject, SharesProject, HasDelivery, At, Locked, Following
  <2> QED
    BY <1>3, <2>3, GoesOn DEF PCs
<1> QED
  BY <1>2, <1>3, RollbackInv

\* The link of a Task that is unlinked.
LEMMA FindLinkInv ==
  ASSUME SyncInv, NEW q \in Requests, FindLink(q)
  PROVE  SyncInv'
<1> DEFINE t == Only(req[q].tasks)
           allowed == link[t] # NoLink /\ repository[link[t].connection].project = req[q].project
<1>1. pc[q] = "findLink" /\ RequestInv(q)
  BY DEF FindLink, SyncInv
<1>2. req[q].kind = "unlink" /\ req[q].tasks = {t} /\ t \in Tasks
  BY <1>1, OnlyOne DEF RequestInv, Shape, Fields
<1>3. Rollback(q) \/ (allowed /\ SyncMoves(q, "deleteLinks", req[q], {}, {}))
  BY ReadMoves DEF FindLink
<1>4. ASSUME allowed, SyncMoves(q, "deleteLinks", req[q], {}, {}) PROVE SyncInv'
  <2>1. task[t] # NoTask
    BY <1>2, <1>4 DEF SyncInv, LinksAreConnected
  <2> HIDE DEF t
  <2>2. /\ pc'[q] = "deleteLinks" /\ req'[q] = req[q]
        /\ UNCHANGED <<repository, task, link, delivery, applied, sent>>
        /\ \A x \in LockRows : holder'[x] = holder[x]
    BY <1>4, MovesTo DEF PCs
  <2>3. RequestInv(q)'
    BY <1>1, <1>2, <2>1, <2>2, UserLockStays
       DEF RequestInv, Shape, Fields, HasConnection, OwnTasks, Keeps, Rows,
           Current, OwnLocks, HasProject, SharesProject, HasDelivery, At, Locked, Following
  <2> QED
    BY <1>4, <2>3, GoesOn DEF PCs
<1> QED
  BY <1>3, <1>4, RollbackInv

\* The id of the Repository row is new.
LEMMA InsertRepositoryInv ==
  ASSUME SyncInv, NEW q \in Requests, InsertRepository(q)
  PROVE  SyncInv'
<1> DEFINE known(x) == [req[q] EXCEPT !.connection = x]
           X == {<<"External", req[q].external>>}
<1>1. pc[q] = "insertRepository" /\ RequestInv(q)
  BY DEF InsertRepository, SyncInv
<1>2. req[q] \in Request /\ req[q].kind = "connect" /\ req[q].project \in Projects
      /\ req[q].tasks = {} /\ req[q].external \in Externals
  BY <1>1 DEF RequestInv, Shape, Fields
<1>3. PICK x \in Connections :
        /\ repository[x] = NoRepository /\ \A r \in Requests : req[r].connection # x
        /\ Rollback(q) \/ SyncMoves(q, "commit", known(x), X, {})
  BY LockMoves DEF InsertRepository
<1>4. ASSUME SyncMoves(q, "commit", known(x), X, {}) PROVE SyncInv'
  <2> DEFINE S == known(x)
  <2>1. /\ S \in Request /\ Asks(S, req[q]) /\ S.connection = x
        /\ S.project = req[q].project /\ S.tasks = req[q].tasks
        /\ S.external = req[q].external
    BY <1>2, <1>3, ConnectionRead, Zenon
  <2>2. SyncMoves(q, "commit", S, X, {})
    BY <1>4
  <2> HIDE DEF known, S, X
  <2>3. /\ pc'[q] = "commit" /\ req'[q] = S
        /\ \A r \in Requests \ {q} : pc'[r] = pc[r] /\ req'[r] = req[r]
        /\ UNCHANGED <<repository, task, link, delivery, applied, sent>>
        /\ \A y \in LockRows \cap X : holder'[y] = q
        /\ \A y \in LockRows \ X : holder'[y] = holder[y]
    BY <2>2, MovesTo DEF PCs
  <2>4. OwnLocks(q)'
    <3>1. holder'[<<"Project", req[q].project>>] = q
      BY <1>1, <2>3, UserLockStays DEF HasProject, Locked
    <3> QED
      BY <1>2, <2>1, <2>3, <3>1 DEF OwnLocks, SharesProject, HasDelivery, At, Asks
  <2>5. RequestInv(q)'
    BY <1>1, <1>2, <1>3, <2>1, <2>3, <2>4 DEF Asks, RequestInv, Shape, Fields, HasConnection, OwnTasks, Keeps, Rows,
           Current, OwnLocks, HasProject, SharesProject, HasDelivery, At, Locked, Following
  <2>6. Fresh(q)'
    BY <1>2, <1>3, <2>1, <2>3 DEF Fresh, At, Asks, SyncInv, FreshIds
  <2> QED
    BY <2>1, <2>2, <2>5, <2>6, MovesKeep DEF PCs
<1> QED
  BY <1>3, <1>4, RollbackInv

\* SELECT ... FROM "Task" ... FOR UPDATE.
LEMMA LockTaskInv ==
  ASSUME SyncInv, NEW q \in Requests, LockTask(q)
  PROVE  SyncInv'
<1> DEFINE t == Only(req[q].tasks)
           X == {<<"Task", t>>}
<1>1. pc[q] = "lockTask" /\ RequestInv(q)
  BY DEF LockTask, SyncInv
<1>2. req[q].kind = "remove" /\ req[q].tasks = {t} /\ t \in Tasks
  BY <1>1, OnlyOne DEF RequestInv, Shape, Fields
<1>3. Rollback(q) \/ (task[t] # NoTask /\ SyncMoves(q, "deleteLinks", req[q], X, {}))
  BY LockMoves DEF LockTask
<1>4. ASSUME task[t] # NoTask, SyncMoves(q, "deleteLinks", req[q], X, {}) PROVE SyncInv'
  <2> HIDE DEF t, X
  <2>1. /\ pc'[q] = "deleteLinks" /\ req'[q] = req[q]
        /\ UNCHANGED <<repository, task, link, delivery, applied, sent>>
        /\ \A x \in LockRows \cap X : holder'[x] = q
        /\ \A x \in LockRows \ X : holder'[x] = holder[x]
    BY <1>4, MovesTo DEF PCs
  <2>2. OwnLocks(q)'
    <3>1. holder'[<<"Project", req[q].project>>] = q
      BY <1>1, <2>1, UserLockStays DEF HasProject, Locked
    <3> QED
      BY <2>1, <3>1 DEF OwnLocks, SharesProject, HasDelivery, At
  <2>3. RequestInv(q)'
    BY <1>1, <1>2, <1>4, <2>1, <2>2 DEF RequestInv, Shape, Fields, HasConnection, OwnTasks, Keeps, Rows,
           Current, OwnLocks, HasProject, SharesProject, HasDelivery, At, Locked, Following
  <2> QED
    BY <1>4, <2>3, GoesOn DEF PCs
<1> QED
  BY <1>3, <1>4, RollbackInv

\* DELETE FROM "GithubIssue", of a Repository or of a Task.
LEMMA DeleteLinksInv ==
  ASSUME SyncInv, NEW q \in Requests, DeleteLinks(q)
  PROVE  SyncInv'
<1>1. pc[q] = "deleteLinks" /\ RequestInv(q) /\ TypeOK /\ LinksAreConnected
  BY DEF DeleteLinks, SyncInv
<1>2. /\ req[q] \in Request /\ req[q].project \in Projects
      /\ req[q].kind \in {"disconnect", "unlink", "remove"}
  BY <1>1 DEF RequestInv, Shape, Fields
<1>3. CASE req[q].kind = "disconnect"
  <2> DEFINE T == Linked(req[q].connection)
             X == {"Issue"} \X T
             S == [req[q] EXCEPT !.tasks = T]
  <2>1. Rollback(q) \/ SyncMoves(q, "deleteRepository", S, X, {})
    BY <1>3, LockMoves DEF DeleteLinks
  <2>2. ASSUME SyncMoves(q, "deleteRepository", S, X, {}) PROVE SyncInv'
    <3>1. T \in SUBSET Tasks
      BY DEF Linked
    <3>2. /\ S \in Request /\ Asks(S, req[q]) /\ S.tasks = T
          /\ S.project = req[q].project /\ S.connection = req[q].connection
          /\ S.external = req[q].external
      BY <1>2, <3>1, TasksRead, Zenon
    <3>3. /\ req[q].connection \in Connections /\ Referable(q)
      BY <1>1, <1>3 DEF RequestInv, Fields, HasConnection, Rows, Current
    <3>4. \A t \in T : task[t] = [project |-> req[q].project] /\ task[t] # NoTask
      <4> SUFFICES ASSUME NEW t \in T
                   PROVE  task[t] = [project |-> req[q].project] /\ task[t] # NoTask
        OBVIOUS
      <4>1. t \in Tasks /\ link[t].connection = req[q].connection
        BY DEF Linked
      <4>2. link[t] # NoLink
        BY <3>3, <4>1, SyncNoneAssumption DEF NoLink
      <4>3. task[t] # NoTask /\ task[t].project = req[q].project
        BY <1>1, <3>3, <4>1, <4>2 DEF LinksAreConnected, Referable
      <4> QED
        BY <1>1, <4>1, <4>3 DEF TypeOK
    <3>5. Linked(req[q].connection) = T
      OBVIOUS
    <3> HIDE DEF T, X, S
    <3>6. /\ pc'[q] = "deleteRepository" /\ req'[q] = S
          /\ \A r \in Requests \ {q} : pc'[r] = pc[r] /\ req'[r] = req[r]
          /\ UNCHANGED <<repository, task, link, delivery, applied, sent>>
          /\ \A x \in LockRows \cap X : holder'[x] = q
          /\ \A x \in LockRows \ X : holder'[x] = holder[x]
      BY <2>2, MovesTo DEF PCs
    <3>7. OwnLocks(q)'
      <4>1. holder'[<<"Project", req[q].project>>] = q
        BY <1>1, <3>6, UserLockStays DEF HasProject, Locked
      <4> QED
        BY <3>2, <3>6, <4>1 DEF OwnLocks, SharesProject, HasDelivery, At
    <3>8. OwnTasks(q)' /\ Rows(q)'
      <4>1. OwnTasks(q)'
        BY <1>3, <3>2, <3>4, <3>6 DEF OwnTasks, Keeps, Asks
      <4>2. Rows(q)'
        BY <1>3, <3>2, <3>3, <3>5, <3>6
           DEF Rows, Current, Referable, Linked, HasDelivery, SharesProject, At, Asks
      <4> QED
        BY <4>1, <4>2
    <3>9. Shape(q)' /\ Fields(q)'
      BY <1>1, <1>2, <1>3, <3>2, <3>3, <3>6
         DEF RequestInv, Shape, Fields, HasConnection, At, Following, Asks
    <3>10. RequestInv(q)'
      BY <3>7, <3>8, <3>9 DEF RequestInv
    <3>11. Fresh(q)'
      BY <1>3, <3>2, <3>4, <3>6, FreshMoves DEF Asks
    <3> QED
      BY <2>2, <3>2, <3>10, <3>11, MovesKeep DEF PCs
  <2> QED
    BY <2>1, <2>2, RollbackInv
<1>4. CASE req[q].kind # "disconnect"
  <2> DEFINE X == {"Issue"} \X {t \in req[q].tasks : link[t] # NoLink}
  <2>1. Rollback(q) \/ SyncMoves(q, "commit", req[q], X, {})
    BY <1>4, LockMoves DEF DeleteLinks
  <2>2. ASSUME SyncMoves(q, "commit", req[q], X, {}) PROVE SyncInv'
    <3> HIDE DEF X
    <3>1. /\ pc'[q] = "commit" /\ req'[q] = req[q]
          /\ UNCHANGED <<repository, task, link, delivery, applied, sent>>
          /\ \A x \in LockRows \cap X : holder'[x] = q
          /\ \A x \in LockRows \ X : holder'[x] = holder[x]
      BY <2>2, MovesTo DEF PCs
    <3>2. OwnLocks(q)'
      <4>1. holder'[<<"Project", req[q].project>>] = q
        BY <1>1, <3>1, UserLockStays DEF HasProject, Locked
      <4> QED
        BY <1>2, <3>1, <4>1 DEF OwnLocks, SharesProject, HasDelivery, At
    <3>3. RequestInv(q)'
      BY <1>1, <1>2, <1>4, <3>1, <3>2 DEF RequestInv, Shape, Fields, HasConnection, OwnTasks, Keeps, Rows,
           Current, OwnLocks, HasProject, SharesProject, HasDelivery, At, Locked, Following
    <3> QED
      BY <1>2, <2>2, <3>3, GoesOn DEF PCs
  <2> QED
    BY <2>1, <2>2, RollbackInv
<1> QED
  BY <1>3, <1>4

\* DELETE FROM "Repository", once no link is left.
LEMMA DeleteRepositoryInv ==
  ASSUME SyncInv, NEW q \in Requests, DeleteRepository(q)
  PROVE  SyncInv'
<1> DEFINE X == {<<"Repository", req[q].connection>>, <<"External", req[q].external>>}
           allowed == Linked(req[q].connection) \subseteq req[q].tasks
<1>1. pc[q] = "deleteRepository" /\ RequestInv(q)
  BY DEF DeleteRepository, SyncInv
<1>2. req[q].kind = "disconnect"
  BY <1>1 DEF RequestInv, Shape
<1>3. Rollback(q) \/ SyncMoves(q, "commit", req[q], X, {})
  BY LockMoves DEF DeleteRepository
<1>4. ASSUME SyncMoves(q, "commit", req[q], X, {}) PROVE SyncInv'
  <2> HIDE DEF X
  <2>1. /\ pc'[q] = "commit" /\ req'[q] = req[q]
        /\ UNCHANGED <<repository, task, link, delivery, applied, sent>>
        /\ \A x \in LockRows \cap X : holder'[x] = q
        /\ \A x \in LockRows \ X : holder'[x] = holder[x]
    BY <1>4, MovesTo DEF PCs
  <2>2. OwnLocks(q)'
    <3>1. holder'[<<"Project", req[q].project>>] = q
      BY <1>1, <2>1, UserLockStays DEF HasProject, Locked
    <3> QED
      BY <1>2, <2>1, <3>1 DEF OwnLocks, SharesProject, HasDelivery, At
  <2>3. Linked(req[q].connection)' = Linked(req[q].connection)
    BY <2>1 DEF Linked
  <2>4. RequestInv(q)'
    BY <1>1, <1>2, <2>1, <2>2, <2>3 DEF Referable, RequestInv, Shape, Fields, HasConnection, OwnTasks, Keeps, Rows,
           Current, OwnLocks, HasProject, SharesProject, HasDelivery, At, Locked, Following
  <2> QED
    BY <1>2, <1>4, <2>4, GoesOn DEF PCs
<1> QED
  BY <1>3, <1>4, RollbackInv

\* An Issue row: with the foreign keys, and for an import with a new Task.
LEMMA InsertLinkInv ==
  ASSUME SyncInv, NEW q \in Requests, InsertLink(q)
  PROVE  SyncInv'
<1>1. pc[q] = "insertLink" /\ RequestInv(q) /\ TypeOK
  BY DEF InsertLink, SyncInv
<1>2. /\ req[q] \in Request /\ req[q].kind \in {"link", "import"} /\ req[q].project \in Projects
      /\ req[q].connection \in Connections /\ Referable(q)
  BY <1>1 DEF RequestInv, Shape, Fields, HasConnection, Rows, Current
<1>3. PICK T \in IF req[q].kind = "link" THEN {req[q].tasks} ELSE {{t} : t \in Tasks} :
        /\ req[q].kind = "import" =>
             task[Only(T)] = NoTask /\ \A r \in Requests : Only(T) \notin req[r].tasks
        /\ \/ Rollback(q)
           \/ \E X : /\ KeyShare(q, X) /\ UNCHANGED holder
                     /\ Goto(q, "commit") /\ req' = [req EXCEPT ![q].tasks = T]
                     /\ UNCHANGED <<rows, sent>>
  BY <1>1 DEF InsertLink
<1>4. \E t \in Tasks : T = {t} /\ Only(T) = t
  BY <1>1, <1>2, <1>3, OnlyOne DEF RequestInv, Fields
<1>5. ASSUME NEW X, KeyShare(q, X), UNCHANGED holder, Goto(q, "commit"),
             req' = [req EXCEPT ![q].tasks = T], UNCHANGED <<rows, sent>>
      PROVE  SyncInv'
  <2> DEFINE S == [req[q] EXCEPT !.tasks = T]
  <2>1. /\ S \in Request /\ Asks(S, req[q]) /\ S.tasks = T
        /\ S.project = req[q].project /\ S.connection = req[q].connection
    BY <1>2, <1>4, TasksRead, Zenon
  <2>2. req' = [req EXCEPT ![q] = S]
    BY <1>5, Zenon
  <2>3. ForUpdate(q, {})
    BY <1>1, <1>5, NothingLocked DEF TypeOK
  <2> HIDE DEF S
  <2>4. SyncMoves(q, "commit", S, {}, X)
    BY <1>5, <2>2, <2>3 DEF SyncMoves
  <2>5. /\ pc'[q] = "commit" /\ req'[q] = S
        /\ \A r \in Requests \ {q} : pc'[r] = pc[r] /\ req'[r] = req[r]
        /\ UNCHANGED <<repository, task, link, delivery, applied, sent>>
        /\ \A x \in LockRows : holder'[x] = holder[x]
    BY <2>4, MovesTo DEF PCs
  <2>6. OwnLocks(q)'
    <3>1. holder'[<<"Project", req[q].project>>] = q
      BY <1>1, <2>5, UserLockStays DEF HasProject, Locked
    <3> QED
      BY <1>2, <2>1, <2>5, <3>1 DEF OwnLocks, SharesProject, HasDelivery, At, Asks
  <2>7. Shape(q)' /\ Fields(q)'
    BY <1>1, <1>2, <1>3, <1>4, <2>1, <2>5
       DEF RequestInv, Shape, Fields, HasConnection, At, Following, Asks
  <2>8. OwnTasks(q)'
    <3>1. CASE req[q].kind = "link"
      <4>1. T = req[q].tasks
        BY <1>3, <3>1
      <4> QED
        BY <1>1, <2>1, <2>5, <3>1, <4>1 DEF RequestInv, OwnTasks, Keeps, Asks
    <3>2. CASE req[q].kind = "import"
      BY <1>3, <1>4, <2>1, <2>5, <3>2 DEF OwnTasks, Keeps, Asks
    <3> QED
      BY <1>2, <3>1, <3>2
  <2>9. Rows(q)'
    BY <1>2, <2>1, <2>5
       DEF Rows, Current, Referable, HasDelivery, SharesProject, At, Asks
  <2>10. Fresh(q)'
    <3>1. CASE req[q].kind = "link"
      BY <1>3, <2>1, <2>5, <3>1, FreshMoves DEF Asks
    <3>2. CASE req[q].kind = "import"
      <4> SUFFICES ASSUME NEW r \in Requests \ {q}
                   PROVE  /\ req[r].tasks \cap T = {}
                          /\ At(r, "connect") => req[r].connection # req[q].connection
        BY <2>1, <2>5, <3>2 DEF Fresh, At, Asks
      <4>1. RequestInv(r) /\ FreshIds
        BY DEF SyncInv
      <4> QED
        BY <1>3, <1>4, <3>2, <4>1 DEF FreshIds
    <3> QED
      BY <1>2, <3>1, <3>2
  <2> QED
    BY <2>1, <2>4, <2>6, <2>7, <2>8, <2>9, <2>10, MovesKeep DEF PCs, RequestInv
<1> QED
  BY <1>3, <1>5, RollbackInv

-----------------------------------------------------------------------------
(* The statements of a webhook.                                            *)

\* A webhook that goes on keeps its delivery and its Project.
LEMMA HookLocksStay ==
  ASSUME SyncInv, NEW q \in Requests,
         \A x \in LockRows : holder[x] = q => holder'[x] = q,
         \A x \in LockRows : sharers[x] \subseteq sharers'[x]
  PROVE  /\ HasDelivery(q) => holder'[<<"Delivery", req[q].delivery>>] = q
         /\ SharesProject(q) => q \in sharers'[<<"Project", req[q].project>>]
<1> DEFINE x == <<"Delivery", req[q].delivery>>
           y == <<"Project", req[q].project>>
<1>1. RequestInv(q)
  BY DEF SyncInv
<1>2. /\ HasDelivery(q) => x \in LockRows
      /\ SharesProject(q) => y \in LockRows
  BY <1>1 DEF RequestInv, Shape, Fields, HasDelivery, SharesProject, At, Following, LockRows
<1>3. /\ HasDelivery(q) => holder[x] = q
      /\ SharesProject(q) => q \in sharers[y]
  BY <1>1 DEF RequestInv, OwnLocks
<1> HIDE DEF x, y
<1>4. /\ HasDelivery(q) => holder'[x] = q
      /\ SharesProject(q) => q \in sharers'[y]
  BY <1>2, <1>3
<1> QED
  BY <1>4 DEF x, y

\* The Repository row of the repository at GitHub.
LEMMA FindRepositoryInv ==
  ASSUME SyncInv, NEW q \in Requests, FindRepository(q)
  PROVE  SyncInv'
<1> DEFINE X == {x \in Connections : repository[x].external = RepositoryOf[req[q].issue]}
           x == Only(X)
           j == repository[x].project
           R == req[q]
           S == [R EXCEPT !.connection = x, !.project = j]
<1>1. pc[q] = "findRepository" /\ RequestInv(q) /\ TypeOK
  BY DEF FindRepository, SyncInv
<1>2. R \in Request /\ R.kind = "webhook" /\ R.issue \in Issues /\ R.tasks = {}
  BY <1>1 DEF RequestInv, Shape, Fields, Following
<1>3. Rollback(q) \/ (X # {} /\ SyncMoves(q, "findDelivery", S, {}, {}))
  BY ReadMoves DEF FindRepository
<1>4. ASSUME X # {}, SyncMoves(q, "findDelivery", S, {}, {}) PROVE SyncInv'
  <2>1. x \in Connections /\ repository[x].external = RepositoryOf[req[q].issue]
    BY <1>4, OnlyOne
  <2>2. repository[x] # NoRepository
    BY <1>2, <2>1, RepositoryOfAssumption, SyncNoneAssumption DEF NoRepository
  <2>3. j \in Projects
    BY <1>1, <2>1, <2>2 DEF TypeOK
  <2> HIDE DEF x, X, j, R
  <2>4. /\ S \in Request /\ Asks(S, R)
        /\ S.connection = x /\ S.project = j /\ S.tasks = R.tasks
    BY <1>2, <2>1, <2>3 DEF Request, Asks
  <2> HIDE DEF S
  <2>5. /\ pc'[q] = "findDelivery" /\ req'[q] = S
        /\ \A r \in Requests \ {q} : pc'[r] = pc[r] /\ req'[r] = req[r]
        /\ UNCHANGED <<repository, task, link, delivery, applied, sent>>
    BY <1>4, MovesTo DEF PCs
  <2>6. Shape(q)' /\ Fields(q)'
    BY <1>1, <1>2, <2>1, <2>3, <2>4, <2>5
       DEF RequestInv, Shape, Fields, HasConnection, At, Following, Asks, R
  <2>7. OwnTasks(q)' /\ Rows(q)' /\ OwnLocks(q)'
    BY <1>2, <2>4, <2>5
       DEF OwnTasks, Rows, Current, OwnLocks, HasProject, SharesProject, HasDelivery, At, Locked, R
  <2>8. Fresh(q)'
    BY <2>2, <2>4, <2>5, FreshMoves, <1>2 DEF Asks, R
  <2> QED
    BY <1>4, <2>4, <2>6, <2>7, <2>8, MovesKeep DEF PCs, RequestInv
<1> QED
  BY <1>3, <1>4, RollbackInv

\* A delivery that has not been received.
LEMMA FindDeliveryInv ==
  ASSUME SyncInv, NEW q \in Requests, FindDelivery(q)
  PROVE  SyncInv'
<1>1. pc[q] = "findDelivery" /\ RequestInv(q)
  BY DEF FindDelivery, SyncInv
<1>2. Rollback(q) \/ SyncMoves(q, "insertDelivery", req[q], {}, {})
  BY ReadMoves DEF FindDelivery
<1>3. CASE SyncMoves(q, "insertDelivery", req[q], {}, {})
  <2>1. /\ pc'[q] = "insertDelivery" /\ req'[q] = req[q]
        /\ UNCHANGED <<repository, task, link, delivery, applied, sent>>
    BY <1>3, MovesTo DEF PCs
  <2>2. RequestInv(q)'
    BY <1>1, <2>1 DEF RequestInv, Shape, Fields, HasConnection, OwnTasks, Keeps, Rows,
           Current, OwnLocks, HasProject, SharesProject, HasDelivery, At, Locked, Following
  <2> QED
    BY <1>3, <2>2, GoesOn DEF PCs
<1> QED
  BY <1>2, <1>3, RollbackInv

\* The unique index on the delivery id.
LEMMA InsertDeliveryInv ==
  ASSUME SyncInv, NEW q \in Requests, InsertDelivery(q)
  PROVE  SyncInv'
<1> DEFINE X == {<<"Delivery", req[q].delivery>>}
<1>1. pc[q] = "insertDelivery" /\ RequestInv(q)
  BY DEF InsertDelivery, SyncInv
<1>2. req[q].kind = "webhook" /\ req[q].delivery \in Deliveries
  BY <1>1 DEF RequestInv, Shape, Fields, Following
<1>3. \/ Rollback(q)
      \/ delivery[req[q].delivery] = NoDelivery /\ SyncMoves(q, "referProject", req[q], X, {})
  BY LockMoves DEF InsertDelivery
<1>4. ASSUME delivery[req[q].delivery] = NoDelivery, SyncMoves(q, "referProject", req[q], X, {})
      PROVE  SyncInv'
  <2> HIDE DEF X
  <2>1. /\ pc'[q] = "referProject" /\ req'[q] = req[q]
        /\ UNCHANGED <<repository, task, link, delivery, applied, sent>>
        /\ \A x \in LockRows \cap X : holder'[x] = q
    BY <1>4, MovesTo DEF PCs
  <2>2. OwnLocks(q)'
    <3> DEFINE x == <<"Delivery", req[q].delivery>>
    <3>1. x \in LockRows /\ X = {x}
      BY <1>2 DEF LockRows, X
    <3> HIDE DEF x
    <3>2. holder'[x] = q
      BY <2>1, <3>1
    <3> QED
      BY <2>1, <3>2 DEF OwnLocks, HasProject, SharesProject, HasDelivery, At, Locked, x
  <2>3. RequestInv(q)'
    BY <1>1, <1>4, <2>1, <2>2 DEF RequestInv, Shape, Fields, HasConnection, OwnTasks, Keeps, Rows,
           Current, OwnLocks, HasProject, SharesProject, HasDelivery, At, Locked, Following
  <2> QED
    BY <1>2, <1>4, <2>3, GoesOn DEF PCs
<1> QED
  BY <1>3, <1>4, RollbackInv

\* The foreign keys of the delivery: its Project, then its Repository.
LEMMA ReferInv ==
  ASSUME SyncInv, NEW q \in Requests, Refer(q)
  PROVE  SyncInv'
<1> DEFINE X == {Reference(q)}
           next == IF pc[q] = "referProject" THEN "referRepository" ELSE "findIssue"
<1>1. pc[q] \in {"referProject", "referRepository"} /\ RequestInv(q) /\ TypeOK
  BY DEF Refer, SyncInv
<1>2. req[q].kind = "webhook" /\ req[q].project \in Projects /\ req[q] \in Request
  BY <1>1 DEF RequestInv, Shape, Fields, Following
<1>3. \/ Rollback(q)
      \/ /\ pc[q] = "referRepository" => Referable(q)
         /\ SyncMoves(q, next, req[q], {}, X)
  <2>1. CASE Rollback(q)
    BY <2>1
  <2>2. CASE ~Rollback(q)
    <3>1. /\ Reference(q)[1] = "Repository" => Referable(q)
          /\ KeyShare(q, X) /\ holder' = holder /\ Goto(q, next)
          /\ UNCHANGED <<rows, sent>> /\ req' = req
      BY <2>2 DEF Refer
    <3>2. ForUpdate(q, {})
      BY <1>1, <3>1, NothingLocked DEF TypeOK
    <3>3. req' = [req EXCEPT ![q] = req[q]]
      BY <1>1, <3>1 DEF TypeOK
    <3>4. pc[q] = "referRepository" => Reference(q)[1] = "Repository"
      BY DEF Reference
    <3> QED
      BY <3>1, <3>2, <3>3, <3>4 DEF SyncMoves
  <2> QED
    BY <2>1, <2>2
<1>4. ASSUME pc[q] = "referRepository" => Referable(q), SyncMoves(q, next, req[q], {}, X)
      PROVE  SyncInv'
  <2>1. /\ pc[q] = "referProject" => next = "referRepository"
        /\ pc[q] = "referRepository" => next = "findIssue"
        /\ next \in {"referRepository", "findIssue"}
    OBVIOUS
  <2> HIDE DEF next, X
  <2> next \in PCs
    BY <2>1 DEF PCs
  <2>2. /\ pc'[q] = next /\ req'[q] = req[q]
        /\ UNCHANGED <<repository, task, link, delivery, applied, sent>>
        /\ \A x \in LockRows \ {} : holder'[x] = holder[x]
        /\ \A x \in LockRows \cap X : q \in sharers'[x]
        /\ \A x \in LockRows : sharers[x] \subseteq sharers'[x]
    BY <1>4, MovesTo
  <2>3. OwnLocks(q)'
    <3> DEFINE x == <<"Project", req[q].project>>
    <3>1. x \in LockRows /\ (pc[q] = "referProject" => X = {x})
      BY <1>2 DEF LockRows, X, Reference
    <3>2. pc[q] = "referRepository" => q \in sharers[x]
      BY <1>1 DEF RequestInv, OwnLocks, SharesProject
    <3> HIDE DEF x
    <3>3. q \in sharers'[x]
      BY <1>1, <2>2, <3>1, <3>2
    <3>4. holder'[<<"Delivery", req[q].delivery>>] = q
      BY <1>1, <2>2, HookLocksStay DEF HasDelivery, SharesProject
    <3>5. ~HasProject(q)'
      BY <2>1, <2>2 DEF HasProject, Locked
    <3> QED
      BY <2>2, <3>3, <3>4, <3>5 DEF OwnLocks, x
  <2>4. Shape(q)' /\ Fields(q)'
    BY <1>1, <1>2, <2>1, <2>2 DEF RequestInv, Shape, Fields, HasConnection, At, Following
  <2>5. OwnTasks(q)' /\ Rows(q)'
    BY <1>1, <1>2, <1>4, <2>1, <2>2
       DEF RequestInv, OwnTasks, Keeps, Rows, Current, Referable, HasDelivery, SharesProject, At
  <2>6. RequestInv(q)'
    BY <2>3, <2>4, <2>5 DEF RequestInv
  <2> QED
    BY <1>2, <1>4, <2>6, GoesOn
<1> QED
  BY <1>3, <1>4, RollbackInv

\* The Issue row that a delivery is about, if there is one.
LEMMA FindIssueInv ==
  ASSUME SyncInv, NEW q \in Requests, FindIssue(q)
  PROVE  SyncInv'
<1> DEFINE T == {t \in Linked(req[q].connection) :
                   link[t].issue = req[q].issue /\ sent[req[q].delivery].action # "other"}
           next == IF T = {} THEN "commit" ELSE "updateIssue"
           S == [req[q] EXCEPT !.tasks = T]
<1>1. pc[q] = "findIssue" /\ RequestInv(q) /\ TypeOK /\ LinksAreConnected
  BY DEF FindIssue, SyncInv
<1>2. /\ req[q] \in Request /\ req[q].kind = "webhook" /\ req[q].project \in Projects
      /\ req[q].connection \in Connections /\ Referable(q)
  BY <1>1 DEF RequestInv, Shape, Fields, Following, HasConnection, Rows, Current
<1>3. Rollback(q) \/ SyncMoves(q, next, S, {}, {})
  BY ReadMoves DEF FindIssue
<1>4. ASSUME SyncMoves(q, next, S, {}, {}) PROVE SyncInv'
  <2>1. /\ next \in {"commit", "updateIssue"}
        /\ next = "updateIssue" => T # {}
        /\ T \in SUBSET Tasks
    BY DEF Linked
  <2>2. /\ S \in Request /\ Asks(S, req[q]) /\ S.tasks = T
        /\ S.project = req[q].project /\ S.connection = req[q].connection
    BY <1>2, <2>1, TasksRead, Zenon
  <2>3. ASSUME NEW t \in T
        PROVE  /\ Follows(q, t) /\ t \in Tasks
               /\ task[t] = [project |-> req[q].project] /\ task[t] # NoTask
    <3>1. t \in Tasks /\ Follows(q, t)
      BY DEF Linked, Follows
    <3>2. link[t] # NoLink
      BY <1>2, <3>1, SyncNoneAssumption DEF NoLink, Follows
    <3>3. task[t] # NoTask /\ task[t].project = req[q].project
      BY <1>1, <1>2, <3>1, <3>2 DEF LinksAreConnected, Referable, Follows
    <3> QED
      BY <1>1, <3>1, <3>3 DEF TypeOK
  <2> HIDE DEF next, T, S
  <2> next \in PCs
    BY <2>1 DEF PCs
  <2>4. /\ pc'[q] = next /\ req'[q] = S
        /\ \A r \in Requests \ {q} : pc'[r] = pc[r] /\ req'[r] = req[r]
        /\ UNCHANGED <<repository, task, link, delivery, applied, sent>>
        /\ \A x \in LockRows \ {} : holder'[x] = holder[x]
        /\ \A x \in LockRows : sharers[x] \subseteq sharers'[x]
    BY <1>4, MovesTo
  <2>5. OwnLocks(q)'
    BY <1>1, <1>2, <2>1, <2>2, <2>4, HookLocksStay
       DEF OwnLocks, HasProject, SharesProject, HasDelivery, At, Locked, Asks
  <2>6. Shape(q)' /\ Fields(q)'
    BY <1>1, <1>2, <2>1, <2>2, <2>4
       DEF RequestInv, Shape, Fields, HasConnection, At, Following, Asks
  <2>7. OwnTasks(q)'
    BY <1>2, <2>2, <2>3, <2>4 DEF OwnTasks, Keeps, Asks
  <2>8. Rows(q)'
    BY <1>1, <1>2, <2>1, <2>2, <2>3, <2>4
       DEF RequestInv, Rows, Current, Referable, Follows, HasDelivery, SharesProject, At, Asks
  <2>9. Fresh(q)'
    BY <1>2, <2>2, <2>3, <2>4, FreshMoves DEF Asks
  <2> QED
    BY <1>4, <2>2, <2>5, <2>6, <2>7, <2>8, <2>9, MovesKeep DEF RequestInv
<1> QED
  BY <1>3, <1>4, RollbackInv

\* UPDATE "GithubIssue": the row that was found is there.
LEMMA UpdateIssueInv ==
  ASSUME SyncInv, NEW q \in Requests, UpdateIssue(q)
  PROVE  SyncInv'
<1> DEFINE X == {<<"Issue", Only(req[q].tasks)>>}
           next == IF sent[req[q].delivery].action = "gone" THEN "commit" ELSE "updateTask"
<1>1. pc[q] = "updateIssue" /\ RequestInv(q)
  BY DEF UpdateIssue, SyncInv
<1>2. req[q].kind = "webhook"
  BY <1>1 DEF RequestInv, Shape, Following
<1>3. Rollback(q) \/ SyncMoves(q, next, req[q], X, {})
  BY LockMoves DEF UpdateIssue, Follows
<1>4. ASSUME SyncMoves(q, next, req[q], X, {}) PROVE SyncInv'
  <2>1. next \in {"commit", "updateTask"}
    OBVIOUS
  <2> HIDE DEF next, X
  <2> next \in PCs
    BY <2>1 DEF PCs
  <2>2. /\ pc'[q] = next /\ req'[q] = req[q]
        /\ UNCHANGED <<repository, task, link, delivery, applied, sent>>
        /\ \A x \in LockRows \cap X : holder'[x] = q
        /\ \A x \in LockRows \ X : holder'[x] = holder[x]
        /\ \A x \in LockRows : sharers[x] \subseteq sharers'[x]
    BY <1>4, MovesTo
  <2>3. OwnLocks(q)'
    BY <1>1, <1>2, <2>1, <2>2, HookLocksStay
       DEF OwnLocks, HasProject, SharesProject, HasDelivery, At, Locked
  <2>4. Shape(q)' /\ Fields(q)'
    BY <1>1, <1>2, <2>1, <2>2 DEF RequestInv, Shape, Fields, HasConnection, At, Following
  <2>5. OwnTasks(q)' /\ Rows(q)'
    BY <1>1, <1>2, <2>1, <2>2
       DEF RequestInv, OwnTasks, Keeps, Rows, Current, Referable, Follows, HasDelivery,
           SharesProject, At
  <2>6. RequestInv(q)'
    BY <2>3, <2>4, <2>5 DEF RequestInv
  <2> QED
    BY <1>2, <1>4, <2>6, GoesOn
<1> QED
  BY <1>3, <1>4, RollbackInv

\* UPDATE "Task", with what the Issue says.
LEMMA UpdateTaskInv ==
  ASSUME SyncInv, NEW q \in Requests, UpdateTask(q)
  PROVE  SyncInv'
<1> DEFINE X == {<<"Task", Only(req[q].tasks)>>}
<1>1. pc[q] = "updateTask" /\ RequestInv(q)
  BY DEF UpdateTask, SyncInv
<1>2. req[q].kind = "webhook"
  BY <1>1 DEF RequestInv, Shape, Following
<1>3. Rollback(q) \/ SyncMoves(q, "commit", req[q], X, {})
  BY LockMoves DEF UpdateTask
<1>4. ASSUME SyncMoves(q, "commit", req[q], X, {}) PROVE SyncInv'
  <2> HIDE DEF X
  <2>1. /\ pc'[q] = "commit" /\ req'[q] = req[q]
        /\ UNCHANGED <<repository, task, link, delivery, applied, sent>>
        /\ \A x \in LockRows \cap X : holder'[x] = q
        /\ \A x \in LockRows \ X : holder'[x] = holder[x]
        /\ \A x \in LockRows : sharers[x] \subseteq sharers'[x]
    BY <1>4, MovesTo DEF PCs
  <2>2. OwnLocks(q)'
    BY <1>1, <1>2, <2>1, HookLocksStay
       DEF OwnLocks, HasProject, SharesProject, HasDelivery, At, Locked
  <2>3. RequestInv(q)'
    BY <1>1, <1>2, <2>1, <2>2 DEF Referable, RequestInv, Shape, Fields, HasConnection, OwnTasks, Keeps, Rows,
           Current, OwnLocks, HasProject, SharesProject, HasDelivery, At, Locked, Following
  <2> QED
    BY <1>2, <1>4, <2>3, GoesOn DEF PCs
<1> QED
  BY <1>3, <1>4, RollbackInv

-----------------------------------------------------------------------------
(* New requests, and what GitHub sends.                                    *)

\* What a new request knows.
Opens(S, next) ==
  /\ S \in Request /\ S.connection = None
  /\ \/ /\ next = "resolve" /\ S.kind \in {"link", "unlink", "remove"}
        /\ \E t \in Tasks : S.tasks = {t} /\ task[t] # NoTask
        /\ S.kind = "link" => S.issue \in Issues
     \/ /\ next = "lockProject" /\ S.kind \in {"connect", "disconnect"}
        /\ S.project \in Projects /\ S.tasks = {}
        /\ S.kind = "connect" => S.external \in Externals
     \/ /\ next = "connected" /\ S.kind = "import"
        /\ S.project \in Projects /\ S.tasks = {} /\ S.issue \in Issues
     \/ /\ next = "findRepository" /\ S.kind = "webhook"
        /\ S.delivery \in Deliveries /\ S.tasks = {} /\ S.issue \in Issues

\* A new request has no locks, and takes no id that another one has made.
LEMMA OpensInv ==
  ASSUME SyncInv, NEW q \in Requests, NEW next, NEW S, pc[q] = "idle", Opens(S, next),
         req' = [req EXCEPT ![q] = S], Goto(q, next), UNCHANGED <<rows, sent, locks>>
  PROVE  SyncInv'
<1>1. LocksTypeOK(LockRows, Requests)
  BY DEF SyncInv, TypeOK
<1>2. SyncMoves(q, next, S, {}, {})
  BY <1>1, NothingLocked DEF SyncMoves, locks
<1>3. next \in {"resolve", "lockProject", "connected", "findRepository"} /\ S \in Request
  BY DEF Opens
<1> next \in PCs
  BY <1>3 DEF PCs
<1>4. /\ pc'[q] = next /\ req'[q] = S
      /\ \A r \in Requests \ {q} : pc'[r] = pc[r] /\ req'[r] = req[r]
      /\ UNCHANGED <<repository, task, link, delivery, applied, sent>>
  BY <1>2, MovesTo
<1>5. Shape(q)' /\ Fields(q)'
  BY <1>3, <1>4 DEF Opens, Shape, Fields, HasConnection, At, Following
<1>6. OwnTasks(q)'
  BY <1>3, <1>4 DEF Opens, OwnTasks, Keeps
<1>7. Rows(q)' /\ OwnLocks(q)'
  BY <1>3, <1>4 DEF Rows, Current, OwnLocks, HasProject, SharesProject, HasDelivery, At, Locked
<1>8. Fresh(q)'
  <2> SUFFICES ASSUME NEW r \in Requests \ {q}
               PROVE  /\ req[r].kind = "import" \/ S.kind = "import" => req[r].tasks \cap S.tasks = {}
                      /\ At(r, "connect") => req[r].connection # S.connection
    BY <1>3, <1>4 DEF Fresh, At
  <2>1. RequestInv(r)
    BY DEF SyncInv
  <2>2. At(r, "connect") => req[r].connection # S.connection
    BY <2>1, SyncNoneAssumption DEF Opens, RequestInv, Fields, HasConnection, At
  <2>3. req[r].kind = "import" => \A t \in req[r].tasks : task[t] = NoTask
    BY <2>1 DEF RequestInv, OwnTasks
  <2>4. S.tasks = {} \/ (S.kind # "import" /\ \A t \in S.tasks : task[t] # NoTask)
    BY DEF Opens
  <2> QED
    BY <2>2, <2>3, <2>4
<1> QED
  BY <1>2, <1>3, <1>5, <1>6, <1>7, <1>8, MovesKeep DEF RequestInv

\* What the paths, the bodies and the headers name.
LEMMA BeginInv ==
  ASSUME SyncInv, NEW q \in Requests, Begin(q)
  PROVE  SyncInv'
<1>1. /\ pc[q] = "idle" /\ UNCHANGED <<rows, sent, locks>>
      /\ sent \in [Deliveries -> {NoEvent} \cup Event]
  BY DEF Begin, SyncInv, TypeOK
<1>2. CASE \E j \in Projects, g \in Externals :
             /\ req' = [req EXCEPT ![q] = [NoRequest EXCEPT !.kind = "connect", !.project = j,
                                                            !.external = g]]
             /\ Goto(q, "lockProject")
  <2>1. PICK j \in Projects, g \in Externals :
             /\ req' = [req EXCEPT ![q] = [NoRequest EXCEPT !.kind = "connect", !.project = j,
                                                            !.external = g]]
             /\ Goto(q, "lockProject")
    BY <1>2
  <2> DEFINE S == [NoRequest EXCEPT !.kind = "connect", !.project = j, !.external = g]
  <2>2. Opens(S, "lockProject")
    BY DEF Opens, NoRequest, Request, Kinds
  <2>3. req' = [req EXCEPT ![q] = S]
    BY <2>1
  <2> HIDE DEF S
  <2> QED
    BY <1>1, <2>1, <2>2, <2>3, OpensInv
<1>3. CASE \E j \in Projects :
             /\ req' = [req EXCEPT ![q] = [NoRequest EXCEPT !.kind = "disconnect", !.project = j]]
             /\ Goto(q, "lockProject")
  <2>1. PICK j \in Projects :
             /\ req' = [req EXCEPT ![q] = [NoRequest EXCEPT !.kind = "disconnect", !.project = j]]
             /\ Goto(q, "lockProject")
    BY <1>3
  <2> DEFINE S == [NoRequest EXCEPT !.kind = "disconnect", !.project = j]
  <2>2. Opens(S, "lockProject")
    BY DEF Opens, NoRequest, Request, Kinds
  <2>3. req' = [req EXCEPT ![q] = S]
    BY <2>1
  <2> HIDE DEF S
  <2> QED
    BY <1>1, <2>1, <2>2, <2>3, OpensInv
<1>4. CASE \E t \in Tasks, i \in Issues :
             /\ task[t] # NoTask
             /\ req' = [req EXCEPT ![q] = [NoRequest EXCEPT !.kind = "link", !.tasks = {t},
                                                            !.issue = i]]
             /\ Goto(q, "resolve")
  <2>1. PICK t \in Tasks, i \in Issues :
             /\ task[t] # NoTask
             /\ req' = [req EXCEPT ![q] = [NoRequest EXCEPT !.kind = "link", !.tasks = {t},
                                                            !.issue = i]]
             /\ Goto(q, "resolve")
    BY <1>4
  <2> DEFINE S == [NoRequest EXCEPT !.kind = "link", !.tasks = {t}, !.issue = i]
  <2>2. S \in Request /\ S.connection = None /\ S.kind = "link" /\ S.tasks = {t} /\ S.issue = i
    BY DEF NoRequest, Request, Kinds
  <2>3. req' = [req EXCEPT ![q] = S]
    BY <2>1
  <2> HIDE DEF S
  <2>4. Opens(S, "resolve")
    BY <2>1, <2>2 DEF Opens
  <2> QED
    BY <1>1, <2>1, <2>3, <2>4, OpensInv
<1>5. CASE \E j \in Projects, i \in Issues :
             /\ req' = [req EXCEPT ![q] = [NoRequest EXCEPT !.kind = "import", !.project = j,
                                                            !.issue = i]]
             /\ Goto(q, "connected")
  <2>1. PICK j \in Projects, i \in Issues :
             /\ req' = [req EXCEPT ![q] = [NoRequest EXCEPT !.kind = "import", !.project = j,
                                                            !.issue = i]]
             /\ Goto(q, "connected")
    BY <1>5
  <2> DEFINE S == [NoRequest EXCEPT !.kind = "import", !.project = j, !.issue = i]
  <2>2. Opens(S, "connected")
    BY DEF Opens, NoRequest, Request, Kinds
  <2>3. req' = [req EXCEPT ![q] = S]
    BY <2>1
  <2> HIDE DEF S
  <2> QED
    BY <1>1, <2>1, <2>2, <2>3, OpensInv
<1>6. CASE \E t \in Tasks, kind \in {"unlink", "remove"} :
             /\ task[t] # NoTask
             /\ req' = [req EXCEPT ![q] = [NoRequest EXCEPT !.kind = kind, !.tasks = {t}]]
             /\ Goto(q, "resolve")
  <2>1. PICK t \in Tasks, kind \in {"unlink", "remove"} :
             /\ task[t] # NoTask
             /\ req' = [req EXCEPT ![q] = [NoRequest EXCEPT !.kind = kind, !.tasks = {t}]]
             /\ Goto(q, "resolve")
    BY <1>6
  <2> DEFINE S == [NoRequest EXCEPT !.kind = kind, !.tasks = {t}]
  <2>2. S \in Request /\ S.connection = None /\ S.kind = kind /\ S.tasks = {t}
    BY DEF NoRequest, Request, Kinds
  <2>3. req' = [req EXCEPT ![q] = S]
    BY <2>1
  <2> HIDE DEF S
  <2>4. Opens(S, "resolve")
    BY <2>1, <2>2 DEF Opens
  <2> QED
    BY <1>1, <2>1, <2>3, <2>4, OpensInv
<1>7. CASE \E d \in Deliveries :
             /\ Signed(d)
             /\ req' = [req EXCEPT ![q] = [NoRequest EXCEPT !.kind = "webhook", !.delivery = d,
                                                            !.issue = sent[d].issue]]
             /\ Goto(q, "findRepository")
  <2>1. PICK d \in Deliveries :
             /\ Signed(d)
             /\ req' = [req EXCEPT ![q] = [NoRequest EXCEPT !.kind = "webhook", !.delivery = d,
                                                            !.issue = sent[d].issue]]
             /\ Goto(q, "findRepository")
    BY <1>7
  <2> DEFINE i == sent[d].issue
             S == [NoRequest EXCEPT !.kind = "webhook", !.delivery = d, !.issue = i]
  <2>2. i \in Issues
    BY <1>1, <2>1 DEF Signed, Event
  <2>3. req' = [req EXCEPT ![q] = S]
    BY <2>1
  <2> HIDE DEF i
  <2>4. Opens(S, "findRepository")
    BY <2>2 DEF Opens, NoRequest, Request, Kinds
  <2> HIDE DEF S
  <2> QED
    BY <1>1, <2>1, <2>3, <2>4, OpensInv
<1> QED
  BY <1>2, <1>3, <1>4, <1>5, <1>6, <1>7 DEF Begin

\* GitHub sends what it likes.
LEMMA ChangeInv ==
  ASSUME SyncInv, NEW i \in Issues, NEW d \in Deliveries, Change(i, d)
  PROVE  SyncInv'
<1>1. PICK e \in Event : sent' = [sent EXCEPT ![d] = e]
  BY DEF Change
<1>2. /\ repository' = repository /\ task' = task /\ link' = link /\ delivery' = delivery
      /\ applied' = applied /\ pc' = pc /\ req' = req /\ holder' = holder /\ sharers' = sharers
  BY DEF Change, rows, locks
<1>3. TypeOK'
  BY <1>1, <1>2 DEF SyncInv, TypeOK, LocksTypeOK
<1>4. LockExclusion' /\ LinksAreConnected' /\ Counted' /\ FreshIds'
  BY <1>2 DEF SyncInv, LockExclusion, LinksAreConnected, Counted, FreshIds, At
<1>5. ASSUME NEW r \in Requests PROVE RequestInv(r)'
  <2>1. RequestInv(r)
    BY DEF SyncInv
  <2>2. (Shape(r) /\ Fields(r))'
    BY <1>2, <2>1 DEF RequestInv, Shape, Fields, HasConnection, At
  <2>3. (OwnTasks(r) /\ Rows(r))'
    BY <1>2, <2>1
       DEF RequestInv, OwnTasks, Keeps, Rows, Current, Referable, Linked, Follows, HasDelivery,
           SharesProject, At
  <2>4. OwnLocks(r)'
    BY <1>2, <2>1 DEF RequestInv, OwnLocks, HasProject, SharesProject, HasDelivery, At
  <2> QED
    BY <2>2, <2>3, <2>4 DEF RequestInv
<1> QED
  BY <1>3, <1>4, <1>5 DEF SyncInv

-----------------------------------------------------------------------------
(* The commits.                                                            *)

\* Of a request that has the Project of q and q itself, one waits for the other.
LEMMA Exclusive ==
  ASSUME SyncInv, NEW q \in Requests, NEW r \in Requests \ {q},
         HasProject(q), HasProject(r) \/ SharesProject(r)
  PROVE  req[r].project # req[q].project
<1> DEFINE x == <<"Project", req[q].project>>
<1>1. RequestInv(q) /\ RequestInv(r) /\ LockExclusion /\ TypeOK
  BY DEF SyncInv
<1>2. x \in LockRows
  BY <1>1 DEF RequestInv, Fields, HasProject, Locked, LockRows
<1>3. holder[x] = q
  BY <1>1 DEF RequestInv, OwnLocks
<1>4. req[r].project = req[q].project => holder[x] = r \/ r \in sharers[x]
  BY <1>1 DEF RequestInv, OwnLocks
<1> HIDE DEF x
<1>5. sharers[x] \subseteq {q}
  BY <1>1, <1>2, <1>3, SyncNoneAssumption DEF LockExclusion, TypeOK, LocksTypeOK
<1> QED
  BY <1>3, <1>4, <1>5

\* The Tasks of two requests that keep them differ, if one of them has the Project.
LEMMA TasksApart ==
  ASSUME SyncInv, NEW q \in Requests, NEW r \in Requests \ {q}, HasProject(q), Keeps(q), Keeps(r)
  PROVE  req[r].tasks \cap req[q].tasks = {}
<1>1. RequestInv(q) /\ RequestInv(r)
  BY DEF SyncInv
<1>2. HasProject(r) \/ SharesProject(r)
  BY <1>1 DEF Keeps, HasProject, SharesProject, At, Locked, RequestInv, Shape, Request
<1>3. req[r].project # req[q].project
  BY <1>2, Exclusive
<1>4. /\ \A t \in req[q].tasks : task[t] = [project |-> req[q].project]
      /\ \A t \in req[r].tasks : task[t] = [project |-> req[r].project]
  BY <1>1 DEF RequestInv, OwnTasks, Keeps
<1> QED
  BY <1>3, <1>4

\* So do the connections of two requests that count on theirs.
LEMMA ConnectionsApart ==
  ASSUME SyncInv, NEW q \in Requests, NEW r \in Requests \ {q}, HasProject(q), Current(q), Current(r)
  PROVE  req[r].connection # req[q].connection
<1>1. RequestInv(q) /\ RequestInv(r)
  BY DEF SyncInv
<1>2. HasProject(r) \/ SharesProject(r)
  BY <1>1 DEF Current, HasProject, SharesProject, At, Locked
<1>3. req[r].project # req[q].project
  BY <1>2, Exclusive
<1>4. Referable(q) /\ Referable(r)
  BY <1>1 DEF RequestInv, Rows
<1> QED
  BY <1>3, <1>4 DEF Referable

RowsTypeOK ==
  /\ repository \in [Connections ->
       {NoRepository} \cup [project : Projects, external : Externals]]
  /\ task \in [Tasks -> {NoTask} \cup [project : Projects]]
  /\ link \in [Tasks -> {NoLink} \cup [connection : Connections, issue : Issues]]
  /\ delivery \in [Deliveries -> [received : BOOLEAN, connection : Connections \cup {None}]]
  /\ applied \in [Deliveries -> Nat]

\* A commit keeps the invariant if the rows of the others stay.
LEMMA CommitKeeps ==
  ASSUME SyncInv, NEW q \in Requests, End(q),
         RowsTypeOK', LinksAreConnected', Counted',
         \A r \in Requests \ {q} :
           pc'[r] = pc[r] /\ req'[r] = req[r] => OwnTasks(r)' /\ Rows(r)'
  PROVE  SyncInv'
<1>1. /\ \A r \in Requests \ {q} : pc'[r] = pc[r] /\ req'[r] = req[r]
      /\ LockStep(q) /\ LocksTypeOK(LockRows, Requests)' /\ LockExclusion'
      /\ pc' \in [Requests -> PCs] /\ req' \in [Requests -> {NoRequest} \cup Request]
      /\ sent' = sent
      /\ RequestInv(q)' /\ FreshIds'
  BY EndKeeps
<1>2. TypeOK'
  <2>1. sent \in [Deliveries -> {NoEvent} \cup Event]
    BY DEF SyncInv, TypeOK
  <2> QED
    BY <1>1, <2>1 DEF TypeOK, RowsTypeOK
<1>3. \A r \in Requests \ {q} : RequestInv(r)'
  BY <1>1, OthersStay
<1> QED
  BY <1>1, <1>2, <1>3 DEF SyncInv

\* A new connection has a new id.
LEMMA CommitConnectInv ==
  ASSUME SyncInv, NEW q \in Requests, CommitConnect(q)
  PROVE  SyncInv'
<1> DEFINE x == req[q].connection
           row == [project |-> req[q].project, external |-> req[q].external]
<1>1. At(q, "connect") /\ RequestInv(q) /\ TypeOK /\ FreshIds
  BY DEF CommitConnect, SyncInv
<1>2. /\ req[q].project \in Projects /\ req[q].external \in Externals /\ x \in Connections
      /\ repository[x] = NoRepository
  BY <1>1 DEF RequestInv, Fields, HasConnection, Rows, At
<1>3. /\ repository' = [repository EXCEPT ![x] = row]
      /\ task' = task /\ link' = link /\ delivery' = delivery /\ applied' = applied
      /\ End(q)
  BY DEF CommitConnect
<1>4. row \in [project : Projects, external : Externals]
  BY <1>2
<1>5. \A r \in Requests \ {q} : req[r].connection # x
  BY <1>1 DEF FreshIds
<1> HIDE DEF x, row
<1>6. \A y \in Connections \ {x} : repository'[y] = repository[y]
  BY <1>1, <1>3 DEF TypeOK
<1>7. RowsTypeOK'
  BY <1>1, <1>2, <1>3, <1>4 DEF TypeOK, RowsTypeOK
<1>8. LinksAreConnected'
  <2> SUFFICES ASSUME NEW t \in Tasks, link[t] # NoLink
               PROVE  task[t] # NoTask /\ repository'[link[t].connection].project = task[t].project
    BY <1>3 DEF LinksAreConnected
  <2>1. /\ task[t] # NoTask /\ repository[link[t].connection].project = task[t].project
        /\ link[t].connection \in Connections
    BY <1>1 DEF SyncInv, LinksAreConnected, TypeOK
  <2>2. task[t].project \in Projects
    BY <1>1, <2>1 DEF TypeOK
  <2>3. link[t].connection # x
    BY <1>2, <2>1, <2>2, SyncNoneAssumption DEF NoRepository
  <2> QED
    BY <1>6, <2>1, <2>3
<1>9. Counted'
  BY <1>3 DEF SyncInv, Counted
<1>10. ASSUME NEW r \in Requests \ {q}, pc'[r] = pc[r], req'[r] = req[r]
       PROVE  OwnTasks(r)' /\ Rows(r)'
  <2>1. RequestInv(r)
    BY DEF SyncInv
  <2>2. OwnTasks(r)'
    BY <1>3, <1>10, <2>1 DEF RequestInv, OwnTasks, Keeps
  <2>3. /\ Current(r) \/ At(r, "connect") => req[r].connection \in Connections
        /\ Current(r)' <=> Current(r)
    BY <1>10, <2>1 DEF RequestInv, Shape, Fields, HasConnection, Current, At, Following
  <2>4. Rows(r)'
    BY <1>3, <1>5, <1>6, <1>10, <2>1, <2>3
       DEF RequestInv, Rows, Referable, Linked, Follows, HasDelivery, SharesProject, At
  <2> QED
    BY <2>2, <2>4
<1> QED
  BY <1>3, <1>7, <1>8, <1>9, <1>10, CommitKeeps

\* A connection goes with all its links.
LEMMA CommitDisconnectInv ==
  ASSUME SyncInv, NEW q \in Requests, CommitDisconnect(q)
  PROVE  SyncInv'
<1> DEFINE x == req[q].connection
           T == req[q].tasks
<1>1. At(q, "disconnect") /\ RequestInv(q) /\ TypeOK /\ Counted
  BY DEF CommitDisconnect, SyncInv
<1>2. x \in Connections /\ Linked(x) \subseteq T
  BY <1>1 DEF RequestInv, Fields, HasConnection, Rows, At
<1>3. HasProject(q) /\ Keeps(q) /\ Current(q)
  BY <1>1 DEF HasProject, Keeps, Current, At
<1>4. /\ repository' = [repository EXCEPT ![x] = NoRepository]
      /\ link' = [t \in Tasks |-> IF t \in T THEN NoLink ELSE link[t]]
      /\ delivery' = [d \in Deliveries |->
           IF delivery[d].connection = x
           THEN [delivery[d] EXCEPT !.connection = None] ELSE delivery[d]]
      /\ task' = task /\ applied' = applied
      /\ End(q)
  BY DEF CommitDisconnect
<1> HIDE DEF x, T
<1>5. /\ \A y \in Connections \ {x} : repository'[y] = repository[y]
      /\ \A t \in Tasks : /\ t \in T => link'[t] = NoLink
                          /\ t \notin T => link'[t] = link[t]
  BY <1>1, <1>4 DEF TypeOK
<1>6. ASSUME NEW d \in Deliveries
      PROVE  /\ delivery'[d] \in [received : BOOLEAN, connection : Connections \cup {None}]
             /\ delivery'[d].received = delivery[d].received
             /\ delivery[d] = NoDelivery => delivery'[d] = NoDelivery
  <2> DEFINE D == delivery[d]
  <2>1. D \in [received : BOOLEAN, connection : Connections \cup {None}]
    BY <1>1 DEF TypeOK
  <2>2. delivery'[d] = IF D.connection = x THEN [D EXCEPT !.connection = None] ELSE D
    BY <1>4
  <2>3. D = NoDelivery => D.connection # x
    BY <1>2, SyncNoneAssumption DEF NoDelivery
  <2> HIDE DEF D
  <2>4. /\ [D EXCEPT !.connection = None] \in [received : BOOLEAN, connection : Connections \cup {None}]
        /\ [D EXCEPT !.connection = None].received = D.received
    BY <2>1
  <2>5. /\ delivery'[d] \in [received : BOOLEAN, connection : Connections \cup {None}]
        /\ delivery'[d].received = D.received
        /\ D = NoDelivery => delivery'[d] = NoDelivery
    BY <2>1, <2>2, <2>3, <2>4, Zenon
  <2> QED
    BY <2>5 DEF D
<1>7. RowsTypeOK'
  <2>1. delivery' \in [Deliveries -> [received : BOOLEAN, connection : Connections \cup {None}]]
    BY <1>4, <1>6
  <2> QED
    BY <1>1, <1>4, <2>1 DEF TypeOK, RowsTypeOK
<1>8. LinksAreConnected'
  <2> SUFFICES ASSUME NEW t \in Tasks, link'[t] # NoLink
               PROVE  task[t] # NoTask /\ repository'[link'[t].connection].project = task[t].project
    BY <1>4 DEF LinksAreConnected
  <2>1. t \notin T /\ link'[t] = link[t]
    BY <1>5
  <2>2. /\ task[t] # NoTask /\ repository[link[t].connection].project = task[t].project
        /\ link[t].connection \in Connections
    BY <1>1, <2>1 DEF SyncInv, LinksAreConnected, TypeOK
  <2>3. link[t].connection # x
    BY <1>2, <2>1 DEF Linked
  <2> QED
    BY <1>5, <2>1, <2>2, <2>3
<1>9. Counted'
  BY <1>1, <1>4, <1>6 DEF Counted
<1>10. ASSUME NEW r \in Requests \ {q}, pc'[r] = pc[r], req'[r] = req[r]
       PROVE  OwnTasks(r)' /\ Rows(r)'
  <2>1. RequestInv(r)
    BY DEF SyncInv
  <2>2. OwnTasks(r)'
    BY <1>4, <1>10, <2>1 DEF RequestInv, OwnTasks, Keeps
  <2>3. Current(r) => req[r].connection # x /\ req[r].connection \in Connections
    BY <1>3, <2>1, ConnectionsApart
       DEF x, RequestInv, Shape, Fields, HasConnection, Current, At, Following
  <2>4. Keeps(r) => req[r].tasks \cap T = {}
    BY <1>3, TasksApart DEF T
  <2>5. /\ Current(r)' <=> Current(r)
        /\ HasDelivery(r)' <=> HasDelivery(r)
        /\ At(r, "connect")' <=> At(r, "connect")
        /\ At(r, "disconnect")' <=> At(r, "disconnect")
    BY <1>10 DEF Current, HasDelivery, SharesProject, At
  <2>6. Current(r) => Referable(r)'
    BY <1>5, <1>10, <2>1, <2>3 DEF RequestInv, Rows, Referable
  <2>7. pc[r] = "deleteRepository" \/ At(r, "disconnect") =>
          Linked(req[r].connection)' \subseteq req[r].tasks
    <3> SUFFICES ASSUME pc[r] = "deleteRepository" \/ At(r, "disconnect")
                 PROVE  Linked(req[r].connection)' \subseteq req[r].tasks
      OBVIOUS
    <3>1. req[r].connection \in Connections /\ Linked(req[r].connection) \subseteq req[r].tasks
      BY <2>1, <2>3 DEF RequestInv, Rows, Current, At
    <3> QED
      BY <1>5, <1>10, <3>1, SyncNoneAssumption DEF Linked, NoLink
  <2>8. At(r, "connect") => repository'[req[r].connection] = NoRepository
    <3> SUFFICES ASSUME At(r, "connect")
                 PROVE  repository'[req[r].connection] = NoRepository
      OBVIOUS
    <3>1. req[r].connection \in Connections /\ repository[req[r].connection] = NoRepository
      BY <2>1 DEF RequestInv, Fields, HasConnection, Rows
    <3> QED
      BY <1>1, <1>4, <3>1 DEF TypeOK
  <2>9. pc[r] \in {"updateIssue", "updateTask"} => \A t \in req[r].tasks : Follows(r, t)'
    <3> SUFFICES ASSUME pc[r] \in {"updateIssue", "updateTask"}, NEW t \in req[r].tasks
                 PROVE  Follows(r, t)'
      OBVIOUS
    <3>1. t \in Tasks /\ Follows(r, t) /\ Keeps(r)
      BY <2>1 DEF RequestInv, Shape, Rows, Keeps, Following, Request
    <3> QED
      BY <1>5, <1>10, <2>4, <3>1 DEF Follows
  <2>10. HasDelivery(r) => delivery'[req[r].delivery] = NoDelivery
    BY <1>6, <2>1 DEF RequestInv, Shape, Fields, Rows, HasDelivery, SharesProject, At, Following
  <2>11. Rows(r)'
    BY <1>10, <2>5, <2>6, <2>7, <2>8, <2>9, <2>10 DEF Rows
  <2> QED
    BY <2>2, <2>11
<1> QED
  BY <1>4, <1>7, <1>8, <1>9, <1>10, CommitKeeps

\* What a commit leaves to another request, whose Tasks it does not touch and whose
\* connection gets no link.
LEMMA LinksOfOthersStay ==
  ASSUME SyncInv, NEW q \in Requests, NEW r \in Requests \ {q}, NEW T \in SUBSET Tasks,
         pc'[r] = pc[r], req'[r] = req[r], repository' = repository, delivery' = delivery,
         \A t \in Tasks \ T : link'[t] = link[t],
         \A t \in T : ~Current(r) \/ link'[t].connection # req[r].connection,
         Keeps(r) => req[r].tasks \cap T = {}
  PROVE  Rows(r)'
<1>1. RequestInv(r)
  BY DEF SyncInv
<1>2. /\ Current(r)' <=> Current(r)
      /\ HasDelivery(r)' <=> HasDelivery(r)
      /\ At(r, "connect")' <=> At(r, "connect")
      /\ At(r, "disconnect")' <=> At(r, "disconnect")
  BY DEF Current, HasDelivery, SharesProject, At
<1>3. /\ Current(r) => Referable(r)'
      /\ At(r, "connect") => repository'[req[r].connection] = NoRepository
      /\ HasDelivery(r) => delivery'[req[r].delivery] = NoDelivery
  BY <1>1 DEF RequestInv, Rows, Referable
<1>4. pc[r] = "deleteRepository" \/ At(r, "disconnect") =>
        Linked(req[r].connection)' \subseteq req[r].tasks
  <2> SUFFICES ASSUME pc[r] = "deleteRepository" \/ At(r, "disconnect")
               PROVE  Linked(req[r].connection)' \subseteq req[r].tasks
    OBVIOUS
  <2>1. Current(r) /\ Linked(req[r].connection) \subseteq req[r].tasks
    BY <1>1 DEF RequestInv, Rows, Current, At
  <2> QED
    BY <2>1 DEF Linked
<1>5. pc[r] \in {"updateIssue", "updateTask"} => \A t \in req[r].tasks : Follows(r, t)'
  <2> SUFFICES ASSUME pc[r] \in {"updateIssue", "updateTask"}, NEW t \in req[r].tasks
               PROVE  Follows(r, t)'
    OBVIOUS
  <2>1. t \in Tasks /\ Follows(r, t) /\ Keeps(r)
    BY <1>1 DEF RequestInv, Shape, Rows, Keeps, Following, Request
  <2> QED
    BY <2>1 DEF Follows
<1> QED
  BY <1>2, <1>3, <1>4, <1>5 DEF Rows

\* A link is with the connection of its Project, and an imported Task is new.
LEMMA CommitLinkInv ==
  ASSUME SyncInv, NEW q \in Requests, CommitLink(q)
  PROVE  SyncInv'
<1> DEFINE x == req[q].connection
           T == req[q].tasks
           row == [connection |-> x, issue |-> req[q].issue]
           new == [project |-> req[q].project]
<1>1. /\ pc[q] = "commit" /\ req[q].kind \in {"link", "import"}
      /\ RequestInv(q) /\ TypeOK /\ LinksAreConnected /\ FreshIds
  BY DEF CommitLink, SyncInv, At
<1>2. /\ x \in Connections /\ req[q].issue \in Issues /\ req[q].project \in Projects
      /\ repository[x].project = req[q].project /\ T \subseteq Tasks
  BY <1>1 DEF RequestInv, Shape, Fields, HasConnection, Rows, Current, Referable, At, Request
<1>3. HasProject(q) /\ Current(q) /\ (req[q].kind = "link" => Keeps(q))
  BY <1>1 DEF HasProject, Keeps, Current, At
<1>4. /\ link' = [t \in Tasks |-> IF t \in T THEN row ELSE link[t]]
      /\ task' = [t \in Tasks |-> IF t \in T THEN new ELSE task[t]]
      /\ repository' = repository /\ delivery' = delivery /\ applied' = applied
      /\ End(q)
  BY DEF CommitLink
<1>5. /\ row \in [connection : Connections, issue : Issues] /\ row.connection = x
      /\ new \in [project : Projects] /\ new.project = req[q].project /\ new # NoTask
  BY <1>2, SyncNoneAssumption DEF NoTask
<1>6. /\ req[q].kind = "link" => \A t \in T : task[t] = new
      /\ req[q].kind = "import" => \A r \in Requests \ {q} : req[r].tasks \cap T = {}
  BY <1>1, <1>3 DEF RequestInv, OwnTasks, Keeps, FreshIds
<1> HIDE DEF x, T, row, new
<1>7. \A t \in Tasks : /\ t \in T => link'[t] = row /\ task'[t] = new
                       /\ t \notin T => link'[t] = link[t] /\ task'[t] = task[t]
  BY <1>4
<1>8. RowsTypeOK'
  BY <1>1, <1>4, <1>5 DEF TypeOK, RowsTypeOK
<1>9. LinksAreConnected'
  BY <1>1, <1>2, <1>4, <1>5, <1>7 DEF LinksAreConnected
<1>10. Counted'
  BY <1>4 DEF SyncInv, Counted
<1>11. ASSUME NEW r \in Requests \ {q}, pc'[r] = pc[r], req'[r] = req[r]
       PROVE  OwnTasks(r)' /\ Rows(r)'
  <2>1. RequestInv(r) /\ req[r].tasks \subseteq Tasks
    BY DEF SyncInv, TypeOK, NoRequest, Request
  <2>2. \A t \in req[r].tasks : task'[t] = task[t]
    BY <1>1, <1>6, <1>7, <2>1
  <2>3. OwnTasks(r)'
    BY <1>11, <2>1, <2>2 DEF RequestInv, OwnTasks, Keeps
  <2>4. Current(r) => req[r].connection # x
    BY <1>3, ConnectionsApart DEF x
  <2>5. Keeps(r) => req[r].tasks \cap T = {}
    BY <1>1, <1>3, <1>6, TasksApart DEF T
  <2>6. /\ \A t \in Tasks \ T : link'[t] = link[t]
        /\ \A t \in T : ~Current(r) \/ link'[t].connection # req[r].connection
    BY <1>2, <1>5, <1>7, <2>4
  <2>7. Rows(r)'
    BY <1>2, <1>4, <1>11, <2>5, <2>6, LinksOfOthersStay
  <2> QED
    BY <2>3, <2>7
<1> QED
  BY <1>4, <1>8, <1>9, <1>10, <1>11, CommitKeeps

\* The link of a Task goes, and with "remove" the Task.
LEMMA CommitRemovalInv ==
  ASSUME SyncInv, NEW q \in Requests, CommitRemoval(q)
  PROVE  SyncInv'
<1> DEFINE T == req[q].tasks
<1>1. /\ pc[q] = "commit" /\ req[q].kind \in {"unlink", "remove"}
      /\ RequestInv(q) /\ TypeOK /\ LinksAreConnected
  BY DEF CommitRemoval, SyncInv, At
<1>2. HasProject(q) /\ Keeps(q) /\ T \subseteq Tasks
  BY <1>1 DEF HasProject, Keeps, RequestInv, Shape, Request
<1>3. /\ link' = [t \in Tasks |-> IF t \in T THEN NoLink ELSE link[t]]
      /\ task' = [t \in Tasks |-> IF t \in T /\ req[q].kind = "remove" THEN NoTask ELSE task[t]]
      /\ repository' = repository /\ delivery' = delivery /\ applied' = applied
      /\ End(q)
  BY DEF CommitRemoval
<1> HIDE DEF T
<1>4. \A t \in Tasks : /\ t \in T => link'[t] = NoLink /\ task'[t] \in {NoTask, task[t]}
                       /\ t \notin T => link'[t] = link[t] /\ task'[t] = task[t]
  BY <1>3
<1>5. RowsTypeOK'
  BY <1>1, <1>3 DEF TypeOK, RowsTypeOK
<1>6. LinksAreConnected'
  BY <1>1, <1>3, <1>4 DEF LinksAreConnected
<1>7. Counted'
  BY <1>3 DEF SyncInv, Counted
<1>8. ASSUME NEW r \in Requests \ {q}, pc'[r] = pc[r], req'[r] = req[r]
      PROVE  OwnTasks(r)' /\ Rows(r)'
  <2>1. RequestInv(r) /\ req[r].tasks \subseteq Tasks
    BY DEF SyncInv, TypeOK, NoRequest, Request
  <2>2. Keeps(r) => req[r].tasks \cap T = {}
    BY <1>2, TasksApart DEF T
  <2>3. OwnTasks(r)'
    <3>1. \A t \in req[r].tasks : /\ task'[t] \in {NoTask, task[t]}
                                  /\ Keeps(r) => task'[t] = task[t]
      BY <1>4, <2>1, <2>2
    <3>2. Keeps(r)' <=> Keeps(r)
      BY <1>8 DEF Keeps
    <3> QED
      BY <1>8, <2>1, <3>1, <3>2 DEF RequestInv, OwnTasks
  <2>4. Current(r) => req[r].connection \in Connections
    BY <2>1 DEF RequestInv, Shape, Fields, HasConnection, Current, At, Following
  <2>5. /\ \A t \in Tasks \ T : link'[t] = link[t]
        /\ \A t \in T : ~Current(r) \/ link'[t].connection # req[r].connection
    BY <1>2, <1>4, <2>4, SyncNoneAssumption DEF NoLink
  <2>6. Rows(r)'
    BY <1>2, <1>3, <1>8, <2>2, <2>5, LinksOfOthersStay
  <2> QED
    BY <2>3, <2>6
<1> QED
  BY <1>3, <1>5, <1>6, <1>7, <1>8, CommitKeeps

\* A delivery is counted with its row, which had not been there.
LEMMA CommitWebhookInv ==
  ASSUME SyncInv, NEW q \in Requests, CommitWebhook(q)
  PROVE  SyncInv'
<1> DEFINE d == req[q].delivery
           row == [received |-> TRUE, connection |-> req[q].connection]
<1>1. At(q, "webhook") /\ RequestInv(q) /\ TypeOK /\ Counted
  BY DEF CommitWebhook, SyncInv
<1>2. /\ d \in Deliveries /\ req[q].connection \in Connections /\ delivery[d] = NoDelivery
      /\ HasDelivery(q)
  BY <1>1 DEF RequestInv, Fields, HasConnection, Rows, HasDelivery, SharesProject, At
<1>3. /\ delivery' = [delivery EXCEPT ![d] = row]
      /\ applied' = [applied EXCEPT ![d] = @ + 1]
      /\ repository' = repository /\ task' = task /\ link' = link
      /\ End(q)
  BY DEF CommitWebhook
<1>4. row \in [received : BOOLEAN, connection : Connections \cup {None}] /\ row.received
  BY <1>2
<1>5. ~NoDelivery.received
  BY DEF NoDelivery
<1>6. \A r \in Requests \ {q} : HasDelivery(r) => req[r].delivery # d
  <2> SUFFICES ASSUME NEW r \in Requests \ {q}, HasDelivery(r) PROVE req[r].delivery # d
    OBVIOUS
  <2>1. holder[<<"Delivery", req[r].delivery>>] = r
    BY DEF SyncInv, RequestInv, OwnLocks
  <2>2. holder[<<"Delivery", req[q].delivery>>] = q
    BY <1>1, <1>2 DEF RequestInv, OwnLocks
  <2> QED
    BY <2>1, <2>2
<1> HIDE DEF d, row
<1>7. /\ delivery'[d] = row /\ applied'[d] = applied[d] + 1
      /\ \A e \in Deliveries \ {d} : delivery'[e] = delivery[e] /\ applied'[e] = applied[e]
  BY <1>1, <1>2, <1>3 DEF TypeOK
<1>8. RowsTypeOK'
  BY <1>1, <1>2, <1>3, <1>4 DEF TypeOK, RowsTypeOK
<1>9. LinksAreConnected'
  BY <1>3 DEF SyncInv, LinksAreConnected
<1>10. Counted'
  BY <1>1, <1>2, <1>4, <1>5, <1>7 DEF Counted
<1>11. ASSUME NEW r \in Requests \ {q}, pc'[r] = pc[r], req'[r] = req[r]
       PROVE  OwnTasks(r)' /\ Rows(r)'
  <2>1. RequestInv(r)
    BY DEF SyncInv
  <2>2. OwnTasks(r)'
    BY <1>3, <1>11, <2>1 DEF RequestInv, OwnTasks, Keeps
  <2>3. HasDelivery(r) => delivery'[req[r].delivery] = NoDelivery
    <3>1. HasDelivery(r) => req[r].delivery \in Deliveries
      BY <2>1 DEF RequestInv, Shape, Fields, HasDelivery, SharesProject, At, Following
    <3> QED
      BY <1>6, <1>7, <2>1, <3>1 DEF RequestInv, Rows
  <2>4. Rows(r)'
    <3>1. HasDelivery(r)' <=> HasDelivery(r)
      BY <1>11 DEF HasDelivery, SharesProject, At
    <3> QED
      BY <1>3, <1>11, <2>1, <2>3, <3>1
         DEF RequestInv, Rows, Current, Referable, Linked, Follows, At
  <2> QED
    BY <2>2, <2>4
<1> QED
  BY <1>3, <1>8, <1>9, <1>10, <1>11, CommitKeeps

-----------------------------------------------------------------------------
(* The invariant, and what follows from it.                                *)

\* The invariant holds of the empty tables.
LEMMA InitInv == Init => SyncInv
<1> SUFFICES ASSUME Init PROVE SyncInv
  OBVIOUS
<1>1. /\ repository = [x \in Connections |-> NoRepository]
      /\ task \in [Tasks -> {NoTask} \cup [project : Projects]]
      /\ link = [t \in Tasks |-> NoLink]
      /\ delivery = [d \in Deliveries |-> NoDelivery]
      /\ applied = [d \in Deliveries |-> 0]
      /\ sent = [d \in Deliveries |-> NoEvent]
      /\ pc = [r \in Requests |-> "idle"]
      /\ req = [r \in Requests |-> NoRequest]
      /\ holder = [x \in LockRows |-> None]
      /\ sharers = [x \in LockRows |-> {}]
  BY DEF Init, LocksInit
<1>2. NoDelivery \in [received : BOOLEAN, connection : Connections \cup {None}]
      /\ ~NoDelivery.received
  BY DEF NoDelivery
<1>3. TypeOK
  <2>1. LocksTypeOK(LockRows, Requests)
    BY <1>1 DEF LocksTypeOK
  <2> QED
    BY <1>1, <1>2, <2>1 DEF TypeOK, PCs
<1>4. LockExclusion
  BY <1>1 DEF LockExclusion
<1>5. LinksAreConnected /\ Counted
  BY <1>1, <1>2 DEF LinksAreConnected, Counted
<1>6. NoRequest.kind = None /\ NoRequest.tasks = {} /\ None \notin Kinds
  BY SyncNoneAssumption DEF NoRequest
<1>7. FreshIds
  BY <1>1, <1>6 DEF FreshIds, At
<1>8. ASSUME NEW r \in Requests PROVE RequestInv(r)
  <2>1. pc[r] = "idle" /\ req[r] = NoRequest
    BY <1>1
  <2>2. Shape(r) /\ Fields(r)
    BY <1>6, <2>1 DEF Shape, Fields, HasConnection, At, Following, Kinds
  <2>3. OwnTasks(r) /\ Rows(r) /\ OwnLocks(r)
    BY <1>6, <2>1
       DEF OwnTasks, Rows, Current, OwnLocks, HasProject, SharesProject, HasDelivery, At, Locked
  <2> QED
    BY <2>2, <2>3 DEF RequestInv
<1> QED
  BY <1>3, <1>4, <1>5, <1>7, <1>8 DEF SyncInv

\* Every step keeps it, of whichever request.
LEMMA NextInv == SyncInv /\ [Next]_vars => SyncInv'
<1> SUFFICES ASSUME SyncInv, [Next]_vars PROVE SyncInv'
  OBVIOUS
<1>1. CASE UNCHANGED vars
  <2>1. /\ repository' = repository /\ task' = task /\ link' = link /\ delivery' = delivery
        /\ applied' = applied /\ sent' = sent /\ pc' = pc /\ req' = req
        /\ holder' = holder /\ sharers' = sharers
    BY <1>1 DEF vars, rows, locks
  <2>2. TypeOK' /\ LockExclusion'
    BY <2>1 DEF SyncInv, TypeOK, LocksTypeOK, LockExclusion
  <2>3. LinksAreConnected' /\ Counted' /\ FreshIds'
    BY <2>1 DEF SyncInv, LinksAreConnected, Counted, FreshIds, At
  <2>4. ASSUME NEW r \in Requests PROVE RequestInv(r)'
    <3>1. RequestInv(r)
      BY DEF SyncInv
    <3>2. (Shape(r) /\ Fields(r))'
      BY <2>1, <3>1 DEF RequestInv, Shape, Fields, HasConnection, At
    <3>3. (OwnTasks(r) /\ Rows(r))'
      BY <2>1, <3>1
         DEF RequestInv, OwnTasks, Keeps, Rows, Current, Referable, Linked, Follows, HasDelivery,
             SharesProject, At
    <3>4. OwnLocks(r)'
      BY <2>1, <3>1 DEF RequestInv, OwnLocks, HasProject, SharesProject, HasDelivery, At
    <3> QED
      BY <3>2, <3>3, <3>4 DEF RequestInv
  <2> QED
    BY <2>2, <2>3, <2>4 DEF SyncInv
<1>2. ASSUME NEW q \in Requests, Begin(q) PROVE SyncInv'
  BY <1>2, BeginInv
<1>3. ASSUME NEW q \in Requests, Fail(q) PROVE SyncInv'
  BY <1>3, RollbackInv DEF Fail
<1>4. ASSUME NEW q \in Requests, Step(q) PROVE SyncInv'
  <2>1. CASE ResolveTask(q) \/ FindConnected(q) \/ FetchIssue(q) \/ LockProject(q)
    BY <2>1, ResolveTaskInv, FindConnectedInv, FetchIssueInv, LockProjectInv
  <2>2. CASE CheckFree(q) \/ InsertRepository(q) \/ FindConnection(q) \/ AssertCurrent(q)
    BY <2>2, CheckFreeInv, InsertRepositoryInv, FindConnectionInv, AssertCurrentInv
  <2>3. CASE InsertLink(q) \/ FindLink(q) \/ LockTask(q) \/ DeleteLinks(q) \/ DeleteRepository(q)
    BY <2>3, InsertLinkInv, FindLinkInv, LockTaskInv, DeleteLinksInv, DeleteRepositoryInv
  <2>4. CASE FindRepository(q) \/ FindDelivery(q) \/ InsertDelivery(q) \/ Refer(q)
    BY <2>4, FindRepositoryInv, FindDeliveryInv, InsertDeliveryInv, ReferInv
  <2>5. CASE FindIssue(q) \/ UpdateIssue(q) \/ UpdateTask(q)
    BY <2>5, FindIssueInv, UpdateIssueInv, UpdateTaskInv
  <2>6. CASE CommitConnect(q) \/ CommitDisconnect(q) \/ CommitLink(q) \/ CommitRemoval(q)
    BY <2>6, CommitConnectInv, CommitDisconnectInv, CommitLinkInv, CommitRemovalInv
  <2>7. CASE CommitWebhook(q)
    BY <2>7, CommitWebhookInv
  <2> QED
    BY <1>4, <2>1, <2>2, <2>3, <2>4, <2>5, <2>6, <2>7 DEF Step
<1>5. ASSUME NEW i \in Issues, NEW d \in Deliveries, Change(i, d) PROVE SyncInv'
  BY <1>5, ChangeInv
<1> QED
  BY <1>1, <1>2, <1>3, <1>4, <1>5 DEF Next

\* The inductive invariant: what a request has read and locked is still true of
\* the rows when it writes.
THEOREM SyncInvariance == Spec => []SyncInv
<1> QED
  BY InitInv, NextInv, PTL DEF Spec

\* The tables, the requests and the locks are what the schema lets them be, and
\* every link is with the repository that the Project of its Task is connected with.
THEOREM SyncTypeCorrect == Spec => [](TypeOK /\ LinksAreConnected)
<1>1. SyncInv => TypeOK /\ LinksAreConnected
  BY DEF SyncInv
<1> QED
  BY <1>1, SyncInvariance, PTL

\* However often GitHub sends a delivery, also twice at once and across a new
\* connection, GithubIssuesService applies it at most once.
THEOREM DeliveriesApplyOnce == Spec => []AppliedOnce
<1>1. SyncInv => AppliedOnce
  BY DEF SyncInv, Counted, AppliedOnce
<1> QED
  BY <1>1, SyncInvariance, PTL

\* The Issue row that a webhook has found stays until it is updated, with its Task,
\* although the webhook locks neither before.
THEOREM WebhooksFindTheirRows == Spec => []SyncFindsItsRows
<1>1. SyncInv => SyncFindsItsRows
  <2> SUFFICES ASSUME SyncInv, NEW r \in Requests
               PROVE  /\ pc[r] \in {"updateIssue", "updateTask"} =>
                           \A t \in req[r].tasks : Follows(r, t)
                      /\ pc[r] = "updateTask" => \A t \in req[r].tasks : task[t] # NoTask
    BY DEF SyncFindsItsRows
  <2>1. RequestInv(r)
    BY DEF SyncInv
  <2>2. pc[r] = "updateTask" => Keeps(r)
    BY <2>1 DEF RequestInv, Shape, Following, Keeps
  <2> QED
    BY <2>1, <2>2 DEF RequestInv, Rows, OwnTasks
<1> QED
  BY <1>1, SyncInvariance, PTL

\* No foreign key refuses a user: a link is inserted for the connection that its
\* Issue was fetched from, and a repository is disconnected with all its links.
THEOREM KeysHold == Spec => []ForeignKeysHold
<1>1. SyncInv => ForeignKeysHold
  <2> SUFFICES ASSUME SyncInv, NEW r \in Requests
               PROVE  /\ pc[r] = "insertLink" =>
                           Referable(r) /\ \A t \in req[r].tasks : task[t] # NoTask
                      /\ pc[r] = "deleteRepository" =>
                           Linked(req[r].connection) \subseteq req[r].tasks
    BY DEF ForeignKeysHold
  <2>1. RequestInv(r)
    BY DEF SyncInv
  <2>2. pc[r] = "insertLink" => Current(r) /\ (Keeps(r) \/ req[r].tasks = {})
    BY <2>1 DEF RequestInv, Shape, Fields, Current, Keeps
  <2> QED
    BY <2>1, <2>2 DEF RequestInv, Rows, OwnTasks
<1> QED
  BY <1>1, SyncInvariance, PTL

-----------------------------------------------------------------------------
(* Deadlocks.                                                              *)

\* The rows that r can have locked: by the statements that it has behind it.
HeldBy(r, x) ==
  \/ x = <<"Project", req[r].project>> /\ HasProject(r)
  \/ x = <<"Delivery", req[r].delivery>> /\ HasDelivery(r)
  \/ /\ x \in {"Task"} \X req[r].tasks
     /\ At(r, "webhook") \/ (req[r].kind = "remove" /\ pc[r] \in {"deleteLinks", "commit"})
  \/ /\ x \in {"Issue"} \X req[r].tasks
     /\ pc[r] \in {"deleteRepository", "updateTask", "commit"}
  \/ /\ x \in ({"Repository"} \X Connections) \cup ({"External"} \X Externals)
     /\ pc[r] = "commit"

SharedBy(r, x) ==
  \/ x = <<"Project", req[r].project>> /\ SharesProject(r)
  \/ /\ x \in {"Repository"} \X Connections
     /\ pc[r] \in {"findIssue", "updateIssue", "updateTask", "commit"}
  \/ x \in {"Task"} \X Tasks /\ pc[r] = "commit"

Holds(r) ==
  \A x \in LockRows : /\ holder[x] = r => HeldBy(r, x)
                      /\ r \in sharers[x] => SharedBy(r, x)

LockInv == \A r \in Requests : Holds(r)

\* The rows that the next statement of r waits for, statement by statement.
LEMMA WantsIs ==
  ASSUME NEW r \in Requests
  PROVE  /\ pc[r] = "lockProject" => Wants(r) = {<<"Project", req[r].project>>}
         /\ pc[r] = "insertRepository" => Wants(r) = {<<"External", req[r].external>>}
         /\ pc[r] \in {"lockTask", "updateTask"} => Wants(r) = {"Task"} \X req[r].tasks
         /\ pc[r] = "deleteLinks" =>
              Wants(r) = {"Issue"} \X (IF req[r].kind = "disconnect" THEN Linked(req[r].connection)
                                       ELSE req[r].tasks)
         /\ pc[r] = "deleteRepository" =>
              Wants(r) = {<<"Repository", req[r].connection>>, <<"External", req[r].external>>}
         /\ pc[r] = "insertDelivery" => Wants(r) = {<<"Delivery", req[r].delivery>>}
         /\ pc[r] = "updateIssue" => Wants(r) = {"Issue"} \X req[r].tasks
         /\ pc[r] \notin {"lockProject", "insertRepository", "lockTask", "updateTask", "deleteLinks",
                          "deleteRepository", "insertDelivery", "updateIssue"} => Wants(r) = {}
<1> DEFINE disconnected == IF req[r].kind = "disconnect" THEN Linked(req[r].connection)
                           ELSE req[r].tasks
           A == {<<"Project", req[r].project>>}
           B == {<<"External", req[r].external>>}
           C == {"Task"} \X req[r].tasks
           D == {"Issue"} \X disconnected
           E == {<<"Repository", req[r].connection>>, <<"External", req[r].external>>}
           F == {<<"Delivery", req[r].delivery>>}
           G == {"Issue"} \X req[r].tasks
           p == pc[r]
<1>1. Wants(r) = CASE p = "lockProject" -> A
                   [] p = "insertRepository" -> B
                   [] p \in {"lockTask", "updateTask"} -> C
                   [] p = "deleteLinks" -> D
                   [] p = "deleteRepository" -> E
                   [] p = "insertDelivery" -> F
                   [] p = "updateIssue" -> G
                   [] OTHER -> {}
  BY DEF Wants
<1>2. /\ p = "lockProject" => Wants(r) = A
      /\ p = "insertRepository" => Wants(r) = B
      /\ p \in {"lockTask", "updateTask"} => Wants(r) = C
      /\ p = "deleteLinks" => Wants(r) = D
      /\ p = "deleteRepository" => Wants(r) = E
      /\ p = "insertDelivery" => Wants(r) = F
      /\ p = "updateIssue" => Wants(r) = G
      /\ p \notin {"lockProject", "insertRepository", "lockTask", "updateTask", "deleteLinks",
                   "deleteRepository", "insertDelivery", "updateIssue"} => Wants(r) = {}
  <2> HIDE DEF A, B, C, D, E, F, G, p
  <2> QED
    BY <1>1
<1> QED
  BY <1>2

\* The rows that it refers to.
LEMMA RefersToIs ==
  ASSUME NEW r \in Requests
  PROVE  /\ pc[r] = "referProject" => RefersTo(r) = {<<"Project", req[r].project>>}
         /\ pc[r] = "referRepository" => RefersTo(r) = {<<"Repository", req[r].connection>>}
         /\ pc[r] = "insertLink" =>
              RefersTo(r) = {<<"Repository", req[r].connection>>} \cup ({"Task"} \X req[r].tasks)
         /\ pc[r] \notin {"referProject", "referRepository", "insertLink"} => RefersTo(r) = {}
<1> DEFINE A == {Reference(r)}
           B == {<<"Repository", req[r].connection>>} \cup ({"Task"} \X req[r].tasks)
           p == pc[r]
<1>1. RefersTo(r) = CASE p \in {"referProject", "referRepository"} -> A
                      [] p = "insertLink" -> B
                      [] OTHER -> {}
  BY DEF RefersTo
<1>2. /\ p \in {"referProject", "referRepository"} => RefersTo(r) = A
      /\ p = "insertLink" => RefersTo(r) = B
      /\ p \notin {"referProject", "referRepository", "insertLink"} => RefersTo(r) = {}
  <2> HIDE DEF A, B, p
  <2> QED
    BY <1>1
<1>3. /\ pc[r] = "referProject" => A = {<<"Project", req[r].project>>}
      /\ pc[r] = "referRepository" => A = {<<"Repository", req[r].connection>>}
  BY DEF Reference
<1> HIDE DEF A, B
<1>4. pc[r] = "insertLink" => RefersTo(r) = B
  BY <1>2
<1> QED
  BY <1>2, <1>3, <1>4 DEF B

\* How far a transaction is, in the order in which the rows are locked.
Rank(r) ==
  IF pc[r] = "commit" THEN 5
  ELSE IF pc[r] = "updateTask" THEN 4
  ELSE IF pc[r] \in {"referRepository", "findIssue", "updateIssue"} THEN 3
  ELSE IF pc[r] \in Locked THEN 2
  ELSE IF pc[r] = "referProject" THEN 1 ELSE 0

\* Who has a Project is further than the statement that locks it.
LEMMA ProjectRank ==
  ASSUME NEW q \in Requests
  PROVE  /\ HasProject(q) => Rank(q) \in {2, 5}
         /\ SharesProject(q) => Rank(q) \in {3, 4, 5}
         /\ HasDelivery(q) => Rank(q) >= 1
BY DEF HasProject, SharesProject, HasDelivery, At, Rank, Locked

\* The rows of the tables that a lock is on are told apart by its kind.
LEMMA HolderRank ==
  ASSUME NEW q \in Requests
  PROVE  /\ \A j : HeldBy(q, <<"Project", j>>) => HasProject(q)
         /\ \A j : SharedBy(q, <<"Project", j>>) => SharesProject(q)
         /\ \A d : HeldBy(q, <<"Delivery", d>>) => HasDelivery(q)
         /\ \A d : ~SharedBy(q, <<"Delivery", d>>)
         /\ \A y : HeldBy(q, <<"Repository", y>>) => pc[q] = "commit"
         /\ \A y : SharedBy(q, <<"Repository", y>>) =>
              pc[q] \in {"findIssue", "updateIssue", "updateTask", "commit"}
         /\ \A g : HeldBy(q, <<"External", g>>) => pc[q] = "commit"
         /\ \A g : ~SharedBy(q, <<"External", g>>)
         /\ \A t : HeldBy(q, <<"Task", t>>) =>
              /\ t \in req[q].tasks
              /\ pc[q] = "commit" \/ (pc[q] = "deleteLinks" /\ req[q].kind = "remove")
         /\ \A t : SharedBy(q, <<"Task", t>>) => pc[q] = "commit"
         /\ \A t : HeldBy(q, <<"Issue", t>>) =>
              /\ t \in req[q].tasks
              /\ pc[q] \in {"deleteRepository", "updateTask", "commit"}
         /\ \A t : ~SharedBy(q, <<"Issue", t>>)
BY DEF HeldBy, SharedBy, At

\* A Task that q keeps belongs to its Project, and to no other that is locked.
LEMMA KeptApart ==
  ASSUME SyncInv, NEW q \in Requests, NEW r \in Requests \ {q}, NEW t \in req[q].tasks,
         HasProject(q), Keeps(q), HasProject(r) \/ SharesProject(r)
  PROVE  task[t] # NoTask /\ task[t].project # req[r].project
<1>1. RequestInv(q) /\ req[r].project # req[q].project
  BY Exclusive DEF SyncInv
<1>2. task[t] = [project |-> req[q].project] /\ task[t] # NoTask
  BY <1>1 DEF RequestInv, OwnTasks, Keeps
<1> QED
  BY <1>1, <1>2

\* Whoever has a row that r waits for is further than r.
LEMMA BlockersAhead ==
  ASSUME SyncInv, LockInv, NEW r \in Requests, NEW q \in Blockers(r)
  PROVE  Rank(r) < Rank(q)
<1>1. /\ q \in Requests \ {r}
      /\ \/ \E x \in Wants(r) : holder[x] = q \/ q \in sharers[x]
         \/ \E x \in RefersTo(r) : holder[x] = q
  BY DEF Blockers
<1>2. RequestInv(r) /\ RequestInv(q) /\ TypeOK /\ LinksAreConnected /\ pc[r] \in PCs
  BY <1>1 DEF SyncInv, TypeOK
<1>3. \A x \in LockRows : /\ holder[x] = q => HeldBy(q, x)
                          /\ q \in sharers[x] => SharedBy(q, x)
  BY <1>1 DEF LockInv, Holds
<1>4. req[r].tasks \subseteq Tasks
  BY DEF SyncInv, TypeOK, NoRequest, Request
<1>5. pc[q] = "commit" => Rank(q) = 5
  BY DEF Rank
<1>6. pc[r] = "commit" => Wants(r) = {} /\ RefersTo(r) = {}
  BY WantsIs, RefersToIs
<1>7. pc[r] # "commit" => Rank(r) < 5
  BY DEF Rank
<1>8. ASSUME pc[q] = "commit" PROVE Rank(r) < Rank(q)
  BY <1>1, <1>5, <1>6, <1>7, <1>8
<1>9. ASSUME NEW t \in Tasks, HasProject(r) \/ SharesProject(r),
             holder[<<"Task", t>>] = q, task[t] # NoTask => task[t].project = req[r].project
      PROVE  pc[q] = "commit"
  <2>1. <<"Task", t>> \in LockRows
    BY DEF LockRows
  <2>2. /\ t \in req[q].tasks
        /\ pc[q] = "commit" \/ (pc[q] = "deleteLinks" /\ req[q].kind = "remove")
    BY <1>1, <1>3, <1>9, <2>1, HolderRank
  <2>3. CASE pc[q] = "deleteLinks" /\ req[q].kind = "remove"
    BY <1>1, <1>9, <2>2, <2>3, KeptApart DEF HasProject, Keeps, Locked
  <2> QED
    BY <2>2, <2>3
<1>10. ASSUME NEW t \in Tasks, HasProject(r) \/ SharesProject(r),
              holder[<<"Issue", t>>] = q, task[t] # NoTask => task[t].project = req[r].project
       PROVE  pc[q] \in {"updateTask", "commit"}
  <2>1. <<"Issue", t>> \in LockRows
    BY DEF LockRows
  <2>2. /\ t \in req[q].tasks
        /\ pc[q] \in {"deleteRepository", "updateTask", "commit"}
    BY <1>1, <1>3, <1>10, <2>1, HolderRank
  <2>3. CASE pc[q] = "deleteRepository"
    <3>1. req[q].kind = "disconnect"
      BY <1>2, <2>3 DEF RequestInv, Shape
    <3> QED
      BY <1>1, <1>10, <2>2, <2>3, <3>1, KeptApart DEF HasProject, Keeps, Locked
  <2> QED
    BY <2>2, <2>3
<1>11. \A t \in req[r].tasks :
         req[r].kind # "import" /\ pc[r] # "resolve" =>
           (task[t] # NoTask => task[t].project = req[r].project)
  BY <1>2 DEF RequestInv, OwnTasks
<1>12. CASE pc[r] = "lockProject"
  <2>1. <<"Project", req[r].project>> \in LockRows
    BY <1>2, <1>12 DEF RequestInv, Fields, LockRows
  <2>2. HasProject(q) \/ SharesProject(q)
    BY <1>1, <1>3, <1>12, <2>1, WantsIs, RefersToIs, HolderRank
  <2>3. Rank(r) = 0
    BY <1>12 DEF Rank, Locked
  <2> QED
    BY <1>1, <2>2, <2>3, ProjectRank
<1>13. CASE pc[r] = "insertRepository"
  <2>1. <<"External", req[r].external>> \in LockRows
    BY <1>2, <1>13 DEF RequestInv, Shape, Fields, LockRows
  <2>2. pc[q] = "commit"
    BY <1>1, <1>3, <1>13, <2>1, WantsIs, RefersToIs, HolderRank
  <2> QED
    BY <1>8, <2>2
<1>14. CASE pc[r] \in {"lockTask", "updateTask"}
  <2>1. PICK t \in req[r].tasks : holder[<<"Task", t>>] = q \/ q \in sharers[<<"Task", t>>]
    BY <1>1, <1>14, WantsIs, RefersToIs
  <2>2. t \in Tasks /\ <<"Task", t>> \in LockRows
    BY <1>4 DEF LockRows
  <2>3. CASE q \in sharers[<<"Task", t>>]
    BY <1>1, <1>3, <1>8, <2>2, <2>3, HolderRank
  <2>4. CASE holder[<<"Task", t>>] = q
    <3>1. req[r].kind # "import" /\ (HasProject(r) \/ SharesProject(r))
      BY <1>2, <1>14 DEF RequestInv, Shape, Following, HasProject, SharesProject, Locked
    <3> QED
      BY <1>8, <1>9, <1>11, <1>14, <2>2, <2>4, <3>1
  <2> QED
    BY <2>1, <2>3, <2>4
<1>15. CASE pc[r] = "deleteLinks"
  <2> DEFINE T == IF req[r].kind = "disconnect" THEN Linked(req[r].connection) ELSE req[r].tasks
  <2>1. Wants(r) = {"Issue"} \X T /\ RefersTo(r) = {}
    BY <1>15, WantsIs, RefersToIs
  <2>2. T \subseteq Tasks
    BY <1>4 DEF Linked
  <2>3. \A t \in T : task[t] # NoTask => task[t].project = req[r].project
    <3>1. CASE req[r].kind = "disconnect"
      <4>1. Referable(r) /\ req[r].connection \in Connections
        BY <1>2, <1>15, <3>1 DEF RequestInv, Fields, HasConnection, Rows, Current
      <4> QED
        BY <1>2, <3>1, <4>1, SyncNoneAssumption DEF Linked, LinksAreConnected, NoLink, Referable
    <3>2. CASE req[r].kind # "disconnect"
      BY <1>2, <1>11, <1>15, <3>2 DEF RequestInv, Shape
    <3> QED
      BY <3>1, <3>2
  <2> HIDE DEF T
  <2>4. PICK t \in T : holder[<<"Issue", t>>] = q \/ q \in sharers[<<"Issue", t>>]
    BY <1>1, <2>1
  <2>5. t \in Tasks /\ <<"Issue", t>> \in LockRows
    BY <2>2 DEF LockRows
  <2>6. holder[<<"Issue", t>>] = q
    BY <1>1, <1>3, <2>4, <2>5, HolderRank
  <2>7. pc[q] \in {"updateTask", "commit"}
    BY <1>10, <1>15, <2>3, <2>5, <2>6 DEF HasProject, Locked
  <2> QED
    BY <1>15, <2>7 DEF Rank, Locked
<1>16. CASE pc[r] = "deleteRepository"
  <2>1. req[r].connection \in Connections
    BY <1>2, <1>16 DEF RequestInv, Shape, Fields, HasConnection
  <2>2. <<"Repository", req[r].connection>> \in LockRows
    BY <2>1 DEF LockRows
  <2>3. Rank(r) = 2
    BY <1>16 DEF Rank, Locked
  <2>4. PICK x \in {<<"Repository", req[r].connection>>, <<"External", req[r].external>>} :
          holder[x] = q \/ q \in sharers[x]
    BY <1>1, <1>16, WantsIs, RefersToIs
  <2>5. CASE x = <<"Repository", req[r].connection>>
    <3>1. pc[q] \in {"findIssue", "updateIssue", "updateTask", "commit"}
      BY <1>1, <1>3, <2>2, <2>4, <2>5, HolderRank
    <3> QED
      BY <2>3, <3>1 DEF Rank
  <2>6. CASE x = <<"External", req[r].external>>
    <3>1. x \in LockRows
      BY <1>2, <1>16, <2>6 DEF RequestInv, Shape, Fields, LockRows
    <3>2. pc[q] = "commit"
      BY <1>1, <1>3, <2>4, <2>6, <3>1, HolderRank
    <3> QED
      BY <1>8, <3>2
  <2> QED
    BY <2>4, <2>5, <2>6
<1>17. CASE pc[r] = "insertDelivery"
  <2>1. <<"Delivery", req[r].delivery>> \in LockRows
    BY <1>2, <1>17 DEF RequestInv, Shape, Fields, Following, LockRows
  <2>2. HasDelivery(q)
    BY <1>1, <1>3, <1>17, <2>1, WantsIs, RefersToIs, HolderRank
  <2>3. Rank(r) = 0
    BY <1>17 DEF Rank, Locked
  <2>4. Rank(q) \in 0..5
    BY DEF Rank
  <2> QED
    BY <1>1, <2>2, <2>3, <2>4, ProjectRank
<1>18. CASE pc[r] = "updateIssue"
  <2>1. PICK t \in req[r].tasks : holder[<<"Issue", t>>] = q \/ q \in sharers[<<"Issue", t>>]
    BY <1>1, <1>18, WantsIs, RefersToIs
  <2>2. t \in Tasks /\ <<"Issue", t>> \in LockRows
    BY <1>4 DEF LockRows
  <2>3. holder[<<"Issue", t>>] = q
    BY <1>1, <1>3, <2>1, <2>2, HolderRank
  <2>4. req[r].kind # "import"
    BY <1>2, <1>18 DEF RequestInv, Shape, Following
  <2>5. pc[q] \in {"updateTask", "commit"}
    BY <1>10, <1>11, <1>18, <2>2, <2>3, <2>4 DEF SharesProject
  <2> QED
    BY <1>18, <2>5 DEF Rank, Locked
<1>19. CASE pc[r] = "referProject"
  <2>1. <<"Project", req[r].project>> \in LockRows
    BY <1>2, <1>19 DEF RequestInv, Fields, LockRows
  <2>2. HasProject(q)
    BY <1>1, <1>3, <1>19, <2>1, WantsIs, RefersToIs, HolderRank
  <2>3. Rank(r) = 1
    BY <1>19 DEF Rank, Locked
  <2> QED
    BY <1>1, <2>2, <2>3, ProjectRank
<1>20. CASE pc[r] = "referRepository"
  <2>1. <<"Repository", req[r].connection>> \in LockRows
    BY <1>2, <1>20 DEF RequestInv, Shape, Fields, HasConnection, Following, LockRows
  <2>2. pc[q] = "commit"
    BY <1>1, <1>3, <1>20, <2>1, WantsIs, RefersToIs, HolderRank
  <2> QED
    BY <1>8, <2>2
<1>21. CASE pc[r] = "insertLink"
  <2>1. <<"Repository", req[r].connection>> \in LockRows
    BY <1>2, <1>21 DEF RequestInv, Shape, Fields, HasConnection, LockRows
  <2>2. \/ holder[<<"Repository", req[r].connection>>] = q
        \/ \E t \in req[r].tasks : holder[<<"Task", t>>] = q
    BY <1>1, <1>21, WantsIs, RefersToIs
  <2>3. CASE holder[<<"Repository", req[r].connection>>] = q
    BY <1>1, <1>3, <1>8, <2>1, <2>3, HolderRank
  <2>4. CASE \E t \in req[r].tasks : holder[<<"Task", t>>] = q
    <3>1. PICK t \in req[r].tasks : holder[<<"Task", t>>] = q
      BY <2>4
    <3>2. req[r].kind # "import" /\ t \in Tasks /\ HasProject(r)
      BY <1>2, <1>4, <1>21, <3>1 DEF RequestInv, Shape, Fields, HasProject, Locked
    <3> QED
      BY <1>8, <1>9, <1>11, <1>21, <3>1, <3>2
  <2> QED
    BY <2>2, <2>3, <2>4
<1>22. CASE pc[r] \notin {"lockProject", "insertRepository", "lockTask", "updateTask", "deleteLinks",
                          "deleteRepository", "insertDelivery", "updateIssue",
                          "referProject", "referRepository", "insertLink"}
  <2>1. Wants(r) = {} /\ RefersTo(r) = {}
    BY <1>22, WantsIs, RefersToIs
  <2> QED
    BY <1>1, <2>1
<1> QED
  BY <1>12, <1>13, <1>14, <1>15, <1>16, <1>17, <1>18, <1>19, <1>20, <1>21, <1>22

\* A statement takes the locks of the row in question with it.
LocksFollow(q, X, Y) ==
  \A x \in LockRows : /\ HeldBy(q, x) \/ x \in X => HeldBy(q, x)'
                      /\ SharedBy(q, x) \/ x \in Y => SharedBy(q, x)'

\* Others have the locks that they had.
LEMMA OthersHold ==
  ASSUME SyncInv, LockInv, NEW q \in Requests, NEW r \in Requests \ {q}, LockStep(q),
         pc'[r] = pc[r], req'[r] = req[r]
  PROVE  Holds(r)'
<1>1. \A x \in LockRows : /\ holder'[x] = r <=> holder[x] = r
                          /\ r \in sharers'[x] <=> r \in sharers[x]
  BY LockStepKeeps DEF SyncInv, TypeOK
<1>2. Holds(r)
  BY DEF LockInv
<1>3. \A x : /\ HeldBy(r, x) => HeldBy(r, x)'
             /\ SharedBy(r, x) => SharedBy(r, x)'
  BY DEF HeldBy, SharedBy, HasProject, SharesProject, HasDelivery, At
<1> QED
  BY <1>1, <1>2, <1>3 DEF Holds

\* A statement that goes on keeps the account of the locks.
LEMMA MovesHold ==
  ASSUME SyncInv, LockInv, NEW q \in Requests, NEW next \in PCs, NEW known, NEW X, NEW Y,
         SyncMoves(q, next, known, X, Y), LocksFollow(q, X, Y)
  PROVE  LockInv'
<1>1. /\ \A r \in Requests \ {q} : pc'[r] = pc[r] /\ req'[r] = req[r]
      /\ LockStep(q)
      /\ \A x \in LockRows \ X : holder'[x] = holder[x]
      /\ \A x \in LockRows \ Y : sharers'[x] = sharers[x]
  BY MovesTo
<1>2. \A r \in Requests \ {q} : Holds(r)'
  BY <1>1, OthersHold
<1>3. Holds(q)'
  <2> SUFFICES ASSUME NEW x \in LockRows
               PROVE  /\ holder'[x] = q => HeldBy(q, x)'
                      /\ q \in sharers'[x] => SharedBy(q, x)'
    BY DEF Holds
  <2>1. /\ holder[x] = q => HeldBy(q, x)
        /\ q \in sharers[x] => SharedBy(q, x)
    BY DEF LockInv, Holds
  <2>2. /\ HeldBy(q, x) \/ x \in X => HeldBy(q, x)'
        /\ SharedBy(q, x) \/ x \in Y => SharedBy(q, x)'
    BY DEF LocksFollow
  <2> QED
    BY <1>1, <2>1, <2>2
<1> QED
  BY <1>2, <1>3 DEF LockInv

\* A request that ends has no lock left.
LEMMA EndHolds ==
  ASSUME SyncInv, LockInv, NEW q \in Requests, End(q)
  PROVE  LockInv'
<1>1. /\ \A r \in Requests \ {q} : pc'[r] = pc[r] /\ req'[r] = req[r]
      /\ LockStep(q)
  BY EndKeeps
<1>2. \A r \in Requests \ {q} : Holds(r)'
  BY <1>1, OthersHold
<1>3. Holds(q)'
  <2>1. DOMAIN holder = LockRows /\ DOMAIN sharers = LockRows
    BY DEF SyncInv, TypeOK, LocksTypeOK
  <2>2. \A x \in LockRows : holder'[x] # q /\ q \notin sharers'[x]
    BY <2>1, SyncNoneAssumption DEF End, ReleaseLocks
  <2> QED
    BY <2>2 DEF Holds
<1> QED
  BY <1>2, <1>3 DEF LockInv

\* Before its transaction a request has no locks.
LEMMA NothingHeld ==
  ASSUME NEW q \in Requests,
         pc[q] \in {"idle", "resolve", "connected", "fetch", "lockProject", "findRepository",
                    "findDelivery", "insertDelivery"}
  PROVE  \A x : ~HeldBy(q, x) /\ ~SharedBy(q, x)
BY DEF HeldBy, SharedBy, HasProject, SharesProject, HasDelivery, At, Locked

\* The statements before the transactions.
LEMMA OpeningHolds ==
  ASSUME SyncInv, LockInv, NEW q \in Requests,
         \/ Begin(q) \/ ResolveTask(q) \/ FindConnected(q) \/ FetchIssue(q)
         \/ FindRepository(q) \/ FindDelivery(q)
  PROVE  LockInv'
<1>1. ASSUME pc[q] \in {"idle", "resolve", "connected", "fetch", "lockProject", "findRepository",
                        "findDelivery", "insertDelivery"},
             NEW next \in PCs, NEW known, SyncMoves(q, next, known, {}, {})
      PROVE  LockInv'
  BY <1>1, NothingHeld, MovesHold DEF LocksFollow
<1>2. CASE Begin(q)
  <2>1. /\ pc[q] = "idle" /\ UNCHANGED <<rows, sent, locks>>
        /\ \E next \in {"lockProject", "resolve", "connected", "findRepository"} :
             Goto(q, next)
        /\ \E known : req' = [req EXCEPT ![q] = known]
    <3>1. pc[q] = "idle" /\ UNCHANGED <<rows, sent, locks>>
      BY <1>2 DEF Begin
    <3>2. \E next \in {"lockProject", "resolve", "connected", "findRepository"} : Goto(q, next)
      BY <1>2 DEF Begin
    <3>3. \E known : req' = [req EXCEPT ![q] = known]
      BY <1>2, Zenon DEF Begin
    <3> QED
      BY <3>1, <3>2, <3>3
  <2>2. PICK next \in {"lockProject", "resolve", "connected", "findRepository"} : Goto(q, next)
    BY <2>1
  <2>3. PICK known : req' = [req EXCEPT ![q] = known]
    BY <2>1
  <2>4. SyncMoves(q, next, known, {}, {})
    BY <2>1, <2>2, <2>3, NothingLocked DEF SyncMoves, SyncInv, TypeOK, locks
  <2>5. next \in PCs
    BY DEF PCs
  <2> QED
    BY <1>1, <2>1, <2>4, <2>5
<1>3. CASE ResolveTask(q)
  <2> DEFINE t == Only(req[q].tasks)
             next == IF req[q].kind = "link" THEN "connected" ELSE "lockProject"
             known == [req[q] EXCEPT !.project = task[t].project]
  <2>1. Rollback(q) \/ SyncMoves(q, next, known, {}, {})
    BY <1>3, ReadMoves DEF ResolveTask
  <2>2. pc[q] = "resolve" /\ next \in PCs
    BY <1>3 DEF ResolveTask, PCs
  <2> HIDE DEF next, known
  <2> QED
    BY <1>1, <2>1, <2>2, EndHolds DEF Rollback
<1>4. CASE FindConnected(q)
  <2>1. Rollback(q) \/ SyncMoves(q, "fetch", With(q, ConnectionsOf(req[q].project)), {}, {})
    BY <1>4, ReadMoves DEF FindConnected
  <2> QED
    BY <1>1, <1>4, <2>1, EndHolds DEF FindConnected, Rollback, PCs
<1>5. CASE FetchIssue(q)
  <2>1. Rollback(q) \/ SyncMoves(q, "lockProject", req[q], {}, {})
    BY <1>5, ReadMoves DEF FetchIssue
  <2> QED
    BY <1>1, <1>5, <2>1, EndHolds DEF FetchIssue, Rollback, PCs
<1>6. CASE FindRepository(q)
  <2> DEFINE X == {x \in Connections : repository[x].external = RepositoryOf[req[q].issue]}
             known == [req[q] EXCEPT !.connection = Only(X),
                                     !.project = repository[Only(X)].project]
  <2>1. Rollback(q) \/ SyncMoves(q, "findDelivery", known, {}, {})
    BY <1>6, ReadMoves DEF FindRepository
  <2> HIDE DEF known
  <2> QED
    BY <1>1, <1>6, <2>1, EndHolds DEF FindRepository, Rollback, PCs
<1>7. CASE FindDelivery(q)
  <2>1. Rollback(q) \/ SyncMoves(q, "insertDelivery", req[q], {}, {})
    BY <1>7, ReadMoves DEF FindDelivery
  <2> QED
    BY <1>1, <1>7, <2>1, EndHolds DEF FindDelivery, Rollback, PCs
<1> QED
  BY <1>2, <1>3, <1>4, <1>5, <1>6, <1>7

\* The statements of the users' transactions.
LEMMA UserHolds ==
  ASSUME SyncInv, LockInv, NEW q \in Requests,
         \/ LockProject(q) \/ CheckFree(q) \/ InsertRepository(q) \/ FindConnection(q)
         \/ AssertCurrent(q) \/ InsertLink(q) \/ FindLink(q) \/ LockTask(q)
         \/ DeleteLinks(q) \/ DeleteRepository(q)
  PROVE  LockInv'
<1>1. RequestInv(q) /\ TypeOK
  BY DEF SyncInv
<1>2. ASSUME pc[q] \in Locked, NEW next \in Locked \cup {"commit"}, NEW known, NEW X, NEW Y,
             SyncMoves(q, next, known, X, Y), known.project = req[q].project,
             known.kind = req[q].kind, req[q].kind # "webhook",
             \/ known.tasks = req[q].tasks
             \/ pc[q] \notin {"deleteLinks", "deleteRepository"},
             pc[q] = "deleteLinks" => next \in {"deleteRepository", "commit"},
             pc[q] = "deleteRepository" => next = "commit",
             next = "deleteRepository" => req[q].kind = "disconnect",
             \A x \in LockRows : /\ x \in X => HeldBy(q, x)'
                                 /\ x \in Y => SharedBy(q, x)'
      PROVE  LockInv'
  <2> next \in PCs
    BY <1>2 DEF PCs, Locked
  <2>1. pc'[q] = next /\ req'[q] = known
    BY <1>2, MovesTo
  <2>2. LocksFollow(q, X, Y)
    <3>1. \A x : ~SharedBy(q, x)
      BY <1>2 DEF SharedBy, SharesProject, At, Locked
    <3>2. \A x : HeldBy(q, x) => HeldBy(q, x)'
      BY <1>2, <2>1 DEF HeldBy, HasProject, SharesProject, HasDelivery, At, Locked
    <3> QED
      BY <1>2, <3>1, <3>2 DEF LocksFollow
  <2>3. SyncMoves(q, next, known, X, Y)
    BY <1>2
  <2> QED
    BY <2>2, <2>3, MovesHold
<1>3. ASSUME pc[q] \in Locked, NEW next \in Locked \cup {"commit"}, NEW X,
             SyncMoves(q, next, req[q], X, {}), req[q].kind # "webhook",
             pc[q] = "deleteLinks" => next = "commit",
             pc[q] = "deleteRepository" => next = "commit", next # "deleteRepository",
             \A x \in LockRows : x \in X => HeldBy(q, x)'
      PROVE  LockInv'
  BY <1>2, <1>3
<1>4. CASE LockProject(q)
  <2> DEFINE next == AfterLock(req[q].kind)
             X == {<<"Project", req[q].project>>}
  <2>1. Rollback(q) \/ SyncMoves(q, next, req[q], X, {})
    BY <1>4, LockMoves DEF LockProject
  <2>2. ASSUME SyncMoves(q, next, req[q], X, {}) PROVE LockInv'
    <3>1. pc[q] = "lockProject" /\ req[q].kind \in Kinds \ {"webhook"}
      BY <1>1, <1>4 DEF LockProject, RequestInv, Shape, Request
    <3>2. next \in {"checkFree", "findConnection", "findLink", "lockTask", "assertCurrent"}
      BY <3>1, AfterLockIs DEF Kinds
    <3> HIDE DEF next
    <3> next \in PCs
      BY <3>2 DEF PCs
    <3>3. pc'[q] = next /\ req'[q] = req[q]
      BY <2>2, MovesTo
    <3>4. \A x : x \in X => HeldBy(q, x)'
      BY <3>2, <3>3 DEF HeldBy, HasProject, Locked
    <3>5. LocksFollow(q, X, {})
      BY <3>1, <3>4, NothingHeld DEF LocksFollow
    <3> QED
      BY <2>2, <3>5, MovesHold
  <2> QED
    BY <2>1, <2>2, EndHolds DEF Rollback
<1>5. CASE CheckFree(q)
  <2>1. Rollback(q) \/ SyncMoves(q, "insertRepository", req[q], {}, {})
    BY <1>5, ReadMoves DEF CheckFree
  <2>2. pc[q] = "checkFree" /\ req[q].kind = "connect"
    BY <1>1, <1>5 DEF CheckFree, RequestInv, Shape
  <2> QED
    BY <1>3, <2>1, <2>2, EndHolds DEF Rollback, Locked
<1>6. CASE InsertRepository(q)
  <2> DEFINE X == {<<"External", req[q].external>>}
  <2>1. PICK x \in Connections :
          Rollback(q) \/ SyncMoves(q, "commit", [req[q] EXCEPT !.connection = x], X, {})
    BY <1>6, LockMoves DEF InsertRepository
  <2> DEFINE S == [req[q] EXCEPT !.connection = x]
  <2>2. ASSUME SyncMoves(q, "commit", S, X, {}) PROVE LockInv'
    <3>1. /\ pc[q] = "insertRepository" /\ req[q].kind = "connect" /\ req[q] \in Request
          /\ req[q].external \in Externals
      BY <1>1, <1>6 DEF InsertRepository, RequestInv, Shape, Fields
    <3>2. /\ S \in Request /\ Asks(S, req[q]) /\ S.connection = x
          /\ S.project = req[q].project /\ S.tasks = req[q].tasks
          /\ S.external = req[q].external
      BY <3>1, ConnectionRead, Zenon
    <3> HIDE DEF S
    <3>3. pc'[q] = "commit" /\ req'[q] = S
      BY <2>2, MovesTo DEF PCs
    <3>4. \A y : y \in X => HeldBy(q, y)'
      BY <3>1, <3>3 DEF HeldBy
    <3> HIDE DEF X
    <3> QED
      BY <1>2, <2>2, <3>1, <3>2, <3>4 DEF Asks, Locked
  <2>3. Rollback(q) \/ SyncMoves(q, "commit", S, X, {})
    BY <2>1
  <2> QED
    BY <2>2, <2>3, EndHolds DEF Rollback
<1>7. CASE FindConnection(q)
  <2> DEFINE X == ConnectionsOf(req[q].project)
             S == With(q, X)
  <2>1. Rollback(q) \/ (X # {} /\ SyncMoves(q, "deleteLinks", S, {}, {}))
    BY <1>7, ReadMoves DEF FindConnection
  <2>2. ASSUME X # {}, SyncMoves(q, "deleteLinks", S, {}, {}) PROVE LockInv'
    <3>1. /\ pc[q] = "findConnection" /\ req[q].kind = "disconnect" /\ req[q] \in Request
          /\ req[q].project \in Projects
      BY <1>1, <1>7 DEF FindConnection, RequestInv, Shape, Fields
    <3>2. Asks(S, req[q]) /\ S.project = req[q].project /\ S.tasks = req[q].tasks
      BY <2>2, <3>1, RowOfProject, Zenon
    <3> HIDE DEF S, X
    <3> QED
      BY <1>2, <2>2, <3>1, <3>2 DEF Asks, Locked
  <2> QED
    BY <2>1, <2>2, EndHolds DEF Rollback
<1>8. CASE AssertCurrent(q)
  <2>1. Rollback(q) \/ SyncMoves(q, "insertLink", req[q], {}, {})
    BY <1>8, ReadMoves DEF AssertCurrent
  <2>2. pc[q] = "assertCurrent" /\ req[q].kind \in {"link", "import"}
    BY <1>1, <1>8 DEF AssertCurrent, RequestInv, Shape
  <2> QED
    BY <1>3, <2>1, <2>2, EndHolds DEF Rollback, Locked
<1>9. CASE FindLink(q)
  <2>1. Rollback(q) \/ SyncMoves(q, "deleteLinks", req[q], {}, {})
    BY <1>9, ReadMoves DEF FindLink
  <2>2. pc[q] = "findLink" /\ req[q].kind = "unlink"
    BY <1>1, <1>9 DEF FindLink, RequestInv, Shape
  <2> QED
    BY <1>3, <2>1, <2>2, EndHolds DEF Rollback, Locked
<1>10. CASE LockTask(q)
  <2> DEFINE t == Only(req[q].tasks)
             X == {<<"Task", t>>}
  <2>1. Rollback(q) \/ SyncMoves(q, "deleteLinks", req[q], X, {})
    BY <1>10, LockMoves DEF LockTask
  <2>2. ASSUME SyncMoves(q, "deleteLinks", req[q], X, {}) PROVE LockInv'
    <3>1. pc[q] = "lockTask" /\ req[q].kind = "remove" /\ t \in req[q].tasks
      BY <1>1, <1>10, OnlyOne DEF LockTask, RequestInv, Shape, Fields
    <3>2. pc'[q] = "deleteLinks" /\ req'[q] = req[q]
      BY <2>2, MovesTo DEF PCs
    <3>3. \A x : x \in X => HeldBy(q, x)'
      BY <3>1, <3>2 DEF HeldBy
    <3> HIDE DEF X
    <3> QED
      BY <1>3, <2>2, <3>1, <3>3 DEF Locked
  <2> QED
    BY <2>1, <2>2, EndHolds DEF Rollback
<1>11. CASE DeleteLinks(q) /\ req[q].kind = "disconnect"
  <2> DEFINE T == Linked(req[q].connection)
             X == {"Issue"} \X T
             S == [req[q] EXCEPT !.tasks = T]
  <2>1. Rollback(q) \/ SyncMoves(q, "deleteRepository", S, X, {})
    BY <1>11, LockMoves DEF DeleteLinks
  <2>2. ASSUME SyncMoves(q, "deleteRepository", S, X, {}) PROVE LockInv'
    <3>1. pc[q] = "deleteLinks" /\ req[q] \in Request /\ T \in SUBSET Tasks
      BY <1>1, <1>11 DEF DeleteLinks, RequestInv, Shape, Linked
    <3>2. Asks(S, req[q]) /\ S.tasks = T /\ S.project = req[q].project
      BY <3>1, TasksRead, Zenon
    <3> HIDE DEF S, T
    <3>3. pc'[q] = "deleteRepository" /\ req'[q] = S
      BY <2>2, MovesTo DEF PCs
    <3>4. \A x : x \in X => HeldBy(q, x)'
      BY <3>2, <3>3 DEF HeldBy
    <3>5. LocksFollow(q, X, {})
      <4>1. \A x : ~SharedBy(q, x)
        BY <3>1 DEF SharedBy, SharesProject, At
      <4>2. \A x : HeldBy(q, x) => HeldBy(q, x)'
        BY <1>11, <3>1, <3>2, <3>3 DEF HeldBy, HasProject, SharesProject, HasDelivery, At, Locked, Asks
      <4> QED
        BY <3>4, <4>1, <4>2 DEF LocksFollow
    <3> HIDE DEF X
    <3> QED
      BY <2>2, <3>5, MovesHold DEF PCs
  <2> QED
    BY <2>1, <2>2, EndHolds DEF Rollback
<1>12. CASE DeleteLinks(q) /\ req[q].kind # "disconnect"
  <2> DEFINE X == {"Issue"} \X {t \in req[q].tasks : link[t] # NoLink}
  <2>1. Rollback(q) \/ SyncMoves(q, "commit", req[q], X, {})
    BY <1>12, LockMoves DEF DeleteLinks
  <2>2. ASSUME SyncMoves(q, "commit", req[q], X, {}) PROVE LockInv'
    <3>1. pc[q] = "deleteLinks" /\ req[q].kind \in {"unlink", "remove"}
      BY <1>1, <1>12 DEF DeleteLinks, RequestInv, Shape
    <3>2. pc'[q] = "commit" /\ req'[q] = req[q]
      BY <2>2, MovesTo DEF PCs
    <3>3. \A x : x \in X => HeldBy(q, x)'
      BY <3>2 DEF HeldBy
    <3> HIDE DEF X
    <3> QED
      BY <1>3, <2>2, <3>1, <3>3 DEF Locked
  <2> QED
    BY <2>1, <2>2, EndHolds DEF Rollback
<1>13. CASE DeleteRepository(q)
  <2> DEFINE X == {<<"Repository", req[q].connection>>, <<"External", req[q].external>>}
  <2>1. Rollback(q) \/ SyncMoves(q, "commit", req[q], X, {})
    BY <1>13, LockMoves DEF DeleteRepository
  <2>2. ASSUME SyncMoves(q, "commit", req[q], X, {}) PROVE LockInv'
    <3>1. /\ pc[q] = "deleteRepository" /\ req[q].kind = "disconnect"
          /\ req[q].connection \in Connections /\ req[q].external \in Externals
      BY <1>1, <1>13 DEF DeleteRepository, RequestInv, Shape, Fields, HasConnection
    <3>2. pc'[q] = "commit" /\ req'[q] = req[q]
      BY <2>2, MovesTo DEF PCs
    <3>3. \A x : x \in X => HeldBy(q, x)'
      BY <3>1, <3>2 DEF HeldBy
    <3> HIDE DEF X
    <3> QED
      BY <1>3, <2>2, <3>1, <3>3 DEF Locked
  <2> QED
    BY <2>1, <2>2, EndHolds DEF Rollback
<1>14. CASE InsertLink(q)
  <2>1. /\ pc[q] = "insertLink" /\ req[q].kind \in {"link", "import"} /\ req[q] \in Request
        /\ req[q].connection \in Connections
    BY <1>1, <1>14 DEF InsertLink, RequestInv, Shape, Fields, HasConnection
  <2>2. PICK T \in IF req[q].kind = "link" THEN {req[q].tasks} ELSE {{t} : t \in Tasks} :
          \/ Rollback(q)
          \/ /\ KeyShare(q, {<<"Repository", req[q].connection>>} \cup
                              (IF req[q].kind = "link" THEN {<<"Task", Only(T)>>} ELSE {}))
             /\ UNCHANGED holder
             /\ Goto(q, "commit") /\ req' = [req EXCEPT ![q].tasks = T]
             /\ UNCHANGED <<rows, sent>>
    BY <1>14 DEF InsertLink
  <2>3. \E t \in Tasks : T = {t} /\ Only(T) = t
    BY <1>1, <2>1, <2>2, OnlyOne DEF RequestInv, Fields
  <2> DEFINE Y == {<<"Repository", req[q].connection>>} \cup
                    (IF req[q].kind = "link" THEN {<<"Task", Only(T)>>} ELSE {})
             S == [req[q] EXCEPT !.tasks = T]
  <2>4. ASSUME KeyShare(q, Y), UNCHANGED holder, Goto(q, "commit"),
               req' = [req EXCEPT ![q].tasks = T], UNCHANGED <<rows, sent>>
        PROVE  LockInv'
    <3>1. Asks(S, req[q]) /\ S.tasks = T /\ S.project = req[q].project
      BY <2>1, <2>3, TasksRead, Zenon
    <3>2. req' = [req EXCEPT ![q] = S]
      BY <2>4, Zenon
    <3>3. ForUpdate(q, {})
      BY <1>1, <2>4, NothingLocked DEF TypeOK
    <3> HIDE DEF S
    <3>4. SyncMoves(q, "commit", S, {}, Y)
      BY <2>4, <3>2, <3>3 DEF SyncMoves
    <3>5. pc'[q] = "commit" /\ req'[q] = S
      BY <3>4, MovesTo DEF PCs
    <3>6. \A x : x \in Y => SharedBy(q, x)'
      BY <2>1, <2>3, <3>5 DEF SharedBy
    <3> HIDE DEF Y
    <3> QED
      BY <1>2, <2>1, <3>1, <3>4, <3>6 DEF Asks, Locked
  <2>5. \/ Rollback(q)
        \/ /\ KeyShare(q, Y) /\ UNCHANGED holder
           /\ Goto(q, "commit") /\ req' = [req EXCEPT ![q].tasks = T]
           /\ UNCHANGED <<rows, sent>>
    BY <2>2
  <2> HIDE DEF Y
  <2> QED
    BY <2>4, <2>5, EndHolds DEF Rollback
<1> QED
  BY <1>4, <1>5, <1>6, <1>7, <1>8, <1>9, <1>10, <1>11, <1>12, <1>13, <1>14

\* The statements of a webhook's transaction.
LEMMA HookHolds ==
  ASSUME SyncInv, LockInv, NEW q \in Requests,
         InsertDelivery(q) \/ Refer(q) \/ FindIssue(q) \/ UpdateIssue(q) \/ UpdateTask(q)
  PROVE  LockInv'
<1>1. RequestInv(q) /\ TypeOK
  BY DEF SyncInv
<1>2. CASE InsertDelivery(q)
  <2> DEFINE X == {<<"Delivery", req[q].delivery>>}
  <2>1. Rollback(q) \/ SyncMoves(q, "referProject", req[q], X, {})
    BY <1>2, LockMoves DEF InsertDelivery
  <2>2. ASSUME SyncMoves(q, "referProject", req[q], X, {}) PROVE LockInv'
    <3>1. pc'[q] = "referProject" /\ req'[q] = req[q]
      BY <2>2, MovesTo DEF PCs
    <3>2. \A x : x \in X => HeldBy(q, x)'
      BY <3>1 DEF HeldBy, HasDelivery
    <3>3. LocksFollow(q, X, {})
      BY <1>2, <3>2, NothingHeld DEF LocksFollow, InsertDelivery
    <3> HIDE DEF X
    <3> QED
      BY <2>2, <3>3, MovesHold DEF PCs
  <2> QED
    BY <2>1, <2>2, EndHolds DEF Rollback
<1>3. CASE Refer(q)
  <2> DEFINE Y == {Reference(q)}
             next == IF pc[q] = "referProject" THEN "referRepository" ELSE "findIssue"
  <2>1. /\ pc[q] \in {"referProject", "referRepository"} /\ req[q].kind = "webhook"
        /\ req[q].connection \in Connections
    BY <1>1, <1>3 DEF Refer, RequestInv, Shape, Fields, HasConnection, Following
  <2>2. Rollback(q) \/ SyncMoves(q, next, req[q], {}, Y)
    <3>1. CASE ~Rollback(q)
      <4>1. /\ KeyShare(q, Y) /\ holder' = holder /\ Goto(q, next)
            /\ UNCHANGED <<rows, sent>> /\ req' = req
        BY <1>3, <3>1 DEF Refer
      <4>2. ForUpdate(q, {})
        BY <1>1, <4>1, NothingLocked DEF TypeOK
      <4>3. req' = [req EXCEPT ![q] = req[q]]
        BY <1>1, <4>1 DEF TypeOK
      <4> QED
        BY <4>1, <4>2, <4>3 DEF SyncMoves
    <3> QED
      BY <3>1
  <2>3. ASSUME SyncMoves(q, next, req[q], {}, Y) PROVE LockInv'
    <3>1. /\ pc[q] = "referProject" => next = "referRepository"
          /\ pc[q] = "referRepository" => next = "findIssue"
          /\ next \in PCs
      BY DEF PCs
    <3> HIDE DEF next
    <3>2. pc'[q] = next /\ req'[q] = req[q]
      BY <2>3, <3>1, MovesTo
    <3>3. \A x : x \in Y => SharedBy(q, x)'
      <4>1. CASE pc[q] = "referProject"
        <5>1. Y = {<<"Project", req[q].project>>}
          BY <4>1 DEF Reference
        <5> HIDE DEF Y
        <5> QED
          BY <3>1, <3>2, <4>1, <5>1 DEF SharedBy, SharesProject
      <4>2. CASE pc[q] = "referRepository"
        <5>1. Y = {<<"Repository", req[q].connection>>}
          BY <4>2 DEF Reference
        <5> HIDE DEF Y
        <5> QED
          BY <2>1, <3>1, <3>2, <4>2, <5>1 DEF SharedBy
      <4> QED
        BY <2>1, <4>1, <4>2
    <3> HIDE DEF Y
    <3>4. \A x : /\ HeldBy(q, x) => HeldBy(q, x)'
                 /\ SharedBy(q, x) => SharedBy(q, x)'
      BY <2>1, <3>1, <3>2
         DEF HeldBy, SharedBy, HasProject, SharesProject, HasDelivery, At, Locked
    <3>5. LocksFollow(q, {}, Y)
      BY <3>3, <3>4 DEF LocksFollow
    <3> QED
      BY <2>3, <3>1, <3>5, MovesHold
  <2> QED
    BY <2>2, <2>3, EndHolds DEF Rollback
<1>4. CASE FindIssue(q)
  <2> DEFINE T == {t \in Linked(req[q].connection) :
                     link[t].issue = req[q].issue /\ sent[req[q].delivery].action # "other"}
             next == IF T = {} THEN "commit" ELSE "updateIssue"
             S == [req[q] EXCEPT !.tasks = T]
  <2>1. Rollback(q) \/ SyncMoves(q, next, S, {}, {})
    BY <1>4, ReadMoves DEF FindIssue
  <2>2. ASSUME SyncMoves(q, next, S, {}, {}) PROVE LockInv'
    <3>1. pc[q] = "findIssue" /\ req[q].kind = "webhook" /\ req[q] \in Request
          /\ next \in {"commit", "updateIssue"} /\ T \in SUBSET Tasks
      BY <1>1, <1>4 DEF FindIssue, RequestInv, Shape, Following, Linked
    <3>2. Asks(S, req[q]) /\ S.project = req[q].project
      BY <3>1, TasksRead, Zenon
    <3> HIDE DEF next, S, T
    <3> next \in PCs
      BY <3>1 DEF PCs
    <3>3. pc'[q] = next /\ req'[q] = S
      BY <2>2, MovesTo
    <3>4. \A x : /\ HeldBy(q, x) => HeldBy(q, x)'
                 /\ SharedBy(q, x) => SharedBy(q, x)'
      BY <3>1, <3>2, <3>3
         DEF HeldBy, SharedBy, HasProject, SharesProject, HasDelivery, At, Locked, Asks
    <3>5. LocksFollow(q, {}, {})
      BY <3>4 DEF LocksFollow
    <3> QED
      BY <2>2, <3>5, MovesHold
  <2> QED
    BY <2>1, <2>2, EndHolds DEF Rollback
<1>5. CASE UpdateIssue(q)
  <2> DEFINE t == Only(req[q].tasks)
             X == {<<"Issue", t>>}
             next == IF sent[req[q].delivery].action = "gone" THEN "commit" ELSE "updateTask"
  <2>1. Rollback(q) \/ SyncMoves(q, next, req[q], X, {})
    BY <1>5, LockMoves DEF UpdateIssue, Follows
  <2>2. ASSUME SyncMoves(q, next, req[q], X, {}) PROVE LockInv'
    <3>1. /\ pc[q] = "updateIssue" /\ req[q].kind = "webhook" /\ t \in req[q].tasks
          /\ next \in {"commit", "updateTask"}
      BY <1>1, <1>5, OnlyOne DEF UpdateIssue, RequestInv, Shape, Fields, Following
    <3> HIDE DEF next
    <3> next \in PCs
      BY <3>1 DEF PCs
    <3>2. pc'[q] = next /\ req'[q] = req[q]
      BY <2>2, MovesTo
    <3>3. \A x : x \in X => HeldBy(q, x)'
      BY <3>1, <3>2 DEF HeldBy
    <3>4. \A x : /\ HeldBy(q, x) => HeldBy(q, x)'
                 /\ SharedBy(q, x) => SharedBy(q, x)'
      BY <3>1, <3>2
         DEF HeldBy, SharedBy, HasProject, SharesProject, HasDelivery, At, Locked
    <3>5. LocksFollow(q, X, {})
      BY <3>3, <3>4 DEF LocksFollow
    <3> HIDE DEF X
    <3> QED
      BY <2>2, <3>5, MovesHold
  <2> QED
    BY <2>1, <2>2, EndHolds DEF Rollback
<1>6. CASE UpdateTask(q)
  <2> DEFINE t == Only(req[q].tasks)
             X == {<<"Task", t>>}
  <2>1. Rollback(q) \/ SyncMoves(q, "commit", req[q], X, {})
    BY <1>6, LockMoves DEF UpdateTask
  <2>2. ASSUME SyncMoves(q, "commit", req[q], X, {}) PROVE LockInv'
    <3>1. /\ pc[q] = "updateTask" /\ req[q].kind = "webhook" /\ t \in req[q].tasks
      BY <1>1, <1>6, OnlyOne DEF UpdateTask, RequestInv, Shape, Fields, Following
    <3>2. pc'[q] = "commit" /\ req'[q] = req[q]
      BY <2>2, MovesTo DEF PCs
    <3>3. \A x : x \in X => HeldBy(q, x)'
      BY <3>1, <3>2 DEF HeldBy, At
    <3>4. \A x : /\ HeldBy(q, x) => HeldBy(q, x)'
                 /\ SharedBy(q, x) => SharedBy(q, x)'
      BY <3>1, <3>2
         DEF HeldBy, SharedBy, HasProject, SharesProject, HasDelivery, At, Locked
    <3>5. LocksFollow(q, X, {})
      BY <3>3, <3>4 DEF LocksFollow
    <3> HIDE DEF X
    <3> QED
      BY <2>2, <3>5, MovesHold DEF PCs
  <2> QED
    BY <2>1, <2>2, EndHolds DEF Rollback
<1> QED
  BY <1>2, <1>3, <1>4, <1>5, <1>6

\* Every step keeps the account of the locks.
LEMMA NextHolds == SyncInv /\ LockInv /\ [Next]_vars => LockInv'
<1> SUFFICES ASSUME SyncInv, LockInv, [Next]_vars PROVE LockInv'
  OBVIOUS
<1>1. CASE UNCHANGED vars
  <2>1. pc' = pc /\ req' = req /\ holder' = holder /\ sharers' = sharers
    BY <1>1 DEF vars, locks
  <2> QED
    BY <2>1
       DEF LockInv, Holds, HeldBy, SharedBy, HasProject, SharesProject, HasDelivery, At
<1>2. ASSUME NEW q \in Requests, Begin(q) PROVE LockInv'
  BY <1>2, OpeningHolds
<1>3. ASSUME NEW q \in Requests, Fail(q) PROVE LockInv'
  BY <1>3, EndHolds DEF Fail, Rollback
<1>4. ASSUME NEW q \in Requests, Step(q) PROVE LockInv'
  <2>1. CASE \/ ResolveTask(q) \/ FindConnected(q) \/ FetchIssue(q)
             \/ FindRepository(q) \/ FindDelivery(q)
    BY <2>1, OpeningHolds
  <2>2. CASE \/ LockProject(q) \/ CheckFree(q) \/ InsertRepository(q) \/ FindConnection(q)
             \/ AssertCurrent(q) \/ InsertLink(q) \/ FindLink(q) \/ LockTask(q)
             \/ DeleteLinks(q) \/ DeleteRepository(q)
    BY <2>2, UserHolds
  <2>3. CASE InsertDelivery(q) \/ Refer(q) \/ FindIssue(q) \/ UpdateIssue(q) \/ UpdateTask(q)
    BY <2>3, HookHolds
  <2>4. CASE \/ CommitConnect(q) \/ CommitDisconnect(q) \/ CommitLink(q) \/ CommitRemoval(q)
             \/ CommitWebhook(q)
    <3>1. End(q)
      BY <2>4 DEF CommitConnect, CommitDisconnect, CommitLink, CommitRemoval, CommitWebhook
    <3> QED
      BY <3>1, EndHolds
  <2> QED
    BY <1>4, <2>1, <2>2, <2>3, <2>4 DEF Step
<1>5. ASSUME NEW i \in Issues, NEW d \in Deliveries, Change(i, d) PROVE LockInv'
  <2>1. pc' = pc /\ req' = req /\ holder' = holder /\ sharers' = sharers
    BY <1>5 DEF Change, locks
  <2> QED
    BY <2>1
       DEF LockInv, Holds, HeldBy, SharedBy, HasProject, SharesProject, HasDelivery, At
<1> QED
  BY <1>1, <1>2, <1>3, <1>4, <1>5 DEF Next

\* A lock is had by a request that has passed the statement that takes it, and has
\* not ended.
THEOREM LocksAreAccounted == Spec => [](SyncInv /\ LockInv)
<1>1. Init => LockInv
  BY SyncNoneAssumption DEF Init, LocksInit, LockInv, Holds
<1> QED
  BY InitInv, NextInv, NextHolds, <1>1, PTL DEF Spec

\* However users' requests and webhooks meet, no set of transactions waits for
\* itself: each waits only for others that are further in one order of the statements.
THEOREM TransactionsNeverDeadlock == Spec => []NoDeadlock
<1>1. SyncInv /\ LockInv => NoDeadlock
  <2> SUFFICES ASSUME SyncInv, LockInv, NEW S \in SUBSET Requests, S # {}
               PROVE  \E r \in S : Blockers(r) \cap S = {}
    BY DEF NoDeadlock
  <2>1. \A r \in S : Rank(r) \in 0..5
    BY DEF Rank
  <2>2. PICK r \in S : \A q \in S : Rank(q) <= Rank(r)
    BY <2>1
  <2>3. \A q \in Blockers(r) : Rank(r) < Rank(q)
    BY BlockersAhead
  <2>4. \A q \in Blockers(r) \cap S : FALSE
    BY <2>1, <2>2, <2>3
  <2> QED
    BY <2>4
<1> QED
  BY <1>1, LocksAreAccounted, PTL

-----------------------------------------------------------------------------
(* GithubAppFlow.  That a state is consumed once rests on the row lock of  *)
(* the request that has checked it: FlowInv says that what was found under *)
(* the lock is true until the write, FlowsExclusive that two requests do   *)
(* not hold the lock of one row.                                           *)

\* What an open request names.
FlowOK(f) ==
  /\ flow[f].at # "idle" => flow[f].user \in Users
  /\ flow[f].at \notin {"idle", "deleteStates", "createState"} => flow[f].state \in States

\* A request that may bind or consume its state has one that was never consumed.
FlowInv(f) == flow[f].at \in {"bind", "consume"} => used[flow[f].state] <= 0

\* A consumed state says so as long as it is there.
StateInv(s) == used[s] <= 1 /\ (used[s] = 1 => (state[s] = Absent \/ state[s].consumed))

FlowsExclusive == \A f \in Flows, g \in Flows : f # g => LockedBy(f) \cap LockedBy(g) = {}

AppInv ==
  /\ AppTypeOK
  /\ \A f \in Flows : FlowOK(f) /\ FlowInv(f)
  /\ \A s \in States : StateInv(s)
  /\ FlowsExclusive

FlowType == [at : Points, user : Users \cup {Nobody}, state : States \cup {Nobody},
             pending : Installations \cup {Nobody}, doomed : SUBSET States]

StateType == [user : Users \cup {Nobody}, pending : Installations \cup {Nobody},
              consumed : BOOLEAN, live : BOOLEAN]

-----------------------------------------------------------------------------
\* The absent state and the idle request have their types.
LEMMA FlowRows ==
  /\ Absent \in StateType /\ Absent.user = Nobody /\ ~ Absent.live
  /\ Idle \in FlowType /\ Idle.at = "idle"
BY DEF Absent, StateType, Idle, FlowType, Points

\* No state and no request exist at first.
LEMMA AppInitInv == AppInit => AppInv
<1> SUFFICES ASSUME AppInit PROVE AppInv
  OBVIOUS
<1>1. AppTypeOK
  BY FlowRows DEF AppInit, AppTypeOK, FlowType, StateType
<1>2. \A f \in Flows : FlowOK(f) /\ FlowInv(f) /\ LockedBy(f) = {}
  BY FlowRows DEF AppInit, FlowOK, FlowInv, LockedBy
<1>3. \A s \in States : StateInv(s)
  BY DEF AppInit, StateInv
<1> QED
  BY <1>1, <1>2, <1>3 DEF AppInv, FlowsExclusive

\* A step of f that locks at most free rows and finds what FlowInv says keeps all
\* that is about flows, whatever happens to states that nobody else has locked.
LEMMA FlowStep ==
  ASSUME AppInv, NEW f \in Flows, NEW next \in FlowType,
         flow' = [flow EXCEPT ![f] = next],
         used' \in [States -> Int],
         FlowOK(f)', FlowInv(f)',
         \A s \in States : s \in LockedBy(f)' => s \in LockedBy(f) \/ Free(f, s),
         \A s \in States : used'[s] # used[s] => s \in LockedBy(f) \/ (used[s] = -1 /\ used'[s] <= 0)
  PROVE  /\ flow' \in [Flows -> FlowType]
         /\ \A g \in Flows : FlowOK(g)' /\ FlowInv(g)'
         /\ FlowsExclusive'
<1>1. /\ flow \in [Flows -> FlowType] /\ flow' \in [Flows -> FlowType]
      /\ used \in [States -> Int]
      /\ \A g \in Flows : flow'[g] = IF g = f THEN next ELSE flow[g]
  BY DEF AppInv, AppTypeOK, FlowType
<1>2. \A g \in Flows : FlowOK(g)'
  BY <1>1 DEF FlowOK, AppInv
<1>3. \A g \in Flows \ {f} : LockedBy(g)' = LockedBy(g)
  BY <1>1 DEF LockedBy
<1>4. ASSUME NEW g \in Flows, g # f, flow'[g].at \in {"bind", "consume"}
      PROVE  used'[flow'[g].state] <= 0
  <2>1. flow'[g] = flow[g] /\ flow[g].state \in States /\ used[flow[g].state] <= 0
    BY <1>1, <1>4 DEF AppInv, FlowOK, FlowInv
  <2>2. flow[g].state \in LockedBy(g)
    BY <2>1, <1>4 DEF LockedBy
  <2>3. flow[g].state \notin LockedBy(f)
    BY <2>2, <1>4 DEF AppInv, FlowsExclusive
  <2> QED
    BY <2>1, <2>3
<1>5. \A g \in Flows : FlowInv(g)'
  BY <1>4 DEF FlowInv
<1>6. LockedBy(f)' \subseteq States
  BY <1>1 DEF LockedBy, FlowOK, FlowType
<1>7. \A g \in Flows \ {f} : LockedBy(g)' \cap LockedBy(f)' = {}
  BY <1>3, <1>6 DEF Free, AppInv, FlowsExclusive
<1>8. FlowsExclusive'
  BY <1>3, <1>7 DEF FlowsExclusive, AppInv
<1> QED
  BY <1>1, <1>2, <1>5, <1>8

\* The same for a step that leaves the states alone.
LEMMA ReadStep ==
  ASSUME AppInv, NEW f \in Flows, NEW next \in FlowType,
         flow' = [flow EXCEPT ![f] = next],
         state' = state, used' = used, installation' \in [Installations -> Users \cup {Nobody}],
         FlowOK(f)', FlowInv(f)',
         \A s \in States : s \in LockedBy(f)' => s \in LockedBy(f) \/ Free(f, s)
  PROVE  AppInv'
<1>1. used' \in [States -> Int]
  BY DEF AppInv, AppTypeOK
<1>2. /\ flow' \in [Flows -> FlowType] /\ FlowsExclusive'
      /\ \A g \in Flows : FlowOK(g)' /\ FlowInv(g)'
  BY <1>1, FlowStep
<1>3. \A s \in States : StateInv(s)'
  BY DEF AppInv, StateInv
<1>4. AppTypeOK'
  BY <1>2 DEF AppInv, AppTypeOK, FlowType
<1> QED
  BY <1>2, <1>3, <1>4 DEF AppInv

\* A request that ends, or goes where nothing is locked.
LEMMA Released ==
  ASSUME AppInv, NEW f \in Flows, NEW next \in FlowType,
         flow' = [flow EXCEPT ![f] = next],
         next.at \notin {"createState", "check", "bind", "consume"}
  PROVE  LockedBy(f)' = {} /\ FlowInv(f)'
<1>1. flow'[f] = next
  BY DEF AppInv, AppTypeOK
<1> QED
  BY <1>1 DEF LockedBy, FlowInv

\* A request that ends leaves its rows to the others.
LEMMA FinishStep ==
  ASSUME AppInv, NEW f \in Flows, Finish(f), UNCHANGED <<state, installation, used>>
  PROVE  AppInv'
<1>1. flow' = [flow EXCEPT ![f] = Idle] /\ flow'[f] = Idle
  BY DEF Finish, Moves, AppInv, AppTypeOK
<1>2. LockedBy(f)' = {} /\ FlowInv(f)' /\ FlowOK(f)'
  BY <1>1, FlowRows, Released DEF FlowOK
<1> QED
  BY <1>1, <1>2, FlowRows, ReadStep DEF AppInv, AppTypeOK

-----------------------------------------------------------------------------
\* A step that moves on without a lock.
LEMMA ToStep ==
  ASSUME AppInv, NEW f \in Flows, NEW at \in Points,
         flow[f].at \notin {"idle", "deleteStates", "createState"}, To(f, at),
         at \notin {"createState", "check", "bind", "consume"},
         state' = state, used' = used, installation' \in [Installations -> Users \cup {Nobody}]
  PROVE  AppInv'
<1> DEFINE next == [flow[f] EXCEPT !.at = at]
<1>1. flow[f] \in FlowType
  BY DEF AppInv, AppTypeOK, FlowType
<1>2. next \in FlowType /\ next.at = at /\ next.user = flow[f].user /\ next.state = flow[f].state
  BY <1>1 DEF FlowType
<1>3. flow' = [flow EXCEPT ![f] = next] /\ flow'[f] = next
  BY DEF To, Moves, AppInv, AppTypeOK
<1> HIDE DEF next
<1>4. LockedBy(f)' = {} /\ FlowInv(f)'
  BY <1>2, <1>3, Released
<1>5. FlowOK(f)'
  BY <1>2, <1>3 DEF FlowOK, AppInv
<1> QED
  BY <1>2, <1>3, <1>4, <1>5, ReadStep

\* A request begins without a lock.
LEMMA ArriveStep ==
  ASSUME AppInv, NEW f \in Flows, Arrive(f)
  PROVE  AppInv'
<1>1. PICK next \in FlowType :
        /\ flow' = [flow EXCEPT ![f] = next]
        /\ next.user \in Users
        /\ next.at = "deleteStates" \/ (next.at = "lock" /\ next.state \in States)
  <2>0. Idle \in FlowType
    BY FlowRows
  <2>1. CASE \E u \in Users : Moves(f, [Idle EXCEPT !.at = "deleteStates", !.user = u])
    <3>1. PICK u \in Users : Moves(f, [Idle EXCEPT !.at = "deleteStates", !.user = u])
      BY <2>1
    <3> DEFINE next == [Idle EXCEPT !.at = "deleteStates", !.user = u]
    <3>2. next \in FlowType /\ next.at = "deleteStates" /\ next.user = u
      BY <2>0 DEF FlowType, Points
    <3>3. flow' = [flow EXCEPT ![f] = next]
      BY <3>1 DEF Moves
    <3> HIDE DEF next
    <3> QED
      BY <3>2, <3>3
  <2>2. CASE \E u \in Users, s \in States, i \in Installations :
               Moves(f, [Idle EXCEPT !.at = "lock", !.user = u, !.state = s, !.pending = i])
    <3>1. PICK u \in Users, s \in States, i \in Installations :
            Moves(f, [Idle EXCEPT !.at = "lock", !.user = u, !.state = s, !.pending = i])
      BY <2>2
    <3> DEFINE next == [Idle EXCEPT !.at = "lock", !.user = u, !.state = s, !.pending = i]
    <3>2. next \in FlowType /\ next.at = "lock" /\ next.user = u /\ next.state = s
      BY <2>0 DEF FlowType, Points
    <3>3. flow' = [flow EXCEPT ![f] = next]
      BY <3>1 DEF Moves
    <3> HIDE DEF next
    <3> QED
      BY <3>2, <3>3
  <2>3. CASE \E u \in Users, s \in States :
               Moves(f, [Idle EXCEPT !.at = "lock", !.user = u, !.state = s])
    <3>1. PICK u \in Users, s \in States :
            Moves(f, [Idle EXCEPT !.at = "lock", !.user = u, !.state = s])
      BY <2>3
    <3> DEFINE next == [Idle EXCEPT !.at = "lock", !.user = u, !.state = s]
    <3>2. next \in FlowType /\ next.at = "lock" /\ next.user = u /\ next.state = s
      BY <2>0 DEF FlowType, Points
    <3>3. flow' = [flow EXCEPT ![f] = next]
      BY <3>1 DEF Moves
    <3> HIDE DEF next
    <3> QED
      BY <3>2, <3>3
  <2> QED
    BY <2>1, <2>2, <2>3 DEF Arrive
<1>2. flow'[f] = next /\ UNCHANGED <<state, installation, used>>
  BY <1>1 DEF Arrive, AppInv, AppTypeOK
<1>3. FlowOK(f)' /\ LockedBy(f)' = {} /\ FlowInv(f)'
  BY <1>1, <1>2, Released DEF FlowOK
<1> QED
  BY <1>1, <1>2, <1>3, ReadStep DEF AppInv, AppTypeOK

\* The old states of a user that are deleted are locked by nobody.
LEMMA DeleteStatesStep ==
  ASSUME AppInv, NEW f \in Flows, DeleteStates(f)
  PROVE  AppInv'
<1> DEFINE own == {s \in States : state[s].user = flow[f].user}
           next == [flow[f] EXCEPT !.at = "createState", !.doomed = own]
<1>1. flow[f] \in FlowType
  BY DEF AppInv, AppTypeOK, FlowType
<1>2. next \in FlowType /\ next.at = "createState" /\ next.user = flow[f].user /\ next.doomed = own
  BY <1>1 DEF FlowType, Points
<1>3. /\ flow' = [flow EXCEPT ![f] = next] /\ flow'[f] = next
      /\ UNCHANGED <<state, installation, used>>
      /\ \A s \in own : Free(f, s)
  BY DEF DeleteStates, Moves, AppInv, AppTypeOK
<1>4. flow[f].user \in Users
  BY DEF DeleteStates, AppInv, FlowOK
<1> HIDE DEF next, own
<1>5. FlowOK(f)' /\ FlowInv(f)' /\ LockedBy(f)' = own
  BY <1>2, <1>3, <1>4 DEF FlowOK, FlowInv, LockedBy
<1> QED
  BY <1>2, <1>3, <1>5, ReadStep DEF AppInv, AppTypeOK

\* A new state has never been consumed.
LEMMA CreateStateStep ==
  ASSUME AppInv, NEW f \in Flows, CreateState(f)
  PROVE  AppInv'
<1>1. PICK s \in States :
        /\ used[s] = -1 /\ used' = [used EXCEPT ![s] = 0]
        /\ state' = [x \in States |->
             IF x = s THEN [Absent EXCEPT !.user = flow[f].user, !.live = TRUE]
             ELSE IF x \in flow[f].doomed THEN Absent ELSE state[x]]
  BY DEF CreateState
<1>2. /\ flow' = [flow EXCEPT ![f] = Idle] /\ flow'[f] = Idle /\ installation' = installation
  BY DEF CreateState, Finish, Moves, AppInv, AppTypeOK
<1>3. flow[f].user \in Users
  BY DEF CreateState, AppInv, FlowOK
<1>4. used' \in [States -> Int] /\ \A x \in States : used'[x] = IF x = s THEN 0 ELSE used[x]
  BY <1>1 DEF AppInv, AppTypeOK
<1>5. LockedBy(f)' = {} /\ FlowInv(f)' /\ FlowOK(f)'
  BY <1>2, FlowRows, Released DEF FlowOK
<1>6. \A x \in States : used'[x] # used[x] => used[x] = -1 /\ used'[x] <= 0
  BY <1>1, <1>4
<1>7. /\ flow' \in [Flows -> FlowType] /\ FlowsExclusive'
      /\ \A g \in Flows : FlowOK(g)' /\ FlowInv(g)'
  BY <1>2, <1>4, <1>5, <1>6, FlowRows, FlowStep
<1>8. \A x \in States : StateInv(x)'
  BY <1>1, <1>4 DEF AppInv, StateInv
<1>9. state' \in [States -> StateType]
  <2>1. [Absent EXCEPT !.user = flow[f].user, !.live = TRUE] \in StateType
    BY <1>3 DEF Absent, StateType
  <2>2. state \in [States -> StateType]
    BY DEF AppInv, AppTypeOK, StateType
  <2> QED
    BY <1>1, <2>1, <2>2, FlowRows
<1>10. AppTypeOK'
  BY <1>2, <1>4, <1>7, <1>9 DEF AppInv, AppTypeOK, FlowType, StateType
<1> QED
  BY <1>7, <1>8, <1>10 DEF AppInv

\* The state that is locked is locked by one request.
LEMMA LockStateStep ==
  ASSUME AppInv, NEW f \in Flows, LockState(f)
  PROVE  AppInv'
<1> DEFINE next == [flow[f] EXCEPT !.at = "check"]
<1>1. CASE Finish(f)
  BY <1>1, FinishStep DEF LockState
<1>2. CASE To(f, "check")
  <2>1. flow[f] \in FlowType
    BY DEF AppInv, AppTypeOK, FlowType
  <2>2. /\ next \in FlowType /\ next.at = "check" /\ next.user = flow[f].user
        /\ next.state = flow[f].state
    BY <2>1 DEF FlowType, Points
  <2>3. /\ flow' = [flow EXCEPT ![f] = next] /\ flow'[f] = next
        /\ UNCHANGED <<state, installation, used>> /\ Free(f, flow[f].state)
    BY <1>2 DEF LockState, To, Moves, AppInv, AppTypeOK
  <2>4. flow[f].user \in Users /\ flow[f].state \in States
    BY DEF LockState, AppInv, FlowOK
  <2> HIDE DEF next
  <2>5. FlowOK(f)' /\ FlowInv(f)' /\ LockedBy(f)' = {flow[f].state}
    BY <2>2, <2>3, <2>4 DEF FlowOK, FlowInv, LockedBy
  <2> QED
    BY <2>2, <2>3, <2>5, ReadStep DEF AppInv, AppTypeOK
<1> QED
  BY <1>1, <1>2 DEF LockState

\* A state that is usable was never consumed.
LEMMA UsableIsUnused ==
  ASSUME AppInv, NEW f \in Flows, flow[f].at = "check", Usable(f)
  PROVE  used[flow[f].state] <= 0
<1>1. flow[f].user \in Users /\ flow[f].state \in States
  BY DEF AppInv, FlowOK
<1>2. state[flow[f].state] # Absent /\ ~ state[flow[f].state].consumed
  BY <1>1, FlowRows, NobodyAssumption DEF Usable
<1>3. used[flow[f].state] \in Int /\ StateInv(flow[f].state)
  BY <1>1 DEF AppInv, AppTypeOK
<1> QED
  BY <1>2, <1>3 DEF StateInv

\* CheckSetup and CheckCallback: the lock is kept.
LEMMA CheckStep ==
  ASSUME AppInv, NEW f \in Flows, flow[f].at = "check", Usable(f),
         NEW next \in FlowType, flow' = [flow EXCEPT ![f] = next],
         next.at \in {"bind", "consume"}, next.user = flow[f].user, next.state = flow[f].state,
         UNCHANGED <<state, installation, used>>
  PROVE  AppInv'
<1>1. flow'[f] = next
  BY DEF AppInv, AppTypeOK
<1>2. FlowOK(f)' /\ FlowInv(f)'
  BY <1>1, UsableIsUnused DEF AppInv, FlowOK, FlowInv
<1>3. LockedBy(f)' = LockedBy(f)
  BY <1>1 DEF LockedBy
<1> QED
  BY <1>2, <1>3, ReadStep DEF AppInv, AppTypeOK

\* A setup goes on with a live state of its user.
LEMMA CheckSetupStep ==
  ASSUME AppInv, NEW f \in Flows, CheckSetup(f)
  PROVE  AppInv'
<1> DEFINE next == [flow[f] EXCEPT !.at = "bind"]
<1>1. CASE Finish(f)
  BY <1>1, FinishStep DEF CheckSetup
<1>2. CASE Usable(f) /\ To(f, "bind")
  <2>1. flow[f] \in FlowType
    BY DEF AppInv, AppTypeOK, FlowType
  <2>2. /\ next \in FlowType /\ next.at = "bind" /\ next.user = flow[f].user
        /\ next.state = flow[f].state
    BY <2>1 DEF FlowType, Points
  <2>3. flow' = [flow EXCEPT ![f] = next]
    BY <1>2 DEF To, Moves
  <2> QED
    BY <1>2, <2>2, <2>3, CheckStep DEF CheckSetup
<1> QED
  BY <1>1, <1>2 DEF CheckSetup

\* A callback goes on with a live state, which was therefore never consumed.
LEMMA CheckCallbackStep ==
  ASSUME AppInv, NEW f \in Flows, CheckCallback(f)
  PROVE  AppInv'
<1> DEFINE i == state[flow[f].state].pending
           next == [flow[f] EXCEPT !.at = "consume", !.pending = i]
<1>1. CASE Finish(f)
  BY <1>1, FinishStep DEF CheckCallback
<1>2. CASE Usable(f) /\ Moves(f, next)
  <2>1. flow[f] \in FlowType /\ flow[f].state \in States
    BY DEF AppInv, AppTypeOK, FlowType, FlowOK, CheckCallback
  <2>2. i \in Installations \cup {Nobody}
    BY <2>1 DEF AppInv, AppTypeOK
  <2>3. /\ next \in FlowType /\ next.at = "consume" /\ next.user = flow[f].user
        /\ next.state = flow[f].state
    BY <2>1, <2>2 DEF FlowType, Points
  <2>4. flow' = [flow EXCEPT ![f] = next]
    BY <1>2 DEF Moves
  <2> QED
    BY <1>2, <2>3, <2>4, CheckStep DEF CheckCallback
<1> QED
  BY <1>1, <1>2 DEF CheckCallback

\* A setup binds its state to an installation and does not consume it.
LEMMA BindStep ==
  ASSUME AppInv, NEW f \in Flows, Bind(f)
  PROVE  AppInv'
<1>1. flow' = [flow EXCEPT ![f] = Idle] /\ flow'[f] = Idle
  BY DEF Bind, Finish, Moves, AppInv, AppTypeOK
<1>2. /\ flow[f].state \in States /\ used[flow[f].state] <= 0
      /\ flow[f].pending \in Installations \cup {Nobody}
      /\ used' = used /\ used \in [States -> Int] /\ installation' = installation
  BY DEF Bind, AppInv, FlowOK, FlowInv, AppTypeOK
<1>3. /\ \A x \in States : x # flow[f].state => state'[x] = state[x]
      /\ state' \in [States -> StateType]
  BY <1>2 DEF Bind, AppInv, AppTypeOK, StateType
<1>4. LockedBy(f)' = {} /\ FlowInv(f)' /\ FlowOK(f)'
  BY <1>1, FlowRows, Released DEF FlowOK
<1>5. /\ flow' \in [Flows -> FlowType] /\ FlowsExclusive'
      /\ \A g \in Flows : FlowOK(g)' /\ FlowInv(g)'
  BY <1>1, <1>2, <1>4, FlowRows, FlowStep
<1>6. \A x \in States : StateInv(x)'
  BY <1>2, <1>3 DEF AppInv, StateInv
<1>7. AppTypeOK'
  BY <1>2, <1>3, <1>5 DEF AppInv, AppTypeOK, FlowType, StateType
<1> QED
  BY <1>5, <1>6, <1>7 DEF AppInv

\* A state is consumed by the request that has locked and checked it.
LEMMA ConsumeStep ==
  ASSUME AppInv, NEW f \in Flows, Consume(f)
  PROVE  AppInv'
<1> DEFINE next == [flow[f] EXCEPT !.at = "exchange"]
           t == flow[f].state
<1>1. flow[f] \in FlowType
  BY DEF AppInv, AppTypeOK, FlowType
<1>2. /\ next \in FlowType /\ next.at = "exchange" /\ next.user = flow[f].user
      /\ next.state = flow[f].state
  BY <1>1 DEF FlowType, Points
<1>3. flow' = [flow EXCEPT ![f] = next] /\ flow'[f] = next /\ installation' = installation
  BY DEF Consume, To, Moves, AppInv, AppTypeOK
<1>4. t \in States /\ used[t] <= 0 /\ t \in LockedBy(f) /\ flow[f].user \in Users
  BY DEF Consume, AppInv, FlowOK, FlowInv, LockedBy
<1>5. used' \in [States -> Int] /\ \A x \in States : used'[x] = IF x = t THEN used[t] + 1 ELSE used[x]
  BY <1>4 DEF Consume, AppInv, AppTypeOK
<1>6. state' \in [States -> StateType] /\ state'[t].consumed
      /\ \A x \in States \ {t} : state'[x] = state[x]
  BY <1>4 DEF Consume, AppInv, AppTypeOK, StateType
<1> HIDE DEF next
<1>7. LockedBy(f)' = {} /\ FlowInv(f)'
  BY <1>2, <1>3, Released
<1>8. FlowOK(f)'
  BY <1>2, <1>3, <1>4 DEF FlowOK
<1>9. /\ flow' \in [Flows -> FlowType] /\ FlowsExclusive'
      /\ \A g \in Flows : FlowOK(g)' /\ FlowInv(g)'
  <2>1. \A x \in States : used'[x] # used[x] => x \in LockedBy(f)
    BY <1>4, <1>5
  <2> QED
    BY <2>1, <1>2, <1>3, <1>5, <1>7, <1>8, FlowStep
<1>10. \A x \in States : StateInv(x)'
  <2> SUFFICES ASSUME NEW x \in States PROVE StateInv(x)'
    OBVIOUS
  <2>1. CASE x = t
    <3>1. used[t] \in Int /\ used'[t] = used[t] + 1
      BY <1>4, <1>5 DEF AppInv, AppTypeOK
    <3> QED
      BY <2>1, <1>4, <1>6, <3>1 DEF StateInv
  <2>2. CASE x # t
    BY <2>2, <1>5, <1>6 DEF AppInv, StateInv
  <2> QED
    BY <2>1, <2>2
<1>11. AppTypeOK'
  BY <1>3, <1>5, <1>6, <1>9 DEF AppInv, AppTypeOK, FlowType, StateType
<1> QED
  BY <1>9, <1>10, <1>11 DEF AppInv

\* The requests to GitHub change no row.
LEMMA AskStep ==
  ASSUME AppInv, NEW f \in Flows, ExchangeCode(f) \/ VerifyInstallation(f) \/ Identify(f)
  PROVE  AppInv'
<1>1. PICK n \in {"verify", "identify", "findInstallation", "cleanup"} : To(f, n)
  BY DEF ExchangeCode, VerifyInstallation, Identify, Ask
<1>2. /\ n \in Points /\ flow[f].at \in {"exchange", "verify", "identify"}
      /\ UNCHANGED <<state, installation, used>>
  BY DEF Points, ExchangeCode, VerifyInstallation, Identify, Ask
<1> QED
  BY <1>1, <1>2, ToStep DEF AppInv, AppTypeOK

\* What is found of the installation decides only what is tried next.
LEMMA FindInstallationStep ==
  ASSUME AppInv, NEW f \in Flows, FindInstallation(f)
  PROVE  AppInv'
<1>1. PICK n \in {"create", "cleanup"} : To(f, n)
  BY DEF FindInstallation
<1>2. n \in Points
  BY DEF Points
<1> QED
  BY <1>1, <1>2, ToStep DEF FindInstallation, AppInv, AppTypeOK

\* The unique index decides who connects an installation.
LEMMA CreateStep ==
  ASSUME AppInv, NEW f \in Flows, Create(f)
  PROVE  AppInv'
<1>1. flow[f].user \in Users
  BY DEF Create, AppInv, FlowOK
<1>2. installation' \in [Installations -> Users \cup {Nobody}]
  BY <1>1 DEF Create, AppInv, AppTypeOK
<1>3. "cleanup" \in Points
  BY DEF Points
<1> QED
  BY <1>2, <1>3, ToStep DEF Create

\* The consumed state is deleted.
LEMMA CleanupStep ==
  ASSUME AppInv, NEW f \in Flows, Cleanup(f)
  PROVE  AppInv'
<1>1. flow' = [flow EXCEPT ![f] = Idle] /\ flow'[f] = Idle
  BY DEF Cleanup, Finish, Moves, AppInv, AppTypeOK
<1>2. /\ used' = used /\ used \in [States -> Int] /\ installation' = installation
      /\ \A x \in States : state'[x] = state[x] \/ state'[x] = Absent
      /\ state' \in [States -> StateType]
  BY FlowRows DEF Cleanup, AppInv, AppTypeOK, StateType
<1>3. LockedBy(f)' = {} /\ FlowInv(f)' /\ FlowOK(f)'
  BY <1>1, FlowRows, Released DEF FlowOK
<1>4. /\ flow' \in [Flows -> FlowType] /\ FlowsExclusive'
      /\ \A g \in Flows : FlowOK(g)' /\ FlowInv(g)'
  BY <1>1, <1>2, <1>3, FlowRows, FlowStep
<1>5. \A x \in States : StateInv(x)'
  BY <1>2 DEF AppInv, StateInv
<1>6. AppTypeOK'
  BY <1>2, <1>4 DEF AppInv, AppTypeOK, FlowType, StateType
<1> QED
  BY <1>4, <1>5, <1>6 DEF AppInv

\* An expiry takes no state from the request that has checked it.
LEMMA ExpireStep ==
  ASSUME AppInv, NEW s \in States, Expire(s)
  PROVE  AppInv'
<1>1. UNCHANGED <<installation, flow, used>>
  BY DEF Expire
<1>2. state[s] # Absent
  BY FlowRows DEF Expire
<1>3. /\ \A x \in States : state'[x] = state[x] \/ (x = s /\ state'[x].consumed = state[x].consumed)
      /\ state' \in [States -> StateType]
  <2>1. state \in [States -> StateType]
    BY DEF AppInv, AppTypeOK, StateType
  <2>2. [state[s] EXCEPT !.live = FALSE] \in StateType
    BY <2>1 DEF StateType
  <2>3. [state[s] EXCEPT !.live = FALSE].consumed = state[s].consumed
    BY <2>1 DEF StateType
  <2>4. state' = [state EXCEPT ![s] = [state[s] EXCEPT !.live = FALSE]]
    BY DEF Expire
  <2> QED
    BY <2>1, <2>2, <2>3, <2>4
<1>4. \A f \in Flows : FlowOK(f)' /\ FlowInv(f)' /\ LockedBy(f)' = LockedBy(f)
  BY <1>1 DEF AppInv, FlowOK, FlowInv, LockedBy
<1>5. \A x \in States : StateInv(x)'
  BY <1>1, <1>2, <1>3 DEF AppInv, StateInv
<1>6. AppTypeOK'
  BY <1>1, <1>3 DEF AppInv, AppTypeOK, StateType
<1> QED
  BY <1>4, <1>5, <1>6 DEF AppInv, FlowsExclusive

\* Every step keeps the invariant.
LEMMA AppNextInv == AppInv /\ [AppNext]_appVars => AppInv'
<1> SUFFICES ASSUME AppInv, [AppNext]_appVars PROVE AppInv'
  OBVIOUS
<1>1. CASE UNCHANGED appVars
  <2>1. UNCHANGED <<state, installation, flow, used>>
    BY <1>1 DEF appVars
  <2> QED
    BY <2>1 DEF AppInv, AppTypeOK, FlowOK, FlowInv, StateInv, FlowsExclusive, LockedBy
<1>2. ASSUME NEW f \in Flows,
             \/ Arrive(f) \/ DeleteStates(f) \/ CreateState(f) \/ LockState(f)
             \/ CheckSetup(f) \/ Bind(f) \/ CheckCallback(f) \/ Consume(f)
             \/ ExchangeCode(f) \/ VerifyInstallation(f) \/ Identify(f)
             \/ FindInstallation(f) \/ Create(f) \/ Cleanup(f) \/ Crash(f)
      PROVE  AppInv'
  <2>1. CASE Arrive(f)
    BY <2>1, ArriveStep
  <2>2. CASE DeleteStates(f)
    BY <2>2, DeleteStatesStep
  <2>3. CASE CreateState(f)
    BY <2>3, CreateStateStep
  <2>4. CASE LockState(f)
    BY <2>4, LockStateStep
  <2>5. CASE CheckSetup(f)
    BY <2>5, CheckSetupStep
  <2>6. CASE Bind(f)
    BY <2>6, BindStep
  <2>7. CASE CheckCallback(f)
    BY <2>7, CheckCallbackStep
  <2>8. CASE Consume(f)
    BY <2>8, ConsumeStep
  <2>9. CASE ExchangeCode(f)
    BY <2>9, AskStep
  <2>10. CASE VerifyInstallation(f)
    BY <2>10, AskStep
  <2>11. CASE Identify(f)
    BY <2>11, AskStep
  <2>12. CASE FindInstallation(f)
    BY <2>12, FindInstallationStep
  <2>13. CASE Create(f)
    BY <2>13, CreateStep
  <2>14. CASE Cleanup(f)
    BY <2>14, CleanupStep
  <2>15. CASE Crash(f)
    BY <2>15, FinishStep DEF Crash
  <2> QED
    BY <1>2, <2>1, <2>2, <2>3, <2>4, <2>5, <2>6, <2>7, <2>8, <2>9, <2>10, <2>11, <2>12, <2>13,
       <2>14, <2>15
<1> QED
  BY <1>1, <1>2, ExpireStep DEF AppNext

-----------------------------------------------------------------------------
\* A step takes no installation from the user who has it.
LEMMA InstallationsStay ==
  ASSUME AppInv, AppNext, NEW i \in Installations, installation[i] # Nobody
  PROVE  installation'[i] = installation[i]
<1>1. ASSUME NEW f \in Flows, Create(f)
      PROVE  installation'[i] = installation[i]
  BY <1>1 DEF Create, AppInv, AppTypeOK
<1>2. CASE installation' = installation
  BY <1>2
<1>3. (\E f \in Flows : Create(f)) \/ installation' = installation
  BY DEF AppNext, Arrive, DeleteStates, CreateState, LockState, CheckSetup, Bind, CheckCallback,
         Consume, ExchangeCode, VerifyInstallation, Identify, Ask, FindInstallation, Cleanup,
         Crash, Expire
<1> QED
  BY <1>1, <1>2, <1>3

\* The inductive invariant of the authorization: what an open request has found out
\* about its state still holds, because it has locked the row.
THEOREM AppInvariance == AppSpec => []AppInv
BY AppInitInv, AppNextInv, PTL DEF AppSpec

\* Every value that the service keeps of states, installations and requests is of
\* its type.
THEOREM AppTypeCorrect == AppSpec => []AppTypeOK
<1>1. AppInv => AppTypeOK
  BY DEF AppInv
<1> QED
  BY <1>1, AppInvariance, PTL

\* consumeState and completeCallback: for any number of users, states, callbacks
\* and installations a state is consumed once, and no installation changes hands.
THEOREM FlowsStayExclusive == AppSpec => FlowsAreExclusive
<1>1. AppInv /\ AppInv' /\ [AppNext]_appVars =>
        [/\ \A s \in States : used'[s] <= 1
         /\ \A i \in Installations : installation[i] # Nobody => installation'[i] = installation[i]]_appVars
  BY InstallationsStay DEF AppInv, StateInv
<1> QED
  BY <1>1, AppInvariance, PTL DEF AppSpec, FlowsAreExclusive
=============================================================================
