------------------------- MODULE TimeTrackingProofs -------------------------
(***************************************************************************)
(* Proofs about TimeTracking, for any number of users, Tasks, entries and  *)
(* requests and any clock.  The argument: from the statement that locks    *)
(* the User row on, a request to start or stop is the only one that gives  *)
(* the user a timer or ends it, and the deletion of a Task, which does not *)
(* lock the user, waits for the TimeLog row.                               *)
(***************************************************************************)
EXTENDS TimeTracking, TLAPS

\* The statements of each kind of request.
StatementsOf(kind) ==
  CASE kind = "start" -> {"resolve", "lockUser", "check", "insert"}
    [] kind = "stop" -> {"lockUser", "lockTimer", "finish"}
    [] kind = "manual" -> {"resolve", "insert"}
    [] OTHER -> {"lockProject", "lockTask", "record", "delete"}

\* Past lockUser, start and stop have the User row.
HasUser(r) ==
  \/ pc[r] \in {"check", "lockTimer", "finish"}
  \/ pc[r] = "insert" /\ req[r].kind = "start"

RequestInv(r) ==
  /\ pc[r] # "idle" => req[r] \in Request /\ pc[r] \in StatementsOf(req[r].kind)
  /\ HasUser(r) => holder[<<"User", req[r].user>>] = r
  /\ pc[r] = "insert" /\ req[r].kind = "start" => Running(r) = {}
  /\ pc[r] = "finish" =>
       /\ req[r].timer \in Running(r)
       /\ entry[req[r].timer].task = req[r].task
       /\ holder[<<"Entry", req[r].timer>>] = r

IInv ==
  /\ TypeOK
  /\ \A r \in Requests : RequestInv(r)
  /\ OneRunningTimer
  /\ EntriesPassCheck
  /\ EntriesHaveTheirTask

-----------------------------------------------------------------------------
(* Locks and rows.                                                         *)

\* The rows that are locked.
LEMMA Rows ==
  /\ Project \in LockRows
  /\ \A u \in Users : <<"User", u>> \in LockRows
  /\ \A t \in Tasks : <<"Task", t>> \in LockRows
  /\ \A e \in Entries : <<"Entry", e>> \in LockRows
BY DEF LockRows

\* An open request names rows that exist, and the next statement locks such.
LEMMA WantedRows ==
  ASSUME TypeOK, NEW r \in Requests, req[r] \in Request
  PROVE  Wants(r) \subseteq LockRows /\ RefersTo(r) \subseteq LockRows
<1>1. req[r].user \in Users /\ req[r].task \in Tasks
  BY DEF Request
<1>2. \A e \in Running(r) : e \in Entries
  BY DEF Running, Stored
<1>3. \A e \in Stored : e \in Entries
  BY DEF Stored
<1> QED
  BY <1>1, <1>2, <1>3, Rows DEF Wants, RefersTo

\* A request that ends gives up its own locks only.
LEMMA ReleaseKeeps ==
  ASSUME TypeOK, NEW r \in Requests, ReleaseLocks(r)
  PROVE  /\ LocksTypeOK(LockRows, Requests)'
         /\ \A x \in LockRows, q \in Requests \ {r} : holder[x] = q => holder'[x] = q
BY EntryNoneAssumption DEF ReleaseLocks, TypeOK, LocksTypeOK

\* A granted statement takes the locks it wants, and none from another request.
LEMMA LockKeeps ==
  ASSUME TypeOK, NEW r \in Requests, req[r] \in Request, Granted(r), NEW next \in PCs,
         Lock(r, next)
  PROVE  /\ LocksTypeOK(LockRows, Requests)'
         /\ \A x \in LockRows, q \in Requests : holder[x] = q => holder'[x] = q
         /\ \A x \in Wants(r) : holder'[x] = r
<1> DEFINE X == Wants(r)
           K == RefersTo(r)
<1>1. X \subseteq LockRows /\ K \subseteq LockRows
  BY WantedRows
<1>2. ForUpdate(r, X) /\ KeyShare(r, K)
  BY DEF Lock
<1> HIDE DEF X, K
<1>3. /\ holder \in [LockRows -> Requests \cup {None}]
      /\ sharers \in [LockRows -> SUBSET Requests]
  BY DEF TypeOK, LocksTypeOK
<1>4. /\ holder' = [x \in LockRows |-> IF x \in X THEN r ELSE holder[x]]
      /\ sharers' = [x \in LockRows |-> IF x \in K THEN sharers[x] \cup {r} ELSE sharers[x]]
      /\ \A x \in X : holder[x] \in {None, r}
  BY <1>2, <1>3 DEF ForUpdate, KeyShare, CanForUpdate
<1>5. LocksTypeOK(LockRows, Requests)'
  BY <1>3, <1>4 DEF LocksTypeOK
<1>6. \A x \in LockRows, q \in Requests : holder[x] = q => holder'[x] = q
  BY <1>4, EntryNoneAssumption
<1>7. \A x \in X : holder'[x] = r
  BY <1>1, <1>4
<1> QED
  BY <1>5, <1>6, <1>7 DEF X

\* A stored entry has a user and a Task; NoEntry does not.
LEMMA StoredEntries ==
  ASSUME TypeOK
  PROVE  /\ Stored \subseteq Entries
         /\ \A e \in Stored : entry[e] \in Entry
         /\ NoEntry \notin Entry
<1>1. NoEntry.user = None /\ None \notin Users
  BY EntryNoneAssumption DEF NoEntry
<1>2. \A x \in Entry : x.user \in Users
  BY DEF Entry
<1> QED
  BY <1>1, <1>2 DEF TypeOK, Stored

-----------------------------------------------------------------------------
(* What a step of one request leaves to the others.                        *)

\* A request that nobody disturbs keeps its part of the invariant.
LEMMA OthersKeep ==
  ASSUME IInv, NEW r \in Requests, NEW q \in Requests \ {r},
         pc'[q] = pc[q], req'[q] = req[q],
         \A x \in LockRows : holder[x] = q => holder'[x] = q,
         pc[q] = "insert" /\ req[q].kind = "start" => Running(q)' = {},
         pc[q] = "finish" => req[q].timer \in Running(q)' /\ entry'[req[q].timer].task = req[q].task
  PROVE  RequestInv(q)'
<1>1. RequestInv(q) /\ TypeOK
  BY DEF IInv
<1>2. HasUser(q)' <=> HasUser(q)
  BY DEF HasUser
<1>3. HasUser(q) => holder'[<<"User", req[q].user>>] = q
  <2> SUFFICES ASSUME HasUser(q) PROVE holder'[<<"User", req[q].user>>] = q
    OBVIOUS
  <2>1. pc[q] # "idle" /\ holder[<<"User", req[q].user>>] = q
    BY <1>1 DEF HasUser, RequestInv
  <2>2. req[q].user \in Users
    BY <1>1, <2>1 DEF RequestInv, Request
  <2> QED
    BY <2>1, <2>2, Rows
<1>4. pc[q] = "finish" => holder'[<<"Entry", req[q].timer>>] = q
  <2> SUFFICES ASSUME pc[q] = "finish" PROVE holder'[<<"Entry", req[q].timer>>] = q
    OBVIOUS
  <2>1. holder[<<"Entry", req[q].timer>>] = q /\ req[q].timer \in Entries
    BY <1>1 DEF RequestInv, Running, Stored
  <2> QED
    BY <2>1, Rows
<1> QED
  BY <1>1, <1>2, <1>3, <1>4 DEF RequestInv

\* A step of r that writes nothing keeps everything but the part of r itself.
LEMMA QuietInv ==
  ASSUME IInv, NEW r \in Requests, UNCHANGED <<tasks, access, entry>>, RequestInv(r)',
         pc' \in [Requests -> PCs], req' \in [Requests -> Request \cup {NoRequest}],
         LocksTypeOK(LockRows, Requests)',
         \A q \in Requests \ {r} : pc'[q] = pc[q] /\ req'[q] = req[q],
         \A x \in LockRows, q \in Requests \ {r} : holder[x] = q => holder'[x] = q
  PROVE  IInv'
<1>1. TypeOK'
  BY DEF IInv, TypeOK
<1>2. ASSUME NEW q \in Requests \ {r} PROVE RequestInv(q)'
  <2>1. RequestInv(q)
    BY DEF IInv
  <2>2. pc'[q] = pc[q] /\ req'[q] = req[q]
    OBVIOUS
  <2>3. Running(q)' = Running(q)
    BY <2>2 DEF Running, Stored
  <2>4. \A x \in LockRows : holder[x] = q => holder'[x] = q
    OBVIOUS
  <2>5. pc[q] = "insert" /\ req[q].kind = "start" => Running(q)' = {}
    BY <2>1, <2>3 DEF RequestInv
  <2>6. pc[q] = "finish" => req[q].timer \in Running(q)' /\ entry'[req[q].timer].task = req[q].task
    BY <2>1, <2>3 DEF RequestInv
  <2> QED
    BY <2>2, <2>4, <2>5, <2>6, OthersKeep
<1>3. OneRunningTimer' /\ EntriesPassCheck' /\ EntriesHaveTheirTask'
  BY DEF IInv, OneRunningTimer, EntriesPassCheck, EntriesHaveTheirTask, Stored
<1> QED
  BY <1>1, <1>2, <1>3 DEF IInv

\* A request that ends has its part of the invariant.
LEMMA EndInv ==
  ASSUME IInv, NEW r \in Requests, End(r)
  PROVE  /\ pc' \in [Requests -> PCs] /\ req' \in [Requests -> Request \cup {NoRequest}]
         /\ LocksTypeOK(LockRows, Requests)' /\ RequestInv(r)'
         /\ \A q \in Requests \ {r} : pc'[q] = pc[q] /\ req'[q] = req[q]
         /\ \A x \in LockRows, q \in Requests \ {r} : holder[x] = q => holder'[x] = q
<1>1. TypeOK
  BY DEF IInv
<1>2. /\ pc' = [pc EXCEPT ![r] = "idle"] /\ req' = [req EXCEPT ![r] = NoRequest]
      /\ ReleaseLocks(r)
  BY DEF End, Goto
<1>3. /\ pc'[r] = "idle"
      /\ pc' \in [Requests -> PCs] /\ req' \in [Requests -> Request \cup {NoRequest}]
      /\ \A q \in Requests \ {r} : pc'[q] = pc[q] /\ req'[q] = req[q]
  BY <1>1, <1>2 DEF TypeOK, PCs
<1>4. RequestInv(r)'
  BY <1>3 DEF RequestInv, HasUser
<1> QED
  BY <1>1, <1>2, <1>3, <1>4, ReleaseKeeps

\* A request that is refused or fails changes nothing.
LEMMA RollbackInv ==
  ASSUME IInv, NEW r \in Requests, Rollback(r)
  PROVE  IInv'
BY EndInv, QuietInv DEF Rollback

\* A statement that takes no lock and writes nothing.
LEMMA ProceedInv ==
  ASSUME IInv, NEW r \in Requests, NEW next \in PCs, Goto(r, next),
         UNCHANGED <<tasks, access, entry, req, holder, sharers>>, RequestInv(r)'
  PROVE  IInv'
<1>1. pc' = [pc EXCEPT ![r] = next] /\ TypeOK
  BY DEF Goto, IInv
<1>2. /\ pc' \in [Requests -> PCs] /\ req' \in [Requests -> Request \cup {NoRequest}]
      /\ LocksTypeOK(LockRows, Requests)'
  BY <1>1 DEF TypeOK, LocksTypeOK
<1>3. \A q \in Requests \ {r} : pc'[q] = pc[q] /\ req'[q] = req[q]
  BY <1>1 DEF TypeOK
<1>4. \A x \in LockRows, q \in Requests \ {r} : holder[x] = q => holder'[x] = q
  OBVIOUS
<1> QED
  BY <1>2, <1>3, <1>4, QuietInv

\* A statement that takes locks and writes nothing.
LEMMA LockInv ==
  ASSUME IInv, NEW r \in Requests, req[r] \in Request, NEW next \in PCs, Granted(r),
         Lock(r, next), NEW request \in Request, req' = [req EXCEPT ![r] = request],
         RequestInv(r)'
  PROVE  IInv'
<1>1. TypeOK
  BY DEF IInv
<1>2. pc' = [pc EXCEPT ![r] = next] /\ UNCHANGED <<tasks, access, entry>>
  BY DEF Lock, Goto
<1>3. /\ pc' \in [Requests -> PCs] /\ req' \in [Requests -> Request \cup {NoRequest}]
      /\ \A q \in Requests \ {r} : pc'[q] = pc[q] /\ req'[q] = req[q]
  BY <1>1, <1>2 DEF TypeOK
<1>4. /\ LocksTypeOK(LockRows, Requests)'
      /\ \A x \in LockRows, q \in Requests \ {r} : holder[x] = q => holder'[x] = q
  BY <1>1, LockKeeps
<1> QED
  BY <1>2, <1>3, <1>4, QuietInv

-----------------------------------------------------------------------------
(* Each statement keeps the invariant.                                     *)

\* What the invariant says of an open request.
LEMMA OpenRequest ==
  ASSUME IInv, NEW r \in Requests, pc[r] # "idle"
  PROVE  /\ TypeOK /\ RequestInv(r) /\ req[r] \in Request
         /\ req[r].user \in Users /\ req[r].task \in Tasks /\ req[r].kind \in Kinds
         /\ pc[r] \in StatementsOf(req[r].kind)
BY DEF IInv, RequestInv, Request

\* A request starts without a lock.
LEMMA BeginInv ==
  ASSUME IInv, NEW r \in Requests, Begin(r)
  PROVE  IInv'
<1>1. PICK kind \in Kinds, u \in Users, t \in Tasks :
        /\ req' = [req EXCEPT ![r] = [kind |-> kind, user |-> u, task |-> t, timer |-> None]]
        /\ Goto(r, First(kind))
  BY DEF Begin
<1> DEFINE request == [kind |-> kind, user |-> u, task |-> t, timer |-> None]
<1>2. request \in Request /\ request.kind = kind
  BY DEF Request
<1> HIDE DEF request
<1>3. /\ First(kind) \in PCs /\ First(kind) \in StatementsOf(kind)
      /\ First(kind) \in {"lockUser", "lockProject", "resolve"}
  BY DEF First, PCs, StatementsOf, Kinds
<1>4. TypeOK /\ UNCHANGED <<tasks, access, entry, holder, sharers>>
  BY DEF Begin, IInv
<1>5. /\ pc' = [pc EXCEPT ![r] = First(kind)] /\ req' = [req EXCEPT ![r] = request]
  BY <1>1 DEF Goto, request
<1>6. /\ pc' \in [Requests -> PCs] /\ req' \in [Requests -> Request \cup {NoRequest}]
      /\ \A q \in Requests \ {r} : pc'[q] = pc[q] /\ req'[q] = req[q]
      /\ pc'[r] = First(kind) /\ req'[r] = request
  BY <1>2, <1>3, <1>4, <1>5 DEF TypeOK
<1>7. RequestInv(r)'
  BY <1>2, <1>3, <1>6 DEF RequestInv, HasUser
<1>8. LocksTypeOK(LockRows, Requests)'
  BY <1>4 DEF TypeOK, LocksTypeOK
<1>9. \A x \in LockRows, q \in Requests \ {r} : holder[x] = q => holder'[x] = q
  BY <1>4
<1> QED
  BY <1>4, <1>6, <1>7, <1>8, <1>9, QuietInv

\* The Task is found before any lock, and nothing is known of it later.
LEMMA ResolveTaskInv ==
  ASSUME IInv, NEW r \in Requests, ResolveTask(r)
  PROVE  IInv'
<1> DEFINE next == IF req[r].kind = "start" THEN "lockUser" ELSE "insert"
<1>1. CASE ~(req[r].task \in tasks /\ req[r].user \in access)
  BY <1>1, RollbackInv DEF ResolveTask
<1>2. CASE req[r].task \in tasks /\ req[r].user \in access
  <2>1. /\ pc[r] = "resolve" /\ Goto(r, next)
        /\ UNCHANGED <<tasks, access, entry, req, holder, sharers>>
    BY <1>2 DEF ResolveTask
  <2>2. TypeOK /\ RequestInv(r) /\ req[r] \in Request /\ pc[r] \in StatementsOf(req[r].kind)
    BY <2>1, OpenRequest
  <2>3. req[r].kind \in {"start", "manual"}
    BY <2>1, <2>2 DEF StatementsOf, Request, Kinds
  <2>4. next \in PCs /\ pc'[r] = next
    BY <2>1, <2>2 DEF PCs, Goto, TypeOK
  <2>5. RequestInv(r)'
    BY <2>1, <2>2, <2>3, <2>4 DEF RequestInv, HasUser, StatementsOf
  <2> QED
    BY <2>1, <2>4, <2>5, ProceedInv
<1> QED
  BY <1>1, <1>2

\* From LockUser on, the request has the User row.
LEMMA LockUserInv ==
  ASSUME IInv, NEW r \in Requests, LockUser(r)
  PROVE  IInv'
<1> DEFINE next == IF req[r].kind = "start" THEN "check" ELSE "lockTimer"
<1>1. pc[r] = "lockUser" /\ Granted(r) /\ Lock(r, next) /\ UNCHANGED req
  BY DEF LockUser
<1>2. /\ TypeOK /\ RequestInv(r) /\ req[r] \in Request /\ pc[r] \in StatementsOf(req[r].kind)
      /\ req[r].user \in Users
  BY <1>1, OpenRequest
<1>3. req[r].kind \in {"start", "stop"}
  BY <1>1, <1>2 DEF StatementsOf, Request, Kinds
<1>4. next \in PCs /\ pc'[r] = next
  BY <1>1, <1>2 DEF PCs, Lock, Goto, TypeOK
<1>5. holder'[<<"User", req[r].user>>] = r
  BY <1>1, <1>2, <1>4, LockKeeps DEF Wants
<1>6. RequestInv(r)'
  BY <1>1, <1>2, <1>3, <1>4, <1>5 DEF RequestInv, HasUser, StatementsOf
<1>7. req' = [req EXCEPT ![r] = req[r]]
  BY <1>1, <1>2 DEF TypeOK
<1> QED
  BY <1>1, <1>2, <1>4, <1>6, <1>7, LockInv

\* A start past its check has a user without a timer.
LEMMA CheckRunningInv ==
  ASSUME IInv, NEW r \in Requests, CheckRunning(r)
  PROVE  IInv'
<1>1. CASE Running(r) # {}
  BY <1>1, RollbackInv DEF CheckRunning
<1>2. CASE Running(r) = {}
  <2>1. /\ pc[r] = "check" /\ Goto(r, "insert")
        /\ UNCHANGED <<tasks, access, entry, req, holder, sharers>>
    BY <1>2 DEF CheckRunning
  <2>2. TypeOK /\ RequestInv(r) /\ req[r] \in Request /\ pc[r] \in StatementsOf(req[r].kind)
    BY <2>1, OpenRequest
  <2>3. req[r].kind = "start"
    BY <2>1, <2>2 DEF StatementsOf, Request, Kinds
  <2>4. pc'[r] = "insert" /\ Running(r)' = {}
    BY <1>2, <2>1, <2>2 DEF Goto, TypeOK, Running, Stored
  <2>5. RequestInv(r)'
    BY <2>1, <2>2, <2>3, <2>4 DEF RequestInv, HasUser, StatementsOf
  <2> QED
    BY <2>1, <2>5, ProceedInv DEF PCs
<1> QED
  BY <1>1, <1>2

\* A stop has the row of a timer that runs.
LEMMA LockTimerInv ==
  ASSUME IInv, NEW r \in Requests, LockTimer(r)
  PROVE  IInv'
<1>1. CASE \A e \in Running(r) : entry[e].task # req[r].task
  BY <1>1, RollbackInv DEF LockTimer
<1>2. CASE \E e \in Running(r) : entry[e].task = req[r].task
  <2>1. pc[r] = "lockTimer" /\ Granted(r)
    BY DEF LockTimer
  <2>2. PICK e \in Running(r) : /\ entry[e].task = req[r].task
                                /\ Lock(r, "finish")
                                /\ req' = [req EXCEPT ![r].timer = e]
    BY <1>2 DEF LockTimer
  <2>3. /\ TypeOK /\ RequestInv(r) /\ req[r] \in Request /\ pc[r] \in StatementsOf(req[r].kind)
    BY <2>1, OpenRequest
  <2>4. e \in Entries
    BY DEF Running, Stored
  <2> DEFINE request == [req[r] EXCEPT !.timer = e]
  <2>5. /\ request \in Request /\ request.kind = req[r].kind /\ request.user = req[r].user
        /\ request.task = req[r].task /\ request.timer = e
    BY <2>3, <2>4 DEF Request
  <2>6. req' = [req EXCEPT ![r] = request]
    BY <2>2, <2>3 DEF TypeOK
  <2> HIDE DEF request
  <2>7. req'[r] = request /\ pc'[r] = "finish" /\ UNCHANGED entry
    BY <2>2, <2>3, <2>6 DEF TypeOK, Lock, Goto
  <2>8. req[r].kind = "stop"
    BY <2>1, <2>3 DEF StatementsOf, Request, Kinds
  <2>9. /\ \A x \in LockRows : holder[x] = r => holder'[x] = r
        /\ \A x \in Wants(r) : holder'[x] = r
    BY <2>1, <2>2, <2>3, LockKeeps DEF PCs
  <2>10. holder[<<"User", req[r].user>>] = r /\ <<"User", req[r].user>> \in LockRows
    BY <2>1, <2>3, Rows DEF RequestInv, HasUser, Request
  <2>11. <<"Entry", e>> \in Wants(r)
    BY <2>1 DEF Wants
  <2>12. Running(r)' = Running(r)
    BY <2>5, <2>7 DEF Running, Stored
  <2>13. RequestInv(r)'
    <3>1. req'[r] \in Request /\ pc'[r] \in StatementsOf(req'[r].kind)
      BY <2>5, <2>7, <2>8 DEF StatementsOf
    <3>2. holder'[<<"User", req'[r].user>>] = r
      BY <2>5, <2>7, <2>9, <2>10
    <3>3. /\ req'[r].timer \in Running(r)' /\ entry'[req'[r].timer].task = req'[r].task
          /\ holder'[<<"Entry", req'[r].timer>>] = r
      BY <2>2, <2>5, <2>7, <2>9, <2>11, <2>12
    <3> QED
      BY <2>7, <3>1, <3>2, <3>3 DEF RequestInv
  <2> QED
    BY <2>1, <2>2, <2>3, <2>5, <2>6, <2>13, LockInv DEF PCs
<1> QED
  BY <1>1, <1>2

\* The statements of a deletion before the DELETE.
LEMMA RemovalLocksInv ==
  ASSUME IInv, NEW r \in Requests, NEW next \in {"lockTask", "record", "delete"},
         pc[r] \in {"lockProject", "lockTask", "record"}, Granted(r), Lock(r, next),
         UNCHANGED req
  PROVE  IInv'
<1>1. /\ TypeOK /\ RequestInv(r) /\ req[r] \in Request /\ pc[r] \in StatementsOf(req[r].kind)
  BY OpenRequest
<1>2. req[r].kind = "removeTask"
  BY <1>1 DEF StatementsOf, Request, Kinds
<1>3. next \in PCs /\ pc'[r] = next
  BY <1>1 DEF PCs, Lock, Goto, TypeOK
<1>4. RequestInv(r)'
  BY <1>1, <1>2, <1>3 DEF RequestInv, HasUser, StatementsOf
<1>5. req' = [req EXCEPT ![r] = req[r]]
  BY <1>1 DEF TypeOK
<1> QED
  BY <1>1, <1>3, <1>4, <1>5, LockInv

\* The deletion of a Task has its row and those of its entries.
LEMMA LockTaskInv ==
  ASSUME IInv, NEW r \in Requests, LockTask(r)
  PROVE  IInv'
<1>1. CASE ~(req[r].task \in tasks /\ req[r].user \in access)
  BY <1>1, RollbackInv DEF LockTask
<1>2. CASE req[r].task \in tasks /\ req[r].user \in access
  BY <1>2, RemovalLocksInv DEF LockTask
<1> QED
  BY <1>1, <1>2

\* The row that is inserted: its user's, its Task's, and one the table accepts.
LEMMA NewEntryFits ==
  ASSUME IInv, NEW r \in Requests, pc[r] = "insert", NEW row \in NewEntry(r)
  PROVE  /\ row \in Entry /\ row # NoEntry
         /\ row.user = req[r].user /\ row.task = req[r].task
         /\ req[r].kind = "start" <=> row.ended = None
         /\ \/ row.ended = None /\ row.seconds = None
            \/ /\ row.ended # None /\ row.seconds # None
               /\ row.ended > row.started /\ row.seconds > 0
<1>1. req[r].user \in Users /\ req[r].task \in Tasks /\ TypeOK
  BY OpenRequest
<1>2. Times \subseteq Nat /\ None \notin Nat /\ None \notin Users
  BY SecondAssumption, EntryNoneAssumption DEF Times
<1>3. CASE req[r].kind = "start"
  <2>1. PICK now \in Times :
          row = [user |-> req[r].user, task |-> req[r].task, started |-> now, ended |-> None,
                 seconds |-> None]
    BY <1>3 DEF NewEntry
  <2>2. now \in Nat
    BY <1>2
  <2>3. row \in Entry
    BY <1>1, <2>1, <2>2 DEF Entry
  <2>4. row.user # NoEntry.user
    BY <1>1, <1>2, <2>1 DEF NoEntry
  <2> QED
    BY <1>3, <2>1, <2>3, <2>4
<1>4. CASE req[r].kind # "start"
  <2>1. PICK span \in {s \in Times \X Times : ManualInterval(s[1], s[2])} :
          row = [user |-> req[r].user, task |-> req[r].task, started |-> span[1],
                 ended |-> span[2], seconds |-> (span[2] - span[1]) \div Second]
    BY <1>4 DEF NewEntry
  <2> DEFINE from == span[1]
             to == span[2]
  <2>2. from \in Nat /\ to \in Nat /\ to - from >= Second
    BY <1>2 DEF ManualInterval
  <2>3. row = [user |-> req[r].user, task |-> req[r].task, started |-> from, ended |-> to,
               seconds |-> (to - from) \div Second]
    BY <2>1
  <2> HIDE DEF from, to
  <2>4. Second \in Nat \ {0} /\ (to - from) \in Int
    BY <2>2, SecondAssumption
  <2>5. (to - from) \div Second \in Int /\ (to - from) \div Second >= 1
    BY <2>2, <2>4
  <2>6. to > from /\ to # None /\ (to - from) \div Second # None
    BY <1>2, <2>2, <2>4, <2>5
  <2>7. row \in Entry
    BY <1>1, <2>2, <2>3, <2>5 DEF Entry
  <2>8. row.user # NoEntry.user
    BY <1>1, <1>2, <2>3 DEF NoEntry
  <2> QED
    BY <1>4, <2>3, <2>5, <2>6, <2>7, <2>8
<1> QED
  BY <1>3, <1>4

\* A new timer is the only one of its user, and no other request that starts
\* one for the user is as far as that.
LEMMA InsertEntryInv ==
  ASSUME IInv, NEW r \in Requests, InsertEntry(r)
  PROVE  IInv'
<1>1. CASE Rollback(r)
  BY <1>1, RollbackInv
<1>2. CASE ~Rollback(r)
  <2>1. /\ pc[r] = "insert" /\ req[r].task \in tasks
        /\ req[r].kind = "start" => Running(r) = {}
        /\ End(r) /\ UNCHANGED <<tasks, access>>
    BY <1>2 DEF InsertEntry
  <2>2. PICK e \in Entries \ Stored, row \in NewEntry(r) : entry' = [entry EXCEPT ![e] = row]
    BY <1>2 DEF InsertEntry
  <2>3. /\ TypeOK /\ RequestInv(r) /\ req[r] \in Request
    BY <2>1, OpenRequest
  <2>4. /\ row \in Entry /\ row # NoEntry
        /\ row.user = req[r].user /\ row.task = req[r].task
        /\ req[r].kind = "start" <=> row.ended = None
        /\ \/ row.ended = None /\ row.seconds = None
           \/ /\ row.ended # None /\ row.seconds # None
              /\ row.ended > row.started /\ row.seconds > 0
    BY <2>1, NewEntryFits
  <2>5. /\ entry'[e] = row /\ \A d \in Entries \ {e} : entry'[d] = entry[d]
        /\ Stored' = Stored \cup {e} /\ Stored \subseteq Entries \ {e}
    BY <2>2, <2>3, <2>4 DEF TypeOK, Stored
  <2>6. TypeOK'
    <3>1. entry' \in [Entries -> Entry \cup {NoEntry}]
      BY <2>2, <2>3, <2>4 DEF TypeOK
    <3> QED
      BY <2>1, <2>3, <3>1, EndInv DEF TypeOK
  <2>7. OneRunningTimer'
    <3>1. \A d \in Stored : entry[d].user = row.user /\ entry[d].ended = None => row.ended # None
      BY <2>1, <2>4 DEF Running
    <3> QED
      BY <2>5, <3>1 DEF IInv, OneRunningTimer
  <2>8. EntriesPassCheck'
    BY <2>4, <2>5 DEF IInv, EntriesPassCheck
  <2>9. EntriesHaveTheirTask'
    BY <2>1, <2>4, <2>5 DEF IInv, EntriesHaveTheirTask
  <2>10. ASSUME NEW q \in Requests \ {r} PROVE RequestInv(q)'
    <3>1. RequestInv(q) /\ RequestInv(r)
      BY <2>3 DEF IInv
    <3>2. /\ pc'[q] = pc[q] /\ req'[q] = req[q]
          /\ \A x \in LockRows : holder[x] = q => holder'[x] = q
      BY <2>1, EndInv
    <3>3. pc[q] = "insert" /\ req[q].kind = "start" => Running(q)' = {}
      <4> SUFFICES ASSUME pc[q] = "insert", req[q].kind = "start"
                   PROVE  Running(q)' = {}
        OBVIOUS
      <4>1. Running(q) = {} /\ holder[<<"User", req[q].user>>] = q
        BY <3>1 DEF RequestInv, HasUser
      <4>2. row.ended = None => holder[<<"User", row.user>>] = r
        BY <2>1, <2>4, <3>1 DEF RequestInv, HasUser
      <4>3. ~(row.user = req[q].user /\ row.ended = None)
        BY <4>1, <4>2
      <4> QED
        BY <2>5, <3>2, <4>1, <4>3 DEF Running
    <3>4. pc[q] = "finish" => req[q].timer \in Running(q)' /\ entry'[req[q].timer].task = req[q].task
      BY <2>5, <3>1, <3>2 DEF RequestInv, Running
    <3> QED
      BY <3>2, <3>3, <3>4, OthersKeep
  <2> QED
    BY <2>1, <2>6, <2>7, <2>8, <2>9, <2>10, EndInv DEF IInv
<1> QED
  BY <1>1, <1>2

\* What a stop writes.
LEMMA ElapsedPositive ==
  ASSUME NEW started \in Nat, NEW now \in Nat
  PROVE  /\ EndTime(started, now) \in Nat /\ EndTime(started, now) > started
         /\ Elapsed(started, EndTime(started, now)) \in Int
         /\ Elapsed(started, EndTime(started, now)) > 0
<1> DEFINE ended == EndTime(started, now)
<1>1. ended \in Nat /\ ended > started
  BY DEF EndTime
<1> HIDE DEF ended
<1>2. Second \in Nat \ {0}
  BY SecondAssumption
<1>3. (ended - started + Second - 1) \div Second \in Int
  BY <1>1, <1>2
<1>4. Elapsed(started, ended) \in Int /\ Elapsed(started, ended) > 0
  BY <1>3 DEF Elapsed
<1> QED
  BY <1>1, <1>4 DEF ended

\* A stop ends the timer it has locked.
LEMMA FinishTimerInv ==
  ASSUME IInv, NEW r \in Requests, FinishTimer(r)
  PROVE  IInv'
<1> DEFINE e == req[r].timer
<1>1. pc[r] = "finish" /\ End(r) /\ UNCHANGED <<tasks, access>>
  BY DEF FinishTimer
<1>2. /\ TypeOK /\ RequestInv(r) /\ req[r] \in Request
  BY <1>1, OpenRequest
<1>3. e \in Stored /\ e \in Entries /\ entry[e].ended = None /\ entry[e].user = req[r].user
  BY <1>1, <1>2 DEF RequestInv, Running, Stored
<1>4. entry[e] \in Entry /\ entry[e].started \in Nat
  BY <1>2, <1>3, StoredEntries DEF Entry
<1>5. PICK now \in Times :
        LET started == entry[req[r].timer].started
            ended == EndTime(started, now)
        IN  entry' = [entry EXCEPT ![req[r].timer].ended = ended,
                                   ![req[r].timer].seconds = Elapsed(started, ended)]
  BY DEF FinishTimer
<1> DEFINE ended == EndTime(entry[e].started, now)
           seconds == Elapsed(entry[e].started, ended)
<1>6. now \in Nat
  BY SecondAssumption DEF Times
<1>7. ended \in Nat /\ ended > entry[e].started /\ seconds \in Int /\ seconds > 0
  BY <1>4, <1>6, ElapsedPositive
<1>8. entry' = [entry EXCEPT ![e].ended = ended, ![e].seconds = seconds]
  BY <1>5
<1> HIDE DEF e, ended, seconds
<1> DEFINE row == [entry[e] EXCEPT !.ended = ended, !.seconds = seconds]
<1>9. entry' = [entry EXCEPT ![e] = row]
  BY <1>2, <1>3, <1>8 DEF TypeOK
<1>10. ended # None /\ seconds # None
  <2>1. seconds \in Nat
    BY <1>7
  <2> QED
    BY <1>7, <2>1, EntryNoneAssumption
<1>11. /\ row \in Entry /\ row.user = entry[e].user /\ row.task = entry[e].task
       /\ row.started = entry[e].started /\ row.ended = ended /\ row.seconds = seconds
  BY <1>4, <1>7 DEF Entry
<1> HIDE DEF row
<1>12. row # NoEntry
  BY <1>10, <1>11 DEF NoEntry
<1>13. /\ entry'[e] = row /\ \A d \in Entries \ {e} : entry'[d] = entry[d]
       /\ Stored' = Stored
  <2>1. /\ entry'[e] = row /\ \A d \in Entries \ {e} : entry'[d] = entry[d]
    BY <1>2, <1>3, <1>9 DEF TypeOK
  <2> QED
    BY <1>3, <1>12, <2>1 DEF Stored
<1>14. TypeOK'
  <2>1. entry' \in [Entries -> Entry \cup {NoEntry}]
    BY <1>2, <1>9, <1>11 DEF TypeOK
  <2> QED
    BY <1>1, <1>2, <2>1, EndInv DEF TypeOK
<1>15. Stored \subseteq Entries
  BY DEF Stored
<1>16. OneRunningTimer'
  BY <1>10, <1>11, <1>13, <1>15 DEF IInv, OneRunningTimer
<1>17. EntriesPassCheck'
  BY <1>7, <1>10, <1>11, <1>13, <1>15 DEF IInv, EntriesPassCheck
<1>18. EntriesHaveTheirTask'
  BY <1>1, <1>11, <1>13, <1>15 DEF IInv, EntriesHaveTheirTask
<1>19. ASSUME NEW q \in Requests \ {r} PROVE RequestInv(q)'
  <2>1. RequestInv(q)
    BY DEF IInv
  <2>2. /\ pc'[q] = pc[q] /\ req'[q] = req[q]
        /\ \A x \in LockRows : holder[x] = q => holder'[x] = q
    BY <1>1, EndInv
  <2>3. Running(q)' = Running(q) \ {e}
    BY <1>10, <1>11, <1>13, <1>15, <2>2 DEF Running
  <2>4. pc[q] = "finish" => req[q].timer # e
    BY <1>1, <1>2, <2>1 DEF RequestInv, e
  <2>5. pc[q] = "insert" /\ req[q].kind = "start" => Running(q)' = {}
    BY <2>1, <2>3 DEF RequestInv
  <2>6. pc[q] = "finish" => req[q].timer \in Running(q)' /\ entry'[req[q].timer].task = req[q].task
    BY <1>13, <2>1, <2>3, <2>4 DEF RequestInv, Running, Stored
  <2> QED
    BY <2>2, <2>5, <2>6, OthersKeep
<1> QED
  BY <1>1, <1>14, <1>16, <1>17, <1>18, <1>19, EndInv DEF IInv

\* A deletion takes the entries of its Task, none of which is being stopped.
LEMMA DeleteTaskInv ==
  ASSUME IInv, NEW r \in Requests, DeleteTask(r)
  PROVE  IInv'
<1> DEFINE t == req[r].task
<1>1. /\ pc[r] = "delete" /\ Granted(r) /\ End(r) /\ UNCHANGED access
      /\ tasks' = tasks \ {t}
      /\ entry' = [e \in Entries |-> IF entry[e].task = t THEN NoEntry ELSE entry[e]]
  BY DEF DeleteTask
<1>2. TypeOK /\ t \in Tasks
  BY <1>1, OpenRequest
<1> HIDE DEF t
<1>3. \A e \in Entries : entry'[e] = IF entry[e].task = t THEN NoEntry ELSE entry[e]
  BY <1>1
<1>4. NoEntry.task # t
  BY <1>2, EntryNoneAssumption DEF NoEntry
<1>5. Stored' = {e \in Stored : entry[e].task # t}
  BY <1>3, <1>4 DEF Stored
<1>6. \A e \in Stored' : e \in Stored /\ e \in Entries /\ entry[e].task # t /\ entry'[e] = entry[e]
  BY <1>3, <1>5 DEF Stored
<1>7. TypeOK'
  <2>1. entry' \in [Entries -> Entry \cup {NoEntry}]
    BY <1>1, <1>2 DEF TypeOK
  <2> QED
    BY <1>1, <1>2, <2>1, EndInv DEF TypeOK
<1>8. OneRunningTimer'
  BY <1>6 DEF IInv, OneRunningTimer
<1>9. EntriesPassCheck'
  BY <1>6 DEF IInv, EntriesPassCheck
<1>10. EntriesHaveTheirTask'
  BY <1>1, <1>6 DEF IInv, EntriesHaveTheirTask
<1>11. ASSUME NEW q \in Requests \ {r} PROVE RequestInv(q)'
  <2>1. RequestInv(q)
    BY DEF IInv
  <2>2. /\ pc'[q] = pc[q] /\ req'[q] = req[q]
        /\ \A x \in LockRows : holder[x] = q => holder'[x] = q
    BY <1>1, EndInv
  <2>3. Running(q)' = {e \in Running(q) : entry[e].task # t}
    BY <1>5, <1>6, <2>2 DEF Running
  <2>4. pc[q] = "insert" /\ req[q].kind = "start" => Running(q)' = {}
    BY <2>1, <2>3 DEF RequestInv
  <2>5. ASSUME pc[q] = "finish"
        PROVE  req[q].timer \in Running(q)' /\ entry'[req[q].timer].task = req[q].task
    <3> DEFINE e == req[q].timer
    <3>1. /\ e \in Running(q) /\ e \in Stored /\ e \in Entries /\ holder[<<"Entry", e>>] = q
          /\ entry[e].task = req[q].task
      BY <2>1, <2>5 DEF RequestInv, Running, Stored
    <3> HIDE DEF e
    <3>2. entry[e].task # t
      <4> SUFFICES ASSUME entry[e].task = t PROVE FALSE
        OBVIOUS
      <4>1. <<"Entry", e>> \in Wants(r)
        BY <1>1, <3>1 DEF Wants, t
      <4>2. holder[<<"Entry", e>>] \in {None, r}
        BY <1>1, <4>1 DEF Granted, CanForUpdate
      <4> QED
        BY <3>1, <4>2, EntryNoneAssumption
    <3>3. e \in Running(q)' /\ entry'[e] = entry[e]
      BY <1>3, <2>3, <3>1, <3>2
    <3> QED
      BY <3>1, <3>3 DEF e
  <2> QED
    BY <2>2, <2>4, <2>5, OthersKeep
<1> QED
  BY <1>1, <1>7, <1>8, <1>9, <1>10, <1>11, EndInv DEF IInv

-----------------------------------------------------------------------------
\* Nothing is tracked at first.
LEMMA InitInv == Init => IInv
<1> SUFFICES ASSUME Init PROVE IInv
  OBVIOUS
<1>1. TypeOK
  BY DEF Init, TypeOK, PCs, LocksInit, LocksTypeOK
<1>2. Stored = {}
  BY DEF Init, Stored
<1>3. \A r \in Requests : RequestInv(r)
  BY DEF Init, RequestInv, HasUser
<1> QED
  BY <1>1, <1>2, <1>3 DEF IInv, OneRunningTimer, EntriesPassCheck, EntriesHaveTheirTask

\* Every statement of a request keeps the invariant.
LEMMA StepInv ==
  ASSUME IInv, NEW r \in Requests, Step(r)
  PROVE  IInv'
<1>1. CASE ResolveTask(r)
  BY <1>1, ResolveTaskInv
<1>2. CASE LockUser(r)
  BY <1>2, LockUserInv
<1>3. CASE CheckRunning(r)
  BY <1>3, CheckRunningInv
<1>4. CASE InsertEntry(r)
  BY <1>4, InsertEntryInv
<1>5. CASE LockTimer(r)
  BY <1>5, LockTimerInv
<1>6. CASE FinishTimer(r)
  BY <1>6, FinishTimerInv
<1>7. CASE LockProject(r)
  BY <1>7, RemovalLocksInv DEF LockProject
<1>8. CASE LockTask(r)
  BY <1>8, LockTaskInv
<1>9. CASE RecordActivity(r)
  BY <1>9, RemovalLocksInv DEF RecordActivity
<1>10. CASE DeleteTask(r)
  BY <1>10, DeleteTaskInv
<1>11. CASE BreakDeadlock(r)
  BY <1>11, RollbackInv DEF BreakDeadlock
<1> QED
  BY <1>1, <1>2, <1>3, <1>4, <1>5, <1>6, <1>7, <1>8, <1>9, <1>10, <1>11 DEF Step

\* Access comes and goes without touching what the invariant speaks of.
LEMMA ChangeAccessInv ==
  ASSUME IInv, ChangeAccess
  PROVE  IInv'
<1>1. /\ access' \subseteq Users
      /\ UNCHANGED <<tasks, entry, pc, req, holder, sharers>>
  BY DEF ChangeAccess
<1>2. TypeOK'
  BY <1>1 DEF IInv, TypeOK, LocksTypeOK
<1>3. \A r \in Requests : RequestInv(r)'
  BY <1>1 DEF IInv, RequestInv, HasUser, Running, Stored
<1> QED
  BY <1>1, <1>2, <1>3 DEF IInv, OneRunningTimer, EntriesPassCheck, EntriesHaveTheirTask, Stored

\* What nobody writes stays.
LEMMA StutterInv ==
  ASSUME IInv, UNCHANGED vars
  PROVE  IInv'
<1>1. /\ access' \subseteq Users
      /\ UNCHANGED <<tasks, entry, pc, req, holder, sharers>>
  BY DEF IInv, TypeOK, vars
<1> QED
  BY <1>1, ChangeAccessInv DEF ChangeAccess

\* Every step keeps the invariant.
LEMMA NextInv == IInv /\ [Next]_vars => IInv'
<1> SUFFICES ASSUME IInv, [Next]_vars PROVE IInv'
  OBVIOUS
<1>1. CASE UNCHANGED vars
  BY <1>1, StutterInv
<1>2. CASE ChangeAccess
  BY <1>2, ChangeAccessInv
<1>3. ASSUME NEW r \in Requests, Begin(r) \/ Step(r) \/ Fail(r) PROVE IInv'
  BY <1>3, BeginInv, StepInv, RollbackInv DEF Fail
<1> QED
  BY <1>1, <1>2, <1>3 DEF Next

\* The inductive invariant: what each open request has found out about the timer of its
\* user still holds, because it has the User row.
THEOREM Invariance == Spec => []IInv
<1> QED
  BY InitInv, NextInv, PTL DEF Spec

\* Every variable keeps its type.
THEOREM TypeCorrect == Spec => []TypeOK
<1>1. IInv => TypeOK
  BY DEF IInv
<1> QED
  BY <1>1, Invariance, PTL

\* A user has at most one running timer.
THEOREM OneTimerPerUser == Spec => []OneRunningTimer
<1>1. IInv => OneRunningTimer
  BY DEF IInv
<1> QED
  BY <1>1, Invariance, PTL

\* The lock on the User row makes the check of start final.
THEOREM UserLockSuffices == Spec => []StartNeverConflicts
<1>1. IInv => StartNeverConflicts
  BY DEF IInv, RequestInv, StartNeverConflicts
<1> QED
  BY <1>1, Invariance, PTL

\* The table accepts every entry, whatever the clock does.
THEOREM EntriesAreAccepted == Spec => []EntriesPassCheck
<1>1. IInv => EntriesPassCheck
  BY DEF IInv
<1> QED
  BY <1>1, Invariance, PTL

\* No entry outlives its Task.
THEOREM EntriesBelongToTasks == Spec => []EntriesHaveTheirTask
<1>1. IInv => EntriesHaveTheirTask
  BY DEF IInv
<1> QED
  BY <1>1, Invariance, PTL

\* The entries are sound.
THEOREM EntriesStaySound == Spec => []EntriesSound
<1>1. IInv => EntriesSound
  BY DEF IInv, EntriesSound
<1> QED
  BY <1>1, Invariance, PTL

\* An entry changes only when its user stops it, and goes only with its Task.
THEOREM EntriesAreKept == Spec => EntriesEndByTheirUser
<1>1. ASSUME IInv, [Next]_vars PROVE [EntryStep]_vars
  <2>1. CASE UNCHANGED entry
    BY <2>1 DEF EntryStep
  <2>2. ASSUME NEW r \in Requests, InsertEntry(r) PROVE EntryStep
    <3>1. CASE Rollback(r)
      BY <3>1 DEF Rollback, EntryStep
    <3>2. CASE ~Rollback(r)
      <4>1. PICK e \in Entries \ Stored, row \in NewEntry(r) : entry' = [entry EXCEPT ![e] = row]
        BY <2>2, <3>2 DEF InsertEntry
      <4>2. \A d \in Stored : entry'[d] = entry[d]
        BY <1>1, <4>1 DEF IInv, TypeOK, Stored
      <4> QED
        BY <4>2 DEF EntryStep
    <3> QED
      BY <3>1, <3>2
  <2>3. ASSUME NEW r \in Requests, FinishTimer(r) PROVE EntryStep
    <3> DEFINE e == req[r].timer
    <3>1. pc[r] = "finish" /\ RequestInv(r) /\ TypeOK
      BY <1>1, <2>3 DEF FinishTimer, IInv
    <3>2. /\ e \in Entries /\ entry[e].ended = None
          /\ entry[e].user = req[r].user /\ entry[e].task = req[r].task
      BY <3>1 DEF RequestInv, Running, Stored
    <3>3. \A d \in Stored \ {e} : entry'[d] = entry[d]
      BY <2>3, <3>1 DEF FinishTimer, TypeOK, Stored
    <3> QED
      BY <3>1, <3>2, <3>3 DEF EntryStep
  <2>4. ASSUME NEW r \in Requests, DeleteTask(r) PROVE EntryStep
    <3>1. /\ tasks' = tasks \ {req[r].task}
          /\ entry' = [e \in Entries |-> IF entry[e].task = req[r].task THEN NoEntry ELSE entry[e]]
      BY <2>4 DEF DeleteTask
    <3>2. \A e \in Stored : e \in Entries /\ entry[e].task \in tasks
      BY <1>1 DEF IInv, EntriesHaveTheirTask, Stored
    <3> QED
      BY <3>1, <3>2 DEF EntryStep
  <2>5. CASE ChangeAccess \/ UNCHANGED vars
    BY <2>1, <2>5 DEF ChangeAccess, vars
  <2>6. ASSUME NEW r \in Requests, Begin(r) \/ Step(r) \/ Fail(r)
        PROVE  UNCHANGED entry \/ InsertEntry(r) \/ FinishTimer(r) \/ DeleteTask(r)
    BY <2>6 DEF Begin, Step, Fail, Rollback, ResolveTask, LockUser, CheckRunning, LockTimer,
                LockProject, LockTask, RecordActivity, BreakDeadlock, Lock
  <2> QED
    BY <1>1, <2>1, <2>2, <2>3, <2>4, <2>5, <2>6 DEF Next
<1> QED
  BY <1>1, Invariance, PTL DEF Spec, EntriesEndByTheirUser
=============================================================================
