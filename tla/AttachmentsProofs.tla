------------------------- MODULE AttachmentsProofs --------------------------
(***************************************************************************)
(* Proofs about Attachments, for any number of users, Tasks, files and     *)
(* requests, and whatever Faults can go wrong.  The argument is about who  *)
(* may touch a storage key: an upload is the only request that names its   *)
(* key until it commits, and of the removals of one file, which a timeout  *)
(* lets run at the same time, only the one that has deleted the object can *)
(* delete the row or has to store the object again.                        *)
(***************************************************************************)
EXTENDS Attachments, TLAPS

\* The statements of each kind of request.
StatementsOf(kind) ==
  CASE kind = "upload" -> {"store", "insert", "commit", "compensate"}
    [] kind = "remove" -> {"lockFile", "find", "read", "unlink", "deleteRow", "commit", "restore"}
    [] OTHER -> {"lockProject", "lockTask", "deleteTask"}

\* What request r can rely on about the file it is for.
Claims(r) ==
  LET f == req[r].file IN
  /\ req[r].kind = "upload" /\ (pc[r] # "compensate" \/ f \notin hit) =>
       f \notin Stored /\ \A q \in Requests \ {r} : req[q].file # f
  /\ req[r].kind = "upload" /\ pc[r] \in {"insert", "commit"} => f \in objects
  /\ req[r].kind = "remove" /\ f \in objects => f \in Stored \cup hit
  /\ Removing(r, f) =>
       /\ f \notin objects
       /\ f \in Stored \cup hit
       /\ \A q \in Requests \ {r} : ~ Removing(q, f)

\* What it is asked fits what it does next.
Formed(r) ==
  /\ pc[r] = "idle" => req[r] = NoRequest
  /\ pc[r] # "idle" =>
       /\ req[r] \in Request
       /\ pc[r] \in StatementsOf(req[r].kind)
       /\ req[r].kind # "removeTask" => req[r].file \in Files
       /\ req[r].kind = "removeTask" => req[r].file = None /\ req[r].task \in Tasks

\* What its transaction has.
Holds(r) ==
  /\ r \in open => pc[r] \notin {"idle", "store", "compensate", "restore"}
  /\ pc[r] \in {"lockTask", "deleteTask"} => holder[Project] = r
  /\ pc[r] = "deleteTask" => req[r].task \in tasks

RequestInv(r) == Formed(r) /\ Holds(r) /\ Claims(r)

TablesOK ==
  /\ tasks \subseteq Tasks
  /\ access \subseteq Users /\ owners \subseteq access
  /\ file \in [Files -> File \cup {NoFile}]
  /\ objects \subseteq Files /\ logged \subseteq Files /\ hit \subseteq Files

RequestsOK ==
  /\ pc \in [Requests -> PCs]
  /\ req \in [Requests -> Request \cup {NoRequest}]
  /\ open \subseteq Requests
  /\ LocksTypeOK(LockRows, Requests)

IInv ==
  /\ TablesOK /\ RequestsOK
  /\ \A r \in Requests : RequestInv(r)
  /\ AttachmentsAvailable
  /\ NoOrphans

\* The type invariant has a part for the rows and one for the requests.
LEMMA Types == TypeOK <=> TablesOK /\ RequestsOK
BY DEF TypeOK, TablesOK, RequestsOK

-----------------------------------------------------------------------------
(* Rows and values.                                                        *)

\* A row has an uploader; NoFile does not.
LEMMA FileRows ==
  /\ NoFile \notin File /\ NoFile.task = None
  /\ \A x \in File : x.uploader \in Users /\ x.task \in Tasks \cup {None} /\ x # NoFile
<1>1. NoFile.uploader = None /\ NoFile.task = None /\ None \notin Users
  BY FileNoneAssumption DEF NoFile
<1>2. \A x \in File : x.uploader \in Users /\ x.task \in Tasks \cup {None}
  BY DEF File
<1> QED
  BY <1>1, <1>2

\* A request that is open has a kind; NoRequest has none and names no file.
LEMMA RequestValues ==
  /\ NoRequest.kind = None /\ NoRequest.file = None /\ None \notin Kinds /\ None \notin Files
  /\ None \notin {"upload", "remove", "removeTask"}
  /\ \A x \in Request : /\ x.kind \in Kinds /\ x.user \in Users
                        /\ x.file \in Files \cup {None} /\ x.task \in Tasks \cup {None}
<1>1. None \notin Kinds /\ None \notin Files
  BY FileNoneAssumption
<1> QED
  BY <1>1 DEF NoRequest, Request, Kinds

-----------------------------------------------------------------------------
(* What the step of one request leaves to the others.                      *)

\* r goes to next, and is asked request from now on; the others stay.
Moves(r, next, request) ==
  /\ RequestsOK'
  /\ pc'[r] = next /\ req'[r] = request
  /\ \A q \in Requests \ {r} :
       /\ pc'[q] = pc[q] /\ req'[q] = req[q]
       /\ q \in open' <=> q \in open
       /\ holder[Project] = q => holder'[Project] = q

\* What r is asked when it goes to next.
Kept(r, next) == IF next = "idle" THEN NoRequest ELSE req[r]

\* What is kept of a request is a request, unless it ends.
LEMMA KeptType ==
  ASSUME RequestsOK, NEW r \in Requests, NEW next \in PCs
  PROVE  /\ Kept(r, next) \in Request \cup {NoRequest}
         /\ next = "idle" => Kept(r, next) = NoRequest
         /\ next # "idle" => Kept(r, next) = req[r]
BY DEF RequestsOK, Kept

\* The Project row can be locked.
LEMMA ProjectRow == Project \in LockRows
BY DEF LockRows

\* A statement without a lock moves its own request only.
LEMMA ProceedMoves ==
  ASSUME IInv, NEW r \in Requests, NEW next \in PCs, Proceed(r, next), open' \subseteq Requests,
         \A q \in Requests \ {r} : q \in open' <=> q \in open
  PROVE  Moves(r, next, Kept(r, next)) /\ UNCHANGED <<tasks, access, owners, file, holder>>
<1>1. RequestsOK
  BY DEF IInv
<1>2. /\ pc' = [pc EXCEPT ![r] = next]
      /\ req' = IF next = "idle" THEN [req EXCEPT ![r] = NoRequest] ELSE req
      /\ UNCHANGED <<tasks, access, owners, file, holder, sharers>>
  BY DEF Proceed, Goto
<1>3. /\ pc' \in [Requests -> PCs] /\ pc'[r] = next
      /\ \A q \in Requests \ {r} : pc'[q] = pc[q]
  BY <1>1, <1>2 DEF RequestsOK
<1>4. /\ req' \in [Requests -> Request \cup {NoRequest}] /\ req'[r] = Kept(r, next)
      /\ \A q \in Requests \ {r} : req'[q] = req[q]
  <2>1. CASE next = "idle"
    BY <1>1, <1>2, <2>1 DEF RequestsOK, Kept
  <2>2. CASE next # "idle"
    BY <1>1, <1>2, <2>2 DEF RequestsOK, Kept
  <2> QED
    BY <2>1, <2>2
<1>5. LocksTypeOK(LockRows, Requests)'
  BY <1>1, <1>2 DEF RequestsOK, LocksTypeOK
<1> QED
  BY <1>2, <1>3, <1>4, <1>5 DEF Moves, RequestsOK

\* The end of a transaction moves its own request, and gives up its locks only.
LEMMA CloseMoves ==
  ASSUME IInv, NEW r \in Requests, NEW next \in PCs, Close(r, next)
  PROVE  Moves(r, next, Kept(r, next)) /\ r \notin open'
<1>1. RequestsOK
  BY DEF IInv
<1>2. /\ pc' = [pc EXCEPT ![r] = next]
      /\ req' = IF next = "idle" THEN [req EXCEPT ![r] = NoRequest] ELSE req
      /\ open' = open \ {r} /\ ReleaseLocks(r)
  BY DEF Close, Goto
<1>3. /\ pc' \in [Requests -> PCs] /\ pc'[r] = next
      /\ \A q \in Requests \ {r} : pc'[q] = pc[q]
  BY <1>1, <1>2 DEF RequestsOK
<1>4. /\ req' \in [Requests -> Request \cup {NoRequest}] /\ req'[r] = Kept(r, next)
      /\ \A q \in Requests \ {r} : req'[q] = req[q]
  <2>1. CASE next = "idle"
    BY <1>1, <1>2, <2>1 DEF RequestsOK, Kept
  <2>2. CASE next # "idle"
    BY <1>1, <1>2, <2>2 DEF RequestsOK, Kept
  <2> QED
    BY <2>1, <2>2
<1>5. /\ LocksTypeOK(LockRows, Requests)'
      /\ \A q \in Requests \ {r} : holder[Project] = q => holder'[Project] = q
  BY <1>1, <1>2, ProjectRow, FileNoneAssumption DEF ReleaseLocks, RequestsOK, LocksTypeOK
<1>6. open' \subseteq Requests /\ \A q \in Requests \ {r} : q \in open' <=> q \in open
  BY <1>1, <1>2 DEF RequestsOK
<1> QED
  BY <1>2, <1>3, <1>4, <1>5, <1>6 DEF Moves, RequestsOK

\* An open request locks rows that exist.
LEMMA WantedRows ==
  ASSUME RequestsOK, NEW r \in Requests, Formed(r), pc[r] # "idle"
  PROVE  Wants(r) \subseteq LockRows /\ RefersTo(r) \subseteq LockRows
<1>1. /\ pc[r] \in StatementsOf(req[r].kind) /\ req[r].kind \in Kinds
      /\ req[r].kind # "removeTask" => req[r].file \in Files
  BY RequestValues DEF Formed
<1>2. pc[r] = "lockFile" => req[r].file \in Files
  BY <1>1 DEF StatementsOf, Kinds
<1>3. TaskRow(req[r].task) \subseteq LockRows
  BY DEF TaskRow, LockRows
<1>4. {"File"} \X {f \in Stored : file[f].task = req[r].task} \subseteq LockRows
  BY DEF Stored, LockRows
<1>5. pc[r] = "lockFile" => {<<"File", req[r].file>>} \subseteq LockRows
  BY <1>2 DEF LockRows
<1>6. Wants(r) \subseteq LockRows
  BY <1>3, <1>4, <1>5, ProjectRow DEF Wants
<1>7. RefersTo(r) \subseteq LockRows
  BY <1>3, ProjectRow DEF RefersTo
<1> QED
  BY <1>6, <1>7

\* A statement that locks rows moves its own request, and has those rows.
LEMMA LockMoves ==
  ASSUME IInv, NEW r \in Requests, NEW next \in PCs \ {"idle"}, Lock(r, next), pc[r] # "idle"
  PROVE  /\ Moves(r, next, req[r]) /\ UNCHANGED <<tables, open>>
         /\ holder[Project] = r \/ Project \in Wants(r) => holder'[Project] = r
<1> DEFINE X == Wants(r)
           K == RefersTo(r)
<1>1. RequestsOK /\ Formed(r)
  BY DEF IInv, RequestInv
<1>2. X \subseteq LockRows /\ K \subseteq LockRows
  BY <1>1, WantedRows
<1>3. /\ ForUpdate(r, X) /\ KeyShare(r, K)
      /\ pc' = [pc EXCEPT ![r] = next] /\ UNCHANGED <<tables, req, open>>
  BY DEF Lock, Goto
<1> HIDE DEF X, K
<1>4. /\ holder \in [LockRows -> Requests \cup {None}]
      /\ sharers \in [LockRows -> SUBSET Requests]
  BY <1>1 DEF RequestsOK, LocksTypeOK
<1>5. /\ holder' = [x \in LockRows |-> IF x \in X THEN r ELSE holder[x]]
      /\ sharers' = [x \in LockRows |-> IF x \in K THEN sharers[x] \cup {r} ELSE sharers[x]]
      /\ \A x \in X : holder[x] \in {None, r}
  BY <1>3, <1>4 DEF ForUpdate, KeyShare, CanForUpdate
<1>6. LocksTypeOK(LockRows, Requests)'
  BY <1>4, <1>5 DEF LocksTypeOK
<1>7. /\ \A q \in Requests \ {r} : holder[Project] = q => holder'[Project] = q
      /\ holder[Project] = r \/ Project \in X => holder'[Project] = r
  BY <1>5, ProjectRow, FileNoneAssumption
<1>8. /\ pc' \in [Requests -> PCs] /\ pc'[r] = next
      /\ \A q \in Requests \ {r} : pc'[q] = pc[q]
  BY <1>1, <1>3 DEF RequestsOK
<1> QED
  BY <1>1, <1>3, <1>6, <1>7, <1>8 DEF Moves, RequestsOK, X

\* The parts of the invariant that a step of r has to be shown to keep.
LEMMA StepKeeps ==
  ASSUME IInv, NEW r \in Requests, NEW next, NEW request, Moves(r, next, request),
         TablesOK', RequestInv(r)',
         \A q \in Requests \ {r} : Claims(q)',
         \A q \in Requests \ {r} : pc[q] = "deleteTask" => req[q].task \in tasks',
         AttachmentsAvailable', NoOrphans'
  PROVE  IInv'
<1>1. ASSUME NEW q \in Requests \ {r} PROVE RequestInv(q)'
  <2>1. /\ pc'[q] = pc[q] /\ req'[q] = req[q]
        /\ q \in open' <=> q \in open
        /\ holder[Project] = q => holder'[Project] = q
    BY DEF Moves
  <2>2. Formed(q) /\ Holds(q)
    BY DEF IInv, RequestInv
  <2>3. Formed(q)'
    BY <2>1, <2>2 DEF Formed
  <2>4. Holds(q)'
    BY <2>1, <2>2 DEF Holds
  <2> QED
    BY <2>3, <2>4 DEF RequestInv
<1>2. RequestsOK'
  BY DEF Moves
<1> QED
  BY <1>1, <1>2 DEF IInv

\* Such a step, if it changes no table and takes nothing up or lays it down.
LEMMA QuietKeeps ==
  ASSUME IInv, NEW r \in Requests, NEW next, Moves(r, next, Kept(r, next)), UNCHANGED tables,
         RequestInv(r)',
         \A f \in Files : Removing(r, f)' <=> Removing(r, f),
         \A f \in Files : Uploading(r, f)' <=> Uploading(r, f)
  PROVE  IInv'
<1>1. UNCHANGED <<tasks, access, owners, file, objects, logged, hit>> /\ Stored' = Stored
  BY DEF tables, Stored
<1>2. TablesOK'
  BY <1>1 DEF IInv, TablesOK
<1>3. \A q \in Requests \ {r} : pc'[q] = pc[q] /\ req'[q] = req[q]
  BY DEF Moves
<1>4. \A q \in Requests, f \in Files : /\ Removing(q, f)' <=> Removing(q, f)
                                       /\ Uploading(q, f)' <=> Uploading(q, f)
  <2> SUFFICES ASSUME NEW q \in Requests, NEW f \in Files
               PROVE  /\ Removing(q, f)' <=> Removing(q, f)
                      /\ Uploading(q, f)' <=> Uploading(q, f)
    OBVIOUS
  <2>1. CASE q = r
    BY <2>1
  <2>2. CASE q # r
    BY <1>3, <2>2 DEF Removing, Uploading
  <2> QED
    BY <2>1, <2>2
<1>5. AttachmentsAvailable' /\ NoOrphans'
  <2>1. Stored \subseteq Files /\ objects \subseteq Files
    BY DEF Stored, IInv, TablesOK
  <2>2. AttachmentsAvailable'
    BY <1>1, <1>4, <2>1 DEF IInv, AttachmentsAvailable
  <2>3. NoOrphans'
    BY <1>1, <1>4, <2>1 DEF IInv, NoOrphans
  <2> QED
    BY <2>2, <2>3
<1>6. ASSUME NEW q \in Requests \ {r} PROVE Claims(q)'
  <2> DEFINE f == req[q].file
  <2>1. Claims(q) /\ Formed(q) /\ pc'[q] = pc[q] /\ req'[q] = req[q]
    BY <1>3 DEF IInv, RequestInv
  <2>2. req'[r].file \in {req[r].file, None}
    BY RequestValues DEF Moves, Kept
  <2>3. req[q].kind \in {"upload", "remove"} => f \in Files
    BY <2>1, RequestValues DEF Formed
  <2>4. \A p \in Requests \ {q, r} : req'[p] = req[p]
    BY <1>3
  <2>5. req[q].kind = "upload" /\ (\A p \in Requests \ {q} : req[p].file # f)
          => \A p \in Requests \ {q} : req'[p].file # f
    BY <2>2, <2>3, <2>4, RequestValues
  <2>6. Removing(q, f)' => Removing(q, f) /\ f \in Files
    BY <2>1, <2>3 DEF Removing
  <2>7. Removing(q, f)' => \A p \in Requests \ {q} : ~ Removing(p, f)'
    BY <1>4, <2>1, <2>6 DEF Claims
  <2> QED
    BY <1>1, <2>1, <2>5, <2>6, <2>7 DEF Claims
<1>7. \A q \in Requests \ {r} : pc[q] = "deleteTask" => req[q].task \in tasks'
  BY <1>1 DEF IInv, RequestInv, Holds
<1> QED
  BY <1>2, <1>5, <1>6, <1>7, StepKeeps

-----------------------------------------------------------------------------
(* A request that is refused, fails or is out of time.                     *)

\* A request that has been answered.
LEMMA IdleInv ==
  ASSUME NEW r \in Requests, (pc[r] = "idle")', (req[r] = NoRequest)', (r \notin open)'
  PROVE  RequestInv(r)'
BY RequestValues DEF RequestInv, Formed, Holds, Claims, Removing

\* What the invariant says of an open request.
LEMMA OpenRequest ==
  ASSUME IInv, NEW r \in Requests, pc[r] # "idle"
  PROVE  /\ TablesOK /\ RequestsOK /\ RequestInv(r)
         /\ req[r] \in Request /\ req[r].kind \in Kinds
         /\ pc[r] \in StatementsOf(req[r].kind)
         /\ req[r].kind # "removeTask" => req[r].file \in Files
         /\ req[r].kind = "removeTask" => req[r].file = None /\ req[r].task \in Tasks
BY RequestValues DEF IInv, RequestInv, Formed

\* The statement tells the kind, except for the last one.
LEMMA KindOf ==
  ASSUME IInv, NEW r \in Requests
  PROVE  /\ pc[r] \in {"store", "insert", "compensate"} => req[r].kind = "upload"
         /\ pc[r] \in {"lockFile", "find", "read", "unlink", "deleteRow", "restore"}
              => req[r].kind = "remove"
         /\ pc[r] = "commit" => req[r].kind \in {"upload", "remove"}
         /\ pc[r] \in {"lockProject", "lockTask", "deleteTask"} => req[r].kind = "removeTask"
<1>1. CASE pc[r] = "idle"
  BY <1>1
<1>2. CASE pc[r] # "idle"
  <2>1. pc[r] \in StatementsOf(req[r].kind) /\ req[r].kind \in Kinds
    BY <1>2, OpenRequest
  <2>2. CASE req[r].kind = "upload"
    BY <2>1, <2>2 DEF StatementsOf
  <2>3. CASE req[r].kind = "remove"
    BY <2>1, <2>3 DEF StatementsOf
  <2>4. CASE req[r].kind = "removeTask"
    BY <2>1, <2>4 DEF StatementsOf
  <2> QED
    BY <2>1, <2>2, <2>3, <2>4 DEF Kinds
<1> QED
  BY <1>1, <1>2

\* The transaction is over and the code goes on where it is, or to what undoes
\* the work.
LEMMA CloseInv ==
  ASSUME IInv, NEW r \in Requests, NEW next \in PCs, Close(r, next), UNCHANGED tables,
         pc[r] # "idle",
         \/ next = pc[r] /\ next \in {"read", "unlink", "deleteRow"}
         \/ next = "compensate" /\ pc[r] \in {"insert", "commit"} /\ req[r].kind = "upload"
         \/ next = "restore" /\ pc[r] \in {"deleteRow", "commit"} /\ req[r].kind = "remove"
         \/ /\ next = "idle"
            /\ \A f \in Files : ~ Removing(r, f) /\ ~ Uploading(r, f)
  PROVE  IInv'
<1>1. Moves(r, next, Kept(r, next)) /\ r \notin open'
  BY CloseMoves
<1>2. /\ pc'[r] = next /\ req'[r] = Kept(r, next)
      /\ \A q \in Requests \ {r} : pc'[q] = pc[q] /\ req'[q] = req[q]
  BY <1>1 DEF Moves
<1>3. RequestInv(r) /\ UNCHANGED <<tasks, file, objects, hit>> /\ Stored' = Stored
  BY DEF IInv, tables, Stored
<1>4. CASE next = "idle"
  <2>1. req'[r] = NoRequest
    BY <1>2, <1>4 DEF Kept
  <2>2. RequestInv(r)'
    BY <1>1, <1>2, <1>4, <2>1, IdleInv
  <2>3. \A f \in Files : ~ Removing(r, f)' /\ ~ Uploading(r, f)'
    BY <2>1, RequestValues DEF Removing, Uploading
  <2> QED
    BY <1>1, <1>4, <2>2, <2>3, QuietKeeps
<1>5. CASE next # "idle"
  <2>1. req'[r] = req[r]
    BY <1>2, <1>5 DEF Kept
  <2>2. Formed(r) /\ Claims(r)
    BY <1>3 DEF RequestInv
  <2>3. \A f : Removing(r, f)' <=> Removing(r, f)
    BY <1>2, <1>5, <2>1 DEF Removing
  <2>4. \A f : Uploading(r, f)' <=> Uploading(r, f)
    BY <1>2, <1>5, <2>1, KindOf DEF Uploading
  <2>5. Formed(r)'
    <3>1. next \in StatementsOf(req[r].kind)
      BY <1>5, KindOf DEF StatementsOf
    <3> QED
      BY <1>2, <1>5, <2>1, <2>2, <3>1 DEF Formed
  <2>6. Holds(r)'
    BY <1>1, <1>2, <1>5 DEF Holds
  <2>7. \A q \in Requests \ {r} : req'[q] = req[q] /\ \A f : Removing(q, f)' <=> Removing(q, f)
    BY <1>2 DEF Removing
  <2>8. Claims(r)'
    BY <1>2, <1>3, <1>5, <2>1, <2>2, <2>3, <2>7, KindOf DEF Claims
  <2> QED
    BY <1>1, <2>3, <2>4, <2>5, <2>6, <2>8, QuietKeeps DEF RequestInv
<1> QED
  BY <1>4, <1>5

\* A transaction that is rolled back writes no row.
LEMMA RollbackInv ==
  ASSUME IInv, NEW r \in Requests, Rollback(r),
         pc[r] \notin {"idle", "store", "compensate", "restore"}
  PROVE  IInv'
<1>1. Close(r, Recovery(r)) /\ UNCHANGED tables
  BY DEF Rollback
<1>2. /\ pc[r] \in StatementsOf(req[r].kind) /\ req[r].kind \in Kinds
      /\ Formed(r)
  BY OpenRequest DEF RequestInv
<1>3. CASE req[r].kind = "upload"
  <2>1. Recovery(r) = "compensate" /\ pc[r] \in {"insert", "commit"}
    BY <1>2, <1>3, KindOf DEF Recovery, StatementsOf
  <2> QED
    BY <1>1, <1>3, <2>1, CloseInv DEF PCs
<1>4. CASE req[r].kind = "remove" /\ pc[r] \in {"deleteRow", "commit"}
  <2>1. Recovery(r) = "restore"
    BY <1>4 DEF Recovery
  <2> QED
    BY <1>1, <1>4, <2>1, CloseInv DEF PCs
<1>5. CASE req[r].kind # "upload" /\ ~(req[r].kind = "remove" /\ pc[r] \in {"deleteRow", "commit"})
  <2>1. Recovery(r) = "idle"
    BY <1>5 DEF Recovery
  <2>2. \A f \in Files : ~ Removing(r, f) /\ ~ Uploading(r, f)
    BY <1>5 DEF Removing, Uploading
  <2> QED
    BY <1>1, <2>1, <2>2, CloseInv DEF PCs
<1> QED
  BY <1>3, <1>4, <1>5

-----------------------------------------------------------------------------
(* Each statement keeps the invariant.                                     *)

\* A statement that locks, or only looks, and goes on in the same work.
LEMMA GoesOn ==
  ASSUME IInv, NEW r \in Requests, NEW next \in PCs, Moves(r, next, req[r]), UNCHANGED tables,
         UNCHANGED open, pc[r] # "idle",
         \/ pc[r] = "insert" /\ next = "commit"
         \/ pc[r] = "lockFile" /\ next = "find"
         \/ pc[r] = "find" /\ next = "read"
         \/ pc[r] = "read" /\ next = "unlink"
         \/ pc[r] = "deleteRow" /\ next = "commit"
         \/ pc[r] = "lockProject" /\ next = "lockTask" /\ holder'[Project] = r
         \/ /\ pc[r] = "lockTask" /\ next = "deleteTask" /\ holder'[Project] = r
            /\ req[r].task \in tasks
  PROVE  IInv'
<1>1. /\ pc'[r] = next /\ req'[r] = req[r]
      /\ \A q \in Requests \ {r} : pc'[q] = pc[q] /\ req'[q] = req[q]
  BY DEF Moves
<1>2. next # "idle" /\ Kept(r, next) = req[r]
  BY DEF Kept
<1>3. RequestInv(r) /\ UNCHANGED <<tasks, file, objects, hit>> /\ Stored' = Stored
  BY DEF IInv, tables, Stored
<1>4. Formed(r) /\ Holds(r) /\ Claims(r)
  BY <1>3 DEF RequestInv
<1>5. \A f : Removing(r, f)' <=> Removing(r, f)
  BY <1>1, KindOf DEF Removing
<1>6. \A f : Uploading(r, f)' <=> Uploading(r, f)
  BY <1>1, KindOf DEF Uploading
<1>7. Formed(r)'
  <2>1. next \in StatementsOf(req[r].kind)
    BY KindOf DEF StatementsOf
  <2> QED
    BY <1>1, <1>2, <1>4, <2>1 DEF Formed
<1>8. Holds(r)'
  BY <1>1, <1>3 DEF Holds
<1>9. \A q \in Requests \ {r} : req'[q] = req[q] /\ \A f : Removing(q, f)' <=> Removing(q, f)
  BY <1>1 DEF Removing
<1>10. Claims(r)'
  BY <1>1, <1>3, <1>4, <1>5, <1>9, KindOf DEF Claims
<1> QED
  BY <1>2, <1>5, <1>6, <1>7, <1>8, <1>10, QuietKeeps DEF RequestInv

\* The row of an upload is written with its transaction, not before.
LEMMA InsertFileInv ==
  ASSUME IInv, NEW r \in Requests, InsertFile(r)
  PROVE  IInv'
<1>1. pc[r] = "insert"
  BY DEF InsertFile
<1>2. CASE Lock(r, "commit")
  <2>1. Moves(r, "commit", req[r]) /\ UNCHANGED <<tables, open>>
    BY <1>1, <1>2, LockMoves DEF PCs
  <2> QED
    BY <1>1, <2>1, GoesOn DEF PCs
<1>3. CASE Rollback(r)
  BY <1>1, <1>3, RollbackInv
<1> QED
  BY <1>2, <1>3 DEF InsertFile

\* A removal that locks its file claims no key yet.
LEMMA LockFileInv ==
  ASSUME IInv, NEW r \in Requests, LockFile(r)
  PROVE  IInv'
<1>1. pc[r] = "lockFile"
  BY DEF LockFile
<1>2. CASE Lock(r, "find")
  <2>1. Moves(r, "find", req[r]) /\ UNCHANGED <<tables, open>>
    BY <1>1, <1>2, LockMoves DEF PCs
  <2> QED
    BY <1>1, <2>1, GoesOn DEF PCs
<1>3. CASE Rollback(r)
  BY <1>1, <1>3, RollbackInv
<1> QED
  BY <1>2, <1>3 DEF LockFile

\* A step without a lock.
LEMMA ProceedGoesOn ==
  ASSUME IInv, NEW r \in Requests, NEW next \in PCs, Proceed(r, next), pc[r] # "idle",
         UNCHANGED <<objects, logged, hit, open>>,
         \/ pc[r] = "find" /\ next = "read"
         \/ pc[r] = "read" /\ next = "unlink"
  PROVE  IInv'
<1>1. open' \subseteq Requests
  BY DEF IInv, RequestsOK
<1>2. Moves(r, next, Kept(r, next)) /\ UNCHANGED <<tasks, access, owners, file, holder>>
  BY <1>1, ProceedMoves
<1>3. Kept(r, next) = req[r] /\ UNCHANGED tables
  BY <1>2 DEF Kept, tables
<1> QED
  BY <1>2, <1>3, GoesOn

\* A removal that finds its row goes on to the object, any other is refused.
LEMMA FindFileInv ==
  ASSUME IInv, NEW r \in Requests, FindFile(r)
  PROVE  IInv'
<1>1. pc[r] = "find"
  BY DEF FindFile
<1>2. CASE Proceed(r, "read") /\ UNCHANGED <<objects, logged, hit, open>>
  BY <1>1, <1>2, ProceedGoesOn DEF PCs
<1>3. CASE Rollback(r)
  BY <1>1, <1>3, RollbackInv
<1> QED
  BY <1>2, <1>3 DEF FindFile

\* Reading the object before it is deleted changes nothing.
LEMMA ReadObjectInv ==
  ASSUME IInv, NEW r \in Requests, ReadObject(r)
  PROVE  IInv'
<1>1. pc[r] = "read"
  BY DEF ReadObject
<1>2. CASE Proceed(r, "unlink") /\ UNCHANGED <<objects, logged, hit, open>>
  BY <1>1, <1>2, ProceedGoesOn DEF PCs
<1>3. CASE Rollback(r)
  BY <1>1, <1>3, RollbackInv
<1> QED
  BY <1>2, <1>3 DEF ReadObject

\* The row of a removal is deleted with its transaction, not before.
LEMMA DeleteRowInv ==
  ASSUME IInv, NEW r \in Requests, DeleteRow(r)
  PROVE  IInv'
<1>1. pc[r] = "deleteRow"
  BY DEF DeleteRow
<1>2. CASE Lock(r, "commit")
  <2>1. Moves(r, "commit", req[r]) /\ UNCHANGED <<tables, open>>
    BY <1>1, <1>2, LockMoves DEF PCs
  <2> QED
    BY <1>1, <2>1, GoesOn DEF PCs
<1>3. CASE Rollback(r)
  BY <1>1, <1>3, RollbackInv
<1> QED
  BY <1>2, <1>3 DEF DeleteRow

\* The deletion of a Task waits for the Project row.
LEMMA LockProjectInv ==
  ASSUME IInv, NEW r \in Requests, LockProject(r)
  PROVE  IInv'
<1>1. pc[r] = "lockProject" /\ Lock(r, "lockTask") /\ Project \in Wants(r)
  BY DEF LockProject, Wants
<1>2. Moves(r, "lockTask", req[r]) /\ UNCHANGED <<tables, open>> /\ holder'[Project] = r
  BY <1>1, LockMoves DEF PCs
<1> QED
  BY <1>1, <1>2, GoesOn DEF PCs

\* The deletion of a Task waits for the rows of the Task and of its files.
LEMMA LockTaskInv ==
  ASSUME IInv, NEW r \in Requests, LockTask(r)
  PROVE  IInv'
<1>1. pc[r] = "lockTask"
  BY DEF LockTask
<1>2. CASE req[r].task \in tasks /\ Lock(r, "deleteTask")
  <2>1. holder[Project] = r
    BY <1>1 DEF IInv, RequestInv, Holds
  <2>2. /\ Moves(r, "deleteTask", req[r]) /\ UNCHANGED <<tables, open>>
        /\ holder'[Project] = r
    BY <1>1, <1>2, <2>1, LockMoves DEF PCs
  <2> QED
    BY <1>1, <1>2, <2>2, GoesOn DEF PCs
<1>3. CASE Rollback(r)
  BY <1>1, <1>3, RollbackInv
<1> QED
  BY <1>2, <1>3 DEF LockTask

\* A timeout takes the transaction and its locks, and leaves the code running.
LEMMA TimeoutInv ==
  ASSUME IInv, NEW r \in Requests, Timeout(r)
  PROVE  IInv'
<1>1. /\ pc[r] \in {"read", "unlink", "deleteRow"}
      /\ Close(r, pc[r]) /\ UNCHANGED tables
  BY DEF Timeout
<1> QED
  BY <1>1, CloseInv DEF PCs

\* A failure before the object is touched claims nothing.
LEMMA FailInv ==
  ASSUME IInv, NEW r \in Requests, Fail(r)
  PROVE  IInv'
<1>1. r \in open /\ Rollback(r)
  BY DEF Fail
<1>2. pc[r] \notin {"idle", "store", "compensate", "restore"}
  BY <1>1 DEF IInv, RequestInv, Holds
<1> QED
  BY <1>1, <1>2, RollbackInv

\* The victim of a deadlock is rolled back.
LEMMA BreakDeadlockInv ==
  ASSUME IInv, NEW r \in Requests, BreakDeadlock(r)
  PROVE  IInv'
<1>1. Rollback(r) /\ Blockers(r) # {}
  BY DEF BreakDeadlock
<1>2. Wants(r) # {} \/ RefersTo(r) # {}
  BY <1>1 DEF Blockers
<1>3. pc[r] \notin {"idle", "store", "compensate", "restore"}
  BY <1>2 DEF Wants, RefersTo
<1> QED
  BY <1>1, <1>3, RollbackInv

-----------------------------------------------------------------------------
(* Steps that write to the store.                                          *)

\* The others are where they were.
LEMMA OthersStay ==
  ASSUME NEW r \in Requests, NEW next, NEW request, Moves(r, next, request)
  PROVE  /\ \A q \in Requests \ {r} :
              /\ pc'[q] = pc[q] /\ req'[q] = req[q]
              /\ \A f : /\ Removing(q, f)' <=> Removing(q, f)
                        /\ Uploading(q, f)' <=> Uploading(q, f)
         /\ pc'[r] = next /\ req'[r] = request
BY DEF Moves, Removing, Uploading

\* A step that writes the object or the log of its file at most, and answers
\* or goes on to next.
LEMMA StoreStepKeeps ==
  ASSUME IInv, NEW r \in Requests, NEW g, g = req[r].file,
         NEW next \in PCs, Proceed(r, next), pc[r] # "idle",
         open' \subseteq Requests, \A q \in Requests \ {r} : q \in open' <=> q \in open,
         next = "idle" => r \notin open',
         next # "idle" => RequestInv(r)',
         objects' \in SUBSET Files, logged' \in SUBSET Files, hit' \in SUBSET Files,
         \A f \in Files \ {g} :
           /\ f \in objects' <=> f \in objects
           /\ f \in logged' <=> f \in logged
           /\ f \in hit' <=> f \in hit,
         g \in hit => g \in hit',
         \A q \in Requests \ {r} : req[q].file = g => Claims(q)',
         g \in Stored =>
           g \in objects' \cup logged' \cup hit' \/ \E q \in Requests : Removing(q, g)',
         g \in objects' =>
           g \in Stored \cup logged' \cup hit' \/ \E q \in Requests : Uploading(q, g)'
  PROVE  IInv'
<1> DEFINE request == Kept(r, next)
<1>1. Moves(r, next, request) /\ UNCHANGED <<tasks, access, owners, file, holder>>
  BY ProceedMoves
<1>2. Stored' = Stored /\ Stored \subseteq Files
  BY <1>1 DEF Stored
<1>3. /\ \A q \in Requests \ {r} :
           /\ pc'[q] = pc[q] /\ req'[q] = req[q]
           /\ \A f : /\ Removing(q, f)' <=> Removing(q, f)
                     /\ Uploading(q, f)' <=> Uploading(q, f)
      /\ pc'[r] = next /\ req'[r] = request
  BY <1>1, OthersStay
<1>4. request.file \in {g, None} /\ (next = "idle" => request = NoRequest)
  BY RequestValues DEF Kept
<1> HIDE DEF request
<1>5. RequestInv(r)'
  BY <1>3, <1>4, IdleInv
<1>6. \A f \in Files \ {g} : ~ Removing(r, f) /\ ~ Uploading(r, f)
  BY DEF Removing, Uploading
<1>7. \A f \in Files \ {g} : ~ Removing(r, f)' /\ ~ Uploading(r, f)'
  BY <1>3, <1>4, RequestValues DEF Removing, Uploading
<1>8. \A f \in Files \ {g}, q \in Requests :
        /\ Removing(q, f)' <=> Removing(q, f)
        /\ Uploading(q, f)' <=> Uploading(q, f)
  BY <1>3, <1>6, <1>7
<1>9. TablesOK'
  BY <1>1 DEF IInv, TablesOK
<1>10. ASSUME NEW q \in Requests \ {r} PROVE Claims(q)'
  <2>1. CASE req[q].file = g
    BY <2>1
  <2>2. CASE req[q].file # g
    <3> DEFINE f == req[q].file
    <3>1. Claims(q) /\ Formed(q) /\ pc'[q] = pc[q] /\ req'[q] = req[q]
      BY <1>3 DEF IInv, RequestInv
    <3>2. req[q].kind \in {"upload", "remove"} => f \in Files \ {g}
      BY <2>2, <3>1, RequestValues DEF Formed
    <3>3. \A p \in Requests \ {q, r} : req'[p] = req[p]
      BY <1>3
    <3>4. req[q].kind = "upload" => req'[r].file # f
      BY <1>3, <1>4, <3>2, RequestValues
    <3>5. req[q].kind = "upload" /\ (\A p \in Requests \ {q} : req[p].file # f)
            => \A p \in Requests \ {q} : req'[p].file # f
      BY <3>3, <3>4
    <3>6. Removing(q, f)' => Removing(q, f) /\ f \in Files \ {g}
      BY <3>1, <3>2 DEF Removing
    <3>7. Removing(q, f)' => \A p \in Requests \ {q} : ~ Removing(p, f)'
      BY <1>8, <3>1, <3>6 DEF Claims
    <3>8. f \in Files \ {g} => /\ f \in objects' <=> f \in objects
                               /\ f \in hit' <=> f \in hit
      OBVIOUS
    <3> QED
      BY <1>2, <3>1, <3>2, <3>5, <3>6, <3>7, <3>8 DEF Claims
  <2> QED
    BY <2>1, <2>2
<1>11. \A q \in Requests \ {r} : pc[q] = "deleteTask" => req[q].task \in tasks'
  BY <1>1 DEF IInv, RequestInv, Holds
<1>12. AttachmentsAvailable'
  <2>1. ASSUME NEW f \in Stored
        PROVE  f \in objects' \cup logged' \cup hit' \/ \E q \in Requests : Removing(q, f)'
    <3>1. CASE f = g
      BY <2>1, <3>1
    <3>2. CASE f # g
      BY <1>2, <1>8, <2>1, <3>2 DEF IInv, AttachmentsAvailable
    <3> QED
      BY <3>1, <3>2
  <2> QED
    BY <1>2, <2>1 DEF AttachmentsAvailable
<1>13. NoOrphans'
  <2>1. ASSUME NEW f \in objects'
        PROVE  f \in Stored \cup logged' \cup hit' \/ \E q \in Requests : Uploading(q, f)'
    <3>1. CASE f = g
      BY <2>1, <3>1
    <3>2. CASE f # g
      BY <1>8, <2>1, <3>2 DEF IInv, NoOrphans
    <3> QED
      BY <3>1, <3>2
  <2> QED
    BY <1>2, <2>1 DEF NoOrphans
<1> QED
  BY <1>1, <1>5, <1>9, <1>10, <1>11, <1>12, <1>13, StepKeeps

\* An upload stores its object under a fresh key, which no other request claims.
LEMMA StoreObjectInv ==
  ASSUME IInv, NEW r \in Requests, StoreObject(r)
  PROVE  IInv'
<1>0. pc[r] = "store" /\ UNCHANGED logged /\ req[r].kind = "upload" /\ req[r].file \in Files
  BY KindOf, OpenRequest DEF StoreObject
<1>1. PICK g \in Files : g = req[r].file /\ pc[r] = "store" /\ req[r].kind = "upload" /\ UNCHANGED logged
  BY <1>0
<1>2. /\ TablesOK /\ RequestsOK /\ RequestInv(r) /\ r \notin open
      /\ g \notin Stored /\ \A q \in Requests \ {r} : req[q].file # g
  BY <1>1, OpenRequest DEF RequestInv, Holds, Claims
<1>3. open \subseteq Requests /\ objects \subseteq Files /\ logged \subseteq Files /\ hit \subseteq Files
  BY <1>2 DEF TablesOK, RequestsOK
<1>4. CASE objects' = objects \cup {g} /\ open' = open \cup {r} /\ Proceed(r, "insert") /\ UNCHANGED hit
  <2>1. open' \subseteq Requests /\ \A q \in Requests \ {r} : q \in open' <=> q \in open
    BY <1>3, <1>4
  <2>2. Moves(r, "insert", req[r]) /\ UNCHANGED file
    BY <1>4, <2>1, ProceedMoves DEF PCs, Kept
  <2>3. pc'[r] = "insert" /\ req'[r] = req[r] /\ \A q \in Requests \ {r} : req'[q] = req[q]
    BY <2>2, OthersStay
  <2>4. Formed(r)' /\ Holds(r)'
    BY <1>1, <1>2, <2>3 DEF RequestInv, Formed, Holds, StatementsOf
  <2>5. Claims(r)' /\ Uploading(r, g)'
    BY <1>1, <1>2, <1>4, <2>2, <2>3 DEF Claims, Stored, Removing, Uploading
  <2> QED
    BY <1>1, <1>2, <1>3, <1>4, <2>1, <2>4, <2>5, StoreStepKeeps DEF PCs, RequestInv
<1>5. CASE Answer(r) /\ UNCHANGED <<objects, hit, open>>
  <2>1. g \in objects => g \in logged \cup hit \/ \E q \in Requests : Uploading(q, g)'
    <3>1. CASE \E q \in Requests : Uploading(q, g)
      <4>1. PICK q \in Requests : Uploading(q, g)
        BY <3>1
      <4>2. q = r
        BY <1>2, <4>1 DEF Uploading
      <4> QED
        BY <1>1, <4>1, <4>2 DEF Uploading
    <3>2. CASE ~ \E q \in Requests : Uploading(q, g)
      BY <1>2, <3>2 DEF IInv, NoOrphans
    <3> QED
      BY <3>1, <3>2
  <2> QED
    BY <1>1, <1>2, <1>3, <1>5, <2>1, StoreStepKeeps DEF PCs, Answer
<1>6. CASE objects' = objects \cup {g} /\ hit' = hit \cup {g} /\ Answer(r) /\ UNCHANGED open
  BY <1>1, <1>2, <1>3, <1>6, StoreStepKeeps DEF PCs, Answer
<1> QED
  BY <1>1, <1>4, <1>5, <1>6 DEF StoreObject

\* The claims of another request for the file of r.
LEMMA SameFile ==
  ASSUME IInv, NEW r \in Requests, NEW q \in Requests \ {r}, NEW g, g = req[r].file,
         g = req[q].file, pc'[q] = pc[q], req'[q] = req[q], Stored' = Stored, hit' = hit,
         req[q].kind = "remove" /\ g \in objects' => g \in Stored \cup hit,
         Removing(q, g) => /\ g \notin objects'
                           /\ \A p \in Requests \ {q} : ~ Removing(p, g)'
  PROVE  Claims(q)'
<1>1. Claims(q)
  BY DEF IInv, RequestInv
<1>2. req[q].kind = "upload" => pc[q] = "compensate" /\ g \in hit
  BY <1>1 DEF Claims
<1>3. Removing(q, g)' => Removing(q, g)
  BY DEF Removing
<1> QED
  BY <1>1, <1>2, <1>3 DEF Claims

\* A failed upload deletes its own object, which has no row.
LEMMA CompensateInv ==
  ASSUME IInv, NEW r \in Requests, Compensate(r)
  PROVE  IInv'
<1>0. pc[r] = "compensate" /\ UNCHANGED <<hit, open>> /\ req[r].kind = "upload" /\ req[r].file \in Files
  BY KindOf, OpenRequest DEF Compensate
<1>1. PICK g \in Files : /\ g = req[r].file /\ pc[r] = "compensate" /\ req[r].kind = "upload"
                         /\ UNCHANGED <<hit, open>> /\ Proceed(r, "idle")
  BY <1>0 DEF Compensate, Answer
<1>2. /\ TablesOK /\ RequestsOK /\ r \notin open
      /\ g \notin hit => g \notin Stored /\ \A q \in Requests \ {r} : req[q].file # g
  BY <1>1, OpenRequest DEF RequestInv, Holds, Claims
<1>3. open \subseteq Requests /\ objects \subseteq Files /\ logged \subseteq Files /\ hit \subseteq Files
  BY <1>2 DEF TablesOK, RequestsOK
<1>4. \/ objects' = objects \ {g} /\ logged' = logged
      \/ objects' = objects /\ logged' = logged \cup {g}
  BY <1>1 DEF Compensate
<1>5. Moves(r, "idle", NoRequest) /\ UNCHANGED file
  BY <1>1, <1>3, ProceedMoves DEF PCs, Kept
<1>6. /\ \A q \in Requests \ {r} :
           /\ pc'[q] = pc[q] /\ req'[q] = req[q]
           /\ Removing(q, g)' <=> Removing(q, g)
      /\ pc'[r] = "idle" /\ Stored' = Stored
  BY <1>5, OthersStay DEF Stored
<1>7. ASSUME NEW q \in Requests \ {r}, req[q].file = g PROVE Claims(q)'
  <2>1. Claims(q) /\ g \in hit
    BY <1>2, <1>7 DEF IInv, RequestInv
  <2>2. Removing(q, g) => /\ g \notin objects'
                          /\ \A p \in Requests \ {q} : ~ Removing(p, g)'
    <3>1. ~ Removing(r, g)'
      BY <1>6 DEF Removing
    <3> QED
      BY <1>4, <1>6, <1>7, <2>1, <3>1 DEF Claims
  <2> QED
    BY <1>1, <1>6, <1>7, <2>1, <2>2, SameFile
<1> QED
  BY <1>1, <1>2, <1>3, <1>4, <1>7, StoreStepKeeps DEF PCs

\* The store deletes an object for one of its removals only.
LEMMA UnlinkObjectInv ==
  ASSUME IInv, NEW r \in Requests, UnlinkObject(r)
  PROVE  IInv'
<1>0. pc[r] = "unlink" /\ req[r].kind = "remove" /\ req[r].file \in Files
  BY KindOf, OpenRequest DEF UnlinkObject
<1>1. PICK g \in Files : g = req[r].file /\ pc[r] = "unlink" /\ req[r].kind = "remove"
  BY <1>0
<1>2. CASE Rollback(r)
  BY <1>1, <1>2, RollbackInv
<1>3. CASE /\ g \in objects /\ objects' = objects \ {g}
           /\ Proceed(r, "deleteRow") /\ UNCHANGED <<logged, hit, open>>
  <2>1. TablesOK /\ RequestsOK /\ RequestInv(r)
    BY <1>1, OpenRequest
  <2>2. open \subseteq Requests /\ objects \subseteq Files /\ logged \subseteq Files /\ hit \subseteq Files
    BY <2>1 DEF TablesOK, RequestsOK
  <2>3. Moves(r, "deleteRow", req[r]) /\ UNCHANGED file
    BY <1>3, <2>2, ProceedMoves DEF PCs, Kept
  <2>4. /\ \A q \in Requests \ {r} :
             /\ pc'[q] = pc[q] /\ req'[q] = req[q]
             /\ Removing(q, g)' <=> Removing(q, g)
        /\ pc'[r] = "deleteRow" /\ req'[r] = req[r] /\ Stored' = Stored
    BY <2>3, OthersStay DEF Stored
  <2>5. \A q \in Requests : ~ Removing(q, g)
    <3> SUFFICES ASSUME NEW q \in Requests, Removing(q, g) PROVE FALSE
      OBVIOUS
    <3>1. Claims(q) /\ req[q].file = g
      BY DEF IInv, RequestInv, Removing
    <3> QED
      BY <1>3, <3>1 DEF Claims
  <2>6. Formed(r)' /\ Holds(r)'
    BY <1>1, <2>1, <2>4 DEF RequestInv, Formed, Holds, StatementsOf
  <2>7. Claims(r)'
    <3>1. g \in Stored \cup hit
      BY <1>1, <1>3, <2>1 DEF RequestInv, Claims
    <3> QED
      BY <1>1, <1>3, <2>4, <2>5, <3>1 DEF Claims
  <2>8. Removing(r, g)'
    BY <1>1, <2>4 DEF Removing
  <2>9. ASSUME NEW q \in Requests \ {r}, req[q].file = g PROVE Claims(q)'
    BY <1>1, <1>3, <2>4, <2>5, <2>9, SameFile
  <2> QED
    BY <1>1, <1>3, <2>2, <2>6, <2>7, <2>8, <2>9, StoreStepKeeps DEF PCs, RequestInv
<1> QED
  BY <1>1, <1>2, <1>3 DEF UnlinkObject

\* A failed removal puts its object back: the row is there and the key is free.
LEMMA RestoreInv ==
  ASSUME IInv, NEW r \in Requests, Restore(r)
  PROVE  IInv'
<1>0. pc[r] = "restore" /\ UNCHANGED <<hit, open>> /\ req[r].kind = "remove" /\ req[r].file \in Files
  BY KindOf, OpenRequest DEF Restore
<1>1. PICK g \in Files : /\ g = req[r].file /\ pc[r] = "restore" /\ req[r].kind = "remove"
                         /\ UNCHANGED <<hit, open>> /\ Proceed(r, "idle")
  BY <1>0 DEF Restore, Answer
<1>2. /\ TablesOK /\ RequestsOK /\ r \notin open
      /\ g \notin objects /\ g \in Stored \cup hit
      /\ \A q \in Requests \ {r} : ~ Removing(q, g)
  BY <1>1, OpenRequest DEF RequestInv, Holds, Claims, Removing
<1>3. open \subseteq Requests /\ objects \subseteq Files /\ logged \subseteq Files /\ hit \subseteq Files
  BY <1>2 DEF TablesOK, RequestsOK
<1>4. /\ objects' \in {objects, objects \cup {g}} /\ logged' \in {logged, logged \cup {g}}
      /\ g \in objects' \/ g \in logged'
  BY <1>1 DEF Restore
<1>5. Moves(r, "idle", NoRequest) /\ UNCHANGED file
  BY <1>1, <1>3, ProceedMoves DEF PCs, Kept
<1>6. /\ \A q \in Requests \ {r} : pc'[q] = pc[q] /\ req'[q] = req[q]
      /\ Stored' = Stored
  BY <1>5, OthersStay DEF Stored
<1>7. ASSUME NEW q \in Requests \ {r}, req[q].file = g PROVE Claims(q)'
  BY <1>1, <1>2, <1>6, <1>7, SameFile
<1> QED
  BY <1>1, <1>2, <1>3, <1>4, <1>7, StoreStepKeeps DEF PCs

-----------------------------------------------------------------------------
(* Steps that write to the tables.                                         *)

\* The commit of an upload: its row appears, and its object is there.
LEMMA CommitUpload ==
  ASSUME IInv, NEW r \in Requests, Commit(r), req[r].kind = "upload"
  PROVE  IInv'
<1>0. pc[r] = "commit" /\ req[r].file \in Files
  BY OpenRequest DEF Commit
<1>1. PICK g \in Files : g = req[r].file
  BY <1>0
<1>2. /\ TablesOK /\ RequestsOK /\ Formed(r)
      /\ g \in objects /\ g \notin Stored /\ \A q \in Requests \ {r} : req[q].file # g
  BY <1>0, <1>1, OpenRequest DEF RequestInv, Claims
<1>3. NewFile(r) \in File
  BY <1>0, OpenRequest, RequestValues DEF NewFile, File
<1>4. file' = [file EXCEPT ![g] = NewFile(r)]
  BY <1>1 DEF Commit
<1>5. /\ file' \in [Files -> File \cup {NoFile}]
      /\ Stored' = Stored \cup {g}
  BY <1>2, <1>3, <1>4, FileRows DEF TablesOK, Stored
<1>6. UNCHANGED <<tasks, access, owners, objects, logged>>
  BY DEF Commit
<1>7. PICK next \in {"idle", "compensate"} :
        /\ Close(r, next)
        /\ next = "idle" => hit' = hit
        /\ next = "compensate" => hit' = hit \cup {g}
  BY <1>1 DEF Commit, Recovery
<1>8. Moves(r, next, Kept(r, next)) /\ r \notin open'
  BY <1>7, CloseMoves DEF PCs
<1>9. /\ \A q \in Requests \ {r} :
           /\ pc'[q] = pc[q] /\ req'[q] = req[q]
           /\ \A f : /\ Removing(q, f)' <=> Removing(q, f)
                     /\ Uploading(q, f)' <=> Uploading(q, f)
      /\ pc'[r] = next /\ req'[r] = Kept(r, next)
  BY <1>8, OthersStay
<1>10. \A f : ~ Removing(r, f) /\ ~ Removing(r, f)'
  BY <1>9, RequestValues DEF Removing, Kept
<1>11. RequestInv(r)'
  <2>1. CASE next = "idle"
    BY <1>8, <1>9, <2>1, IdleInv DEF Kept
  <2>2. CASE next = "compensate"
    <3>1. req'[r] = req[r] /\ g \in hit'
      BY <1>7, <1>9, <2>2 DEF Kept
    <3>2. Formed(r)' /\ Holds(r)'
      BY <1>0, <1>2, <1>8, <1>9, <2>2, <3>1 DEF Formed, Holds, StatementsOf
    <3>3. Claims(r)'
      BY <1>1, <1>9, <1>10, <2>2, <3>1 DEF Claims
    <3> QED
      BY <3>2, <3>3 DEF RequestInv
  <2> QED
    BY <2>1, <2>2
<1>12. ASSUME NEW q \in Requests \ {r} PROVE Claims(q)'
  <2> DEFINE f == req[q].file
  <2>1. Claims(q) /\ Formed(q) /\ pc'[q] = pc[q] /\ req'[q] = req[q] /\ f # g
    BY <1>2, <1>9 DEF IInv, RequestInv
  <2>2. req[q].kind \in {"upload", "remove"} => f \in Files
    BY <2>1, RequestValues DEF Formed
  <2>3. f \in hit' <=> f \in hit
    BY <1>7, <2>1
  <2>4. f \in Stored' <=> f \in Stored
    BY <1>5, <2>1
  <2>5. req[q].kind = "upload" => req'[r].file # f
    BY <1>1, <1>9, <2>1, <2>2, RequestValues DEF Kept
  <2>6. \A p \in Requests \ {q, r} : req'[p] = req[p]
    BY <1>9
  <2>7. req[q].kind = "upload" /\ (\A p \in Requests \ {q} : req[p].file # f)
          => \A p \in Requests \ {q} : req'[p].file # f
    BY <2>5, <2>6
  <2>8. Removing(q, f)' => Removing(q, f) /\ \A p \in Requests \ {q} : ~ Removing(p, f)'
    BY <1>9, <1>10, <2>1 DEF Claims, Removing
  <2> QED
    BY <1>6, <2>1, <2>3, <2>4, <2>7, <2>8 DEF Claims
<1>13. TablesOK'
  BY <1>2, <1>5, <1>6, <1>7 DEF TablesOK
<1>14. \A q \in Requests \ {r} : pc[q] = "deleteTask" => req[q].task \in tasks'
  BY <1>6 DEF IInv, RequestInv, Holds
<1>15. AttachmentsAvailable'
  <2>1. ASSUME NEW f \in Stored'
        PROVE  f \in objects' \cup logged' \cup hit' \/ \E q \in Requests : Removing(q, f)'
    <3>1. CASE f = g
      BY <1>2, <1>6, <3>1
    <3>2. CASE f # g
      BY <1>5, <1>6, <1>7, <1>9, <1>10, <2>1, <3>2 DEF IInv, AttachmentsAvailable
    <3> QED
      BY <3>1, <3>2
  <2> QED
    BY <2>1 DEF AttachmentsAvailable
<1>16. NoOrphans'
  <2>1. ASSUME NEW f \in objects'
        PROVE  f \in Stored' \cup logged' \cup hit' \/ \E q \in Requests : Uploading(q, f)'
    <3>1. CASE f = g
      BY <1>5, <3>1
    <3>2. CASE f # g
      <4>1. ~ Uploading(r, f)
        BY <1>1, <3>2 DEF Uploading
      <4> QED
        BY <1>5, <1>6, <1>7, <1>9, <2>1, <3>2, <4>1 DEF IInv, NoOrphans
    <3> QED
      BY <3>1, <3>2
  <2> QED
    BY <2>1 DEF NoOrphans
<1> QED
  BY <1>8, <1>11, <1>12, <1>13, <1>14, <1>15, <1>16, StepKeeps

\* The commit of a removal: its row goes, and its object is gone already.
LEMMA CommitRemoval ==
  ASSUME IInv, NEW r \in Requests, Commit(r), req[r].kind = "remove"
  PROVE  IInv'
<1>0. pc[r] = "commit" /\ req[r].file \in Files
  BY OpenRequest DEF Commit
<1>1. PICK g \in Files : g = req[r].file
  BY <1>0
<1>2. /\ TablesOK /\ RequestsOK /\ Formed(r)
      /\ g \notin objects /\ \A q \in Requests \ {r} : ~ Removing(q, g)
  BY <1>0, <1>1, OpenRequest DEF RequestInv, Claims, Removing
<1>4. file' = [file EXCEPT ![g] = NoFile]
  BY <1>1 DEF Commit
<1>5. /\ file' \in [Files -> File \cup {NoFile}]
      /\ Stored' = Stored \ {g}
  BY <1>2, <1>4 DEF TablesOK, Stored
<1>6. UNCHANGED <<tasks, access, owners, objects, logged>>
  BY DEF Commit
<1>7. PICK next \in {"idle", "restore"} :
        /\ Close(r, next)
        /\ next = "idle" => hit' = hit
        /\ next = "restore" => hit' = hit \cup {g}
  BY <1>0, <1>1 DEF Commit, Recovery
<1>8. Moves(r, next, Kept(r, next)) /\ r \notin open'
  BY <1>7, CloseMoves DEF PCs
<1>9. /\ \A q \in Requests \ {r} :
           /\ pc'[q] = pc[q] /\ req'[q] = req[q]
           /\ \A f : /\ Removing(q, f)' <=> Removing(q, f)
                     /\ Uploading(q, f)' <=> Uploading(q, f)
      /\ pc'[r] = next /\ req'[r] = Kept(r, next)
  BY <1>8, OthersStay
<1>10. \A f : f # g => ~ Removing(r, f) /\ ~ Removing(r, f)'
  BY <1>1, <1>9, RequestValues DEF Removing, Kept
<1>11. RequestInv(r)'
  <2>1. CASE next = "idle"
    BY <1>8, <1>9, <2>1, IdleInv DEF Kept
  <2>2. CASE next = "restore"
    <3>1. req'[r] = req[r] /\ g \in hit'
      BY <1>7, <1>9, <2>2 DEF Kept
    <3>2. Formed(r)' /\ Holds(r)'
      BY <1>0, <1>2, <1>8, <1>9, <2>2, <3>1 DEF Formed, Holds, StatementsOf
    <3>3. Claims(r)'
      BY <1>1, <1>2, <1>6, <1>9, <2>2, <3>1 DEF Claims
    <3> QED
      BY <3>2, <3>3 DEF RequestInv
  <2> QED
    BY <2>1, <2>2
<1>12. ASSUME NEW q \in Requests \ {r} PROVE Claims(q)'
  <2> DEFINE f == req[q].file
  <2>1. Claims(q) /\ Formed(q) /\ pc'[q] = pc[q] /\ req'[q] = req[q]
    BY <1>9 DEF IInv, RequestInv
  <2>2. req[q].kind \in {"upload", "remove"} => f \in Files
    BY <2>1, RequestValues DEF Formed
  <2>3. /\ f \in hit => f \in hit'
        /\ f # g => (f \in hit' <=> f \in hit)
    BY <1>7
  <2>4. f # g => (f \in Stored' <=> f \in Stored)
    BY <1>5
  <2>5. Removing(q, f)' => Removing(q, f) /\ f # g
    BY <1>2, <2>1 DEF Removing
  <2>6. req[q].kind = "upload" /\ f # g => req'[r].file # f
    BY <1>1, <1>9, <2>2, RequestValues DEF Kept
  <2>7. req[q].kind = "upload" /\ (pc[q] # "compensate" \/ f \notin hit) => f # g
    BY <1>1, <2>1 DEF Claims
  <2>8. \A p \in Requests \ {q, r} : req'[p] = req[p]
    BY <1>9
  <2>9. Removing(q, f)' => \A p \in Requests \ {q} : ~ Removing(p, f)'
    BY <1>9, <1>10, <2>1, <2>5 DEF Claims
  <2>10. req[q].kind = "upload" /\ (pc'[q] # "compensate" \/ f \notin hit')
           => f \notin Stored' /\ \A p \in Requests \ {q} : req'[p].file # f
    BY <2>1, <2>3, <2>4, <2>6, <2>7, <2>8 DEF Claims
  <2>11. req[q].kind = "upload" /\ pc[q] \in {"insert", "commit"} => f \in objects
    BY <2>1 DEF Claims
  <2>12. req[q].kind = "remove" /\ f \in objects => f \in Stored' \cup hit'
    BY <1>2, <2>1, <2>3, <2>4 DEF Claims
  <2>13. Removing(q, f)' => f \notin objects' /\ f \in Stored' \cup hit'
    BY <1>6, <2>1, <2>3, <2>4, <2>5 DEF Claims
  <2> QED
    BY <1>6, <2>1, <2>9, <2>10, <2>11, <2>12, <2>13 DEF Claims
<1>13. TablesOK'
  BY <1>2, <1>5, <1>6, <1>7 DEF TablesOK
<1>14. \A q \in Requests \ {r} : pc[q] = "deleteTask" => req[q].task \in tasks'
  BY <1>6 DEF IInv, RequestInv, Holds
<1>15. AttachmentsAvailable'
  <2>1. ASSUME NEW f \in Stored'
        PROVE  f \in objects' \cup logged' \cup hit' \/ \E q \in Requests : Removing(q, f)'
    BY <1>5, <1>6, <1>7, <1>9, <1>10, <2>1 DEF IInv, AttachmentsAvailable
  <2> QED
    BY <2>1 DEF AttachmentsAvailable
<1>16. NoOrphans'
  <2>1. ASSUME NEW f \in objects'
        PROVE  f \in Stored' \cup logged' \cup hit' \/ \E q \in Requests : Uploading(q, f)'
    <3>1. f # g /\ ~ Uploading(r, f)
      BY <1>2, <1>6, <2>1 DEF Uploading
    <3> QED
      BY <1>5, <1>6, <1>7, <1>9, <2>1, <3>1 DEF IInv, NoOrphans
  <2> QED
    BY <2>1 DEF NoOrphans
<1> QED
  BY <1>8, <1>11, <1>12, <1>13, <1>14, <1>15, <1>16, StepKeeps

\* A commit makes rows and objects agree again.
LEMMA CommitInv ==
  ASSUME IInv, NEW r \in Requests, Commit(r)
  PROVE  IInv'
<1>1. req[r].kind \in {"upload", "remove"}
  BY KindOf DEF Commit
<1> QED
  BY <1>1, CommitUpload, CommitRemoval

-----------------------------------------------------------------------------
(* Requests that begin, and what touches no object.                        *)

\* A step of a request that is at no file before and has touched no object
\* after it; every row stays.
LEMMA ApartKeeps ==
  ASSUME IInv, NEW r \in Requests, NEW next, NEW request, Moves(r, next, request),
         TablesOK', Stored' = Stored, UNCHANGED <<objects, logged, hit>>, RequestInv(r)',
         \A f : /\ ~ Removing(r, f) /\ ~ Uploading(r, f)
                /\ ~ Removing(r, f)' /\ ~ Uploading(r, f)',
         \A q \in Requests \ {r} :
           /\ req[q].kind = "upload" /\ (pc[q] # "compensate" \/ req[q].file \notin hit)
                => request.file # req[q].file
           /\ pc[q] = "deleteTask" => req[q].task \in tasks'
  PROVE  IInv'
<1>1. /\ \A q \in Requests \ {r} :
           /\ pc'[q] = pc[q] /\ req'[q] = req[q]
           /\ \A f : /\ Removing(q, f)' <=> Removing(q, f)
                     /\ Uploading(q, f)' <=> Uploading(q, f)
      /\ req'[r] = request
  BY OthersStay
<1>2. \A q \in Requests : \A f : /\ Removing(q, f)' <=> Removing(q, f)
                                 /\ Uploading(q, f)' <=> Uploading(q, f)
  BY <1>1
<1>3. ASSUME NEW q \in Requests \ {r} PROVE Claims(q)'
  <2> DEFINE f == req[q].file
  <2>1. Claims(q) /\ pc'[q] = pc[q] /\ req'[q] = req[q]
    BY <1>1 DEF IInv, RequestInv
  <2>2. \A p \in Requests \ {q, r} : req'[p] = req[p]
    BY <1>1
  <2>3. req[q].kind = "upload" /\ (pc[q] # "compensate" \/ f \notin hit)
          => f \notin Stored /\ \A p \in Requests \ {q} : req'[p].file # f
    BY <1>1, <2>1, <2>2 DEF Claims
  <2>4. Removing(q, f)' => \A p \in Requests \ {q} : ~ Removing(p, f)'
    BY <1>1, <1>2, <2>1 DEF Claims, Removing
  <2>5. Removing(q, f)' => Removing(q, f)
    BY <1>1, <2>1 DEF Removing
  <2>6. /\ req[q].kind = "upload" /\ pc[q] \in {"insert", "commit"} => f \in objects
        /\ req[q].kind = "remove" /\ f \in objects => f \in Stored \cup hit
        /\ Removing(q, f) => f \notin objects /\ f \in Stored \cup hit
    BY <2>1 DEF Claims
  <2> QED
    BY <2>1, <2>3, <2>4, <2>5, <2>6 DEF Claims
<1>4. AttachmentsAvailable'
  BY <1>2 DEF IInv, AttachmentsAvailable
<1>5. NoOrphans'
  BY <1>2 DEF IInv, NoOrphans
<1> QED
  BY <1>3, <1>4, <1>5, StepKeeps

\* The rows of the Task stay, in the Project's scope.
LEMMA DeleteTaskInv ==
  ASSUME IInv, NEW r \in Requests, DeleteTask(r)
  PROVE  IInv'
<1>1. /\ pc[r] = "deleteTask" /\ req[r].kind = "removeTask"
      /\ req[r].task \in Tasks /\ TablesOK /\ Holds(r)
  BY KindOf, OpenRequest DEF DeleteTask, RequestInv
<1>2. /\ tasks' = tasks \ {req[r].task}
      /\ file' = [f \in Files |-> IF file[f].task = req[r].task
                                  THEN [file[f] EXCEPT !.task = None] ELSE file[f]]
      /\ Close(r, "idle") /\ UNCHANGED <<access, owners, objects, logged, hit>>
  BY DEF DeleteTask
<1>3. Moves(r, "idle", NoRequest) /\ r \notin open'
  BY <1>2, CloseMoves DEF PCs, Kept
<1>4. \A x \in File : [x EXCEPT !.task = None] \in File
  BY DEF File
<1>5. ASSUME NEW f \in Files
      PROVE  /\ file'[f] \in File \cup {NoFile}
             /\ file'[f] = NoFile <=> file[f] = NoFile
  <2>1. file[f] \in File \cup {NoFile}
    BY <1>1 DEF TablesOK
  <2>2. CASE file[f].task = req[r].task
    <3>1. file[f] \in File /\ file'[f] = [file[f] EXCEPT !.task = None]
      BY <1>1, <1>2, <2>1, <2>2, FileRows, FileNoneAssumption
    <3>2. file'[f] \in File
      BY <1>4, <3>1
    <3> QED
      BY <3>1, <3>2, FileRows
  <2>3. CASE file[f].task # req[r].task
    BY <1>2, <2>1, <2>3
  <2> QED
    BY <2>2, <2>3
<1>6. TablesOK' /\ Stored' = Stored
  <2>1. file' \in [Files -> File \cup {NoFile}]
    BY <1>2, <1>5
  <2> QED
    BY <1>1, <1>2, <1>5, <2>1 DEF TablesOK, Stored
<1>7. pc'[r] = "idle" /\ req'[r] = NoRequest
  BY <1>3 DEF Moves
<1>8. RequestInv(r)'
  BY <1>3, <1>7, IdleInv
<1>9. \A f : /\ ~ Removing(r, f) /\ ~ Uploading(r, f)
             /\ ~ Removing(r, f)' /\ ~ Uploading(r, f)'
  BY <1>1, <1>7 DEF Removing, Uploading
<1>10. ASSUME NEW q \in Requests \ {r}
       PROVE  /\ req[q].kind = "upload" => NoRequest.file # req[q].file
              /\ pc[q] # "deleteTask"
  <2>1. Holds(q) /\ Formed(q)
    BY DEF IInv, RequestInv
  <2>2. req[q].kind = "upload" => req[q].file \in Files
    BY <2>1, RequestValues DEF Formed
  <2> QED
    BY <1>1, <2>1, <2>2, RequestValues DEF Holds
<1> QED
  BY <1>2, <1>3, <1>6, <1>8, <1>9, <1>10, ApartKeeps

\* The key of an upload is fresh: no request names it, no row and no object has
\* it.
LEMMA BeginUploadInv ==
  ASSUME IInv, NEW r \in Requests, BeginUpload(r)
  PROVE  IInv'
<1>1. PICK u \in access, t \in tasks \cup {None}, g \in Files \ (Stored \cup objects) :
        /\ \A q \in Requests : req[q].file # g
        /\ req' = [req EXCEPT ![r] = [kind |-> "upload", user |-> u, file |-> g, task |-> t]]
  BY DEF BeginUpload
<1> DEFINE new == [kind |-> "upload", user |-> u, file |-> g, task |-> t]
<1>2. /\ pc[r] = "idle" /\ pc' = [pc EXCEPT ![r] = "store"]
      /\ UNCHANGED <<tables, open, holder, sharers>>
  BY DEF BeginUpload, Goto
<1>3. TablesOK /\ RequestsOK /\ Formed(r) /\ Holds(r)
  BY DEF IInv, RequestInv
<1>4. new \in Request /\ new.kind = "upload" /\ new.file = g
  BY <1>1, <1>3 DEF Request, Kinds, TablesOK
<1>5. req' = [req EXCEPT ![r] = new]
  BY <1>1
<1> HIDE DEF new
<1>6. /\ pc' \in [Requests -> PCs] /\ req' \in [Requests -> Request \cup {NoRequest}]
      /\ pc'[r] = "store" /\ req'[r] = new
      /\ \A q \in Requests \ {r} : pc'[q] = pc[q] /\ req'[q] = req[q]
  BY <1>2, <1>3, <1>4, <1>5 DEF RequestsOK, PCs
<1>7. Moves(r, "store", new)
  BY <1>2, <1>3, <1>6 DEF Moves, RequestsOK, LocksTypeOK
<1>8. UNCHANGED <<tasks, access, owners, file, objects, logged, hit>> /\ Stored' = Stored
  BY <1>2 DEF tables, Stored
<1>9. TablesOK'
  BY <1>3, <1>8 DEF TablesOK
<1>10. RequestInv(r)'
  <2>1. Formed(r)' /\ Holds(r)'
    BY <1>2, <1>3, <1>4, <1>6 DEF Formed, Holds, StatementsOf
  <2>2. Claims(r)'
    BY <1>1, <1>4, <1>6, <1>8 DEF Claims, Removing
  <2> QED
    BY <2>1, <2>2 DEF RequestInv
<1>11. \A f : /\ ~ Removing(r, f) /\ ~ Uploading(r, f)
              /\ ~ Removing(r, f)' /\ ~ Uploading(r, f)'
  BY <1>2, <1>6 DEF Removing, Uploading
<1>12. \A q \in Requests : pc[q] = "deleteTask" => req[q].task \in tasks
  BY DEF IInv, RequestInv, Holds
<1> QED
  BY <1>1, <1>4, <1>7, <1>8, <1>9, <1>10, <1>11, <1>12, ApartKeeps

\* An upload that names the file of a row is one whose commit was taken for a
\* failure.
LEMMA BeginRemoveInv ==
  ASSUME IInv, NEW r \in Requests, BeginRemove(r)
  PROVE  IInv'
<1>1. PICK u \in access, t \in tasks \cup {None}, g \in Stored :
        req' = [req EXCEPT ![r] = [kind |-> "remove", user |-> u, file |-> g, task |-> t]]
  BY DEF BeginRemove
<1> DEFINE new == [kind |-> "remove", user |-> u, file |-> g, task |-> t]
<1>2. /\ pc[r] = "idle" /\ pc' = [pc EXCEPT ![r] = "lockFile"]
      /\ open' = open \cup {r} /\ UNCHANGED <<tables, holder, sharers>>
  BY DEF BeginRemove, Goto
<1>3. TablesOK /\ RequestsOK /\ Formed(r)
  BY DEF IInv, RequestInv
<1>4. new \in Request /\ new.kind = "remove" /\ new.file = g /\ g \in Files
  BY <1>1, <1>3 DEF Request, Kinds, TablesOK, Stored
<1>5. req' = [req EXCEPT ![r] = new]
  BY <1>1
<1> HIDE DEF new
<1>6. /\ pc' \in [Requests -> PCs] /\ req' \in [Requests -> Request \cup {NoRequest}]
      /\ pc'[r] = "lockFile" /\ req'[r] = new
      /\ \A q \in Requests \ {r} : pc'[q] = pc[q] /\ req'[q] = req[q]
  BY <1>2, <1>3, <1>4, <1>5 DEF RequestsOK, PCs
<1>7. Moves(r, "lockFile", new)
  BY <1>2, <1>3, <1>6 DEF Moves, RequestsOK, LocksTypeOK
<1>8. UNCHANGED <<tasks, access, owners, file, objects, logged, hit>> /\ Stored' = Stored
  BY <1>2 DEF tables, Stored
<1>9. TablesOK'
  BY <1>3, <1>8 DEF TablesOK
<1>10. RequestInv(r)'
  <2>1. Formed(r)' /\ Holds(r)'
    BY <1>4, <1>6 DEF Formed, Holds, StatementsOf
  <2>2. Claims(r)'
    BY <1>1, <1>4, <1>6, <1>8 DEF Claims, Removing
  <2> QED
    BY <2>1, <2>2 DEF RequestInv
<1>11. \A f : /\ ~ Removing(r, f) /\ ~ Uploading(r, f)
              /\ ~ Removing(r, f)' /\ ~ Uploading(r, f)'
  BY <1>2, <1>6 DEF Removing, Uploading
<1>12. \A q \in Requests : pc[q] = "deleteTask" => req[q].task \in tasks
  BY DEF IInv, RequestInv, Holds
<1>13. \A q \in Requests :
         req[q].kind = "upload" /\ (pc[q] # "compensate" \/ req[q].file \notin hit)
           => g # req[q].file
  BY <1>1 DEF IInv, RequestInv, Claims
<1> QED
  BY <1>4, <1>7, <1>8, <1>9, <1>10, <1>11, <1>12, <1>13, ApartKeeps

\* The deletion of a Task starts with nothing.
LEMMA BeginRemoveTaskInv ==
  ASSUME IInv, NEW r \in Requests, BeginRemoveTask(r)
  PROVE  IInv'
<1>1. PICK u \in access, t \in tasks :
        req' = [req EXCEPT ![r] = [kind |-> "removeTask", user |-> u, file |-> None, task |-> t]]
  BY DEF BeginRemoveTask
<1> DEFINE new == [kind |-> "removeTask", user |-> u, file |-> None, task |-> t]
<1>2. /\ pc[r] = "idle" /\ pc' = [pc EXCEPT ![r] = "lockProject"]
      /\ open' = open \cup {r} /\ UNCHANGED <<tables, holder, sharers>>
  BY DEF BeginRemoveTask, Goto
<1>3. TablesOK /\ RequestsOK /\ Formed(r)
  BY DEF IInv, RequestInv
<1>4. /\ new \in Request /\ new.kind = "removeTask" /\ new.file = None
      /\ new.task = t /\ t \in Tasks
  BY <1>1, <1>3 DEF Request, Kinds, TablesOK
<1>5. req' = [req EXCEPT ![r] = new]
  BY <1>1
<1> HIDE DEF new
<1>6. /\ pc' \in [Requests -> PCs] /\ req' \in [Requests -> Request \cup {NoRequest}]
      /\ pc'[r] = "lockProject" /\ req'[r] = new
      /\ \A q \in Requests \ {r} : pc'[q] = pc[q] /\ req'[q] = req[q]
  BY <1>2, <1>3, <1>4, <1>5 DEF RequestsOK, PCs
<1>7. Moves(r, "lockProject", new)
  BY <1>2, <1>3, <1>6 DEF Moves, RequestsOK, LocksTypeOK
<1>8. UNCHANGED <<tasks, access, owners, file, objects, logged, hit>> /\ Stored' = Stored
  BY <1>2 DEF tables, Stored
<1>9. TablesOK'
  BY <1>3, <1>8 DEF TablesOK
<1>10. RequestInv(r)'
  <2>1. Formed(r)' /\ Holds(r)'
    BY <1>4, <1>6 DEF Formed, Holds, StatementsOf
  <2>2. Claims(r)'
    BY <1>4, <1>6 DEF Claims, Removing
  <2> QED
    BY <2>1, <2>2 DEF RequestInv
<1>11. \A f : /\ ~ Removing(r, f) /\ ~ Uploading(r, f)
              /\ ~ Removing(r, f)' /\ ~ Uploading(r, f)'
  BY <1>2, <1>4, <1>6 DEF Removing, Uploading
<1>12. \A q \in Requests : pc[q] = "deleteTask" => req[q].task \in tasks
  BY DEF IInv, RequestInv, Holds
<1>13. \A q \in Requests : req[q].kind = "upload" => None # req[q].file
  <2> SUFFICES ASSUME NEW q \in Requests, req[q].kind = "upload" PROVE None # req[q].file
    OBVIOUS
  <2>1. pc[q] # "idle"
    BY RequestValues DEF IInv, RequestInv, Formed
  <2>2. req[q].file \in Files
    BY <2>1, OpenRequest
  <2> QED
    BY <2>2, RequestValues
<1> QED
  BY <1>4, <1>7, <1>8, <1>9, <1>10, <1>11, <1>12, <1>13, ApartKeeps

\* Members who come and go change no file.
LEMMA ChangeMembersInv ==
  ASSUME IInv, ChangeMembers
  PROVE  IInv'
<1>1. access' \subseteq Users /\ owners' \subseteq access'
  BY DEF ChangeMembers
<1>2. UNCHANGED <<tasks, file, objects, logged, hit, pc, req, open, holder, sharers>>
  BY DEF ChangeMembers
<1>3. TablesOK'
  BY <1>1, <1>2 DEF IInv, TablesOK
<1>4. RequestsOK'
  BY <1>2 DEF IInv, RequestsOK, LocksTypeOK
<1>5. ASSUME NEW r \in Requests PROVE RequestInv(r)'
  <2>1. RequestInv(r)
    BY DEF IInv
  <2> QED
    BY <1>2, <2>1 DEF RequestInv, Formed, Holds, Claims, Removing, Stored
<1>6. AttachmentsAvailable' /\ NoOrphans'
  BY <1>2 DEF IInv, AttachmentsAvailable, NoOrphans, Removing, Uploading, Stored
<1> QED
  BY <1>3, <1>4, <1>5, <1>6 DEF IInv

\* After a crash nobody is at work, and what somebody was at work on counts as
\* hit.
LEMMA CrashInv ==
  ASSUME IInv, Crash
  PROVE  IInv'
<1> DEFINE H == {f \in Files : \E r \in Requests : Removing(r, f) \/ Uploading(r, f)}
<1>1. /\ hit' = hit \cup H
      /\ pc' = [r \in Requests |-> "idle"]
      /\ req' = [r \in Requests |-> NoRequest]
      /\ open' = {}
      /\ holder' = [x \in LockRows |-> None]
      /\ sharers' = [x \in LockRows |-> {}]
      /\ UNCHANGED <<tasks, access, owners, file, objects, logged>>
  BY DEF Crash
<1>2. H \subseteq Files /\ TablesOK
  BY DEF IInv
<1>3. TablesOK'
  BY <1>1, <1>2 DEF TablesOK
<1>4. RequestsOK'
  BY <1>1 DEF RequestsOK, LocksTypeOK, PCs
<1>5. \A r \in Requests : RequestInv(r)'
  BY <1>1, IdleInv
<1>6. \A r \in Requests, f \in Files : Removing(r, f) \/ Uploading(r, f) => f \in H
  OBVIOUS
<1> HIDE DEF H
<1>7. Stored' = Stored /\ Stored \subseteq Files /\ objects \subseteq Files
  BY <1>1, <1>2 DEF Stored, TablesOK
<1>8. AttachmentsAvailable'
  BY <1>1, <1>6, <1>7 DEF IInv, AttachmentsAvailable
<1>9. NoOrphans'
  BY <1>1, <1>6, <1>7 DEF IInv, NoOrphans
<1> QED
  BY <1>3, <1>4, <1>5, <1>8, <1>9 DEF IInv

-----------------------------------------------------------------------------
(* The invariant, and what follows from it.                                *)

\* Nothing is stored at first.
LEMMA InitInv == Init => IInv
<1> SUFFICES ASSUME Init PROVE IInv
  OBVIOUS
<1>1. Stored = {}
  BY DEF Init, Stored
<1>2. TablesOK
  BY DEF Init, TablesOK
<1>3. RequestsOK
  BY DEF Init, RequestsOK, LocksInit, LocksTypeOK, PCs
<1>4. ASSUME NEW r \in Requests PROVE RequestInv(r)
  <2>1. pc[r] = "idle" /\ req[r] = NoRequest /\ r \notin open
    BY DEF Init
  <2> QED
    BY <2>1, RequestValues DEF RequestInv, Formed, Holds, Claims, Removing
<1>5. AttachmentsAvailable /\ NoOrphans
  BY <1>1 DEF Init, AttachmentsAvailable, NoOrphans
<1> QED
  BY <1>2, <1>3, <1>4, <1>5 DEF IInv

\* Every statement of a request keeps the invariant.
LEMMA StepInv ==
  ASSUME IInv, NEW r \in Requests, Step(r)
  PROVE  IInv'
BY StoreObjectInv, InsertFileInv, CompensateInv, LockFileInv, FindFileInv, ReadObjectInv,
   UnlinkObjectInv, DeleteRowInv, RestoreInv, CommitInv, LockProjectInv, LockTaskInv,
   DeleteTaskInv, BreakDeadlockInv DEF Step

\* Every step keeps the invariant.
LEMMA NextInv == IInv /\ [Next]_vars => IInv'
<1> SUFFICES ASSUME IInv, [Next]_vars PROVE IInv'
  OBVIOUS
<1>1. CASE UNCHANGED vars
  BY <1>1 DEF vars, IInv, TablesOK, RequestsOK, LocksTypeOK, RequestInv, Formed, Holds, Claims,
              Removing, Uploading, Stored, AttachmentsAvailable, NoOrphans
<1>2. CASE ChangeMembers \/ Crash
  BY <1>2, ChangeMembersInv, CrashInv
<1>3. CASE \E r \in Requests :
             \/ BeginUpload(r)
             \/ BeginRemove(r)
             \/ BeginRemoveTask(r)
             \/ Step(r)
             \/ Fail(r)
             \/ Timeout(r)
  BY <1>3, BeginUploadInv, BeginRemoveInv, BeginRemoveTaskInv, StepInv, FailInv, TimeoutInv
<1> QED
  BY <1>1, <1>2, <1>3 DEF Next

\* The inductive invariant: who may touch a storage key, and that rows and objects agree
\* but for the keys an open request claims.
THEOREM Invariance == Spec => []IInv
<1> QED
  BY InitInv, NextInv, PTL DEF Spec

\* Every variable keeps its type.
THEOREM TypeCorrect == Spec => []TypeOK
<1>1. IInv => TypeOK
  BY Types DEF IInv
<1> QED
  BY <1>1, Invariance, PTL

\* An attachment that is listed can be downloaded, but for a removal at work, a
\* loss in the log and a fault that no code handles.
THEOREM AttachmentsStayAvailable == Spec => []AttachmentsAvailable
<1>1. IInv => AttachmentsAvailable
  BY DEF IInv
<1> QED
  BY <1>1, Invariance, PTL

\* No object is left without its row, but for an upload at work, a failure in
\* the log and a fault that no code handles.
THEOREM NoObjectIsOrphaned == Spec => []NoOrphans
<1>1. IInv => NoOrphans
  BY DEF IInv
<1> QED
  BY <1>1, Invariance, PTL

\* The removal that has to store an object again finds its key free.
THEOREM RestoreIsNeverBlocked == Spec => []RestoreFindsKeyFree
<1>1. ASSUME IInv PROVE RestoreFindsKeyFree
  <2> SUFFICES ASSUME NEW r \in Requests, pc[r] = "restore" PROVE req[r].file \notin objects
    BY DEF RestoreFindsKeyFree
  <2>1. Claims(r) /\ req[r].kind = "remove"
    BY <1>1, KindOf DEF IInv, RequestInv
  <2> QED
    BY <2>1 DEF Claims, Removing
<1> QED
  BY <1>1, Invariance, PTL

\* An attachment goes only with a request to remove it, and leaves a Task only
\* for the Project's scope when the Task is deleted.
THEOREM FilesLeaveOnlyByRemoval == Spec => FilesLeaveByRemoval
<1>1. ASSUME IInv, [Next]_vars PROVE [FilesStep]_vars
  <2>1. CASE UNCHANGED file
    BY <2>1 DEF FilesStep
  <2>2. ASSUME NEW r \in Requests, Commit(r) PROVE FilesStep
    <3>1. /\ pc[r] = "commit" /\ TablesOK /\ RequestInv(r)
          /\ req[r].kind \in {"upload", "remove"} /\ req[r].file \in Files
      BY <1>1, <2>2, KindOf, OpenRequest DEF Commit
    <3>2. \A f \in Stored : f # req[r].file => file'[f] = file[f]
      BY <2>2, <3>1 DEF Commit, TablesOK, Stored
    <3>3. CASE req[r].kind = "upload"
      BY <3>1, <3>2, <3>3 DEF FilesStep, RequestInv, Claims
    <3>4. CASE req[r].kind = "remove"
      <4>1. file'[req[r].file] = NoFile
        BY <2>2, <3>1, <3>4 DEF Commit, TablesOK
      <4> QED
        BY <3>1, <3>2, <3>4, <4>1 DEF FilesStep
    <3> QED
      BY <3>1, <3>3, <3>4
  <2>3. ASSUME NEW r \in Requests, DeleteTask(r) PROVE FilesStep
    <3>1. /\ pc[r] = "deleteTask" /\ req[r].task \in tasks
          /\ tasks' = tasks \ {req[r].task}
          /\ file' = [f \in Files |-> IF file[f].task = req[r].task
                                      THEN [file[f] EXCEPT !.task = None] ELSE file[f]]
      BY <1>1, <2>3 DEF DeleteTask, IInv, RequestInv, Holds
    <3>2. \A f \in Stored : f \in Files
      BY DEF Stored
    <3> QED
      BY <3>1, <3>2 DEF FilesStep
  <2>4. CASE ChangeMembers \/ Crash \/ UNCHANGED vars
    BY <2>1, <2>4 DEF ChangeMembers, Crash, vars
  <2>5. ASSUME NEW r \in Requests,
               \/ BeginUpload(r)
               \/ BeginRemove(r)
               \/ BeginRemoveTask(r)
               \/ Step(r)
               \/ Fail(r)
               \/ Timeout(r)
        PROVE  UNCHANGED file \/ Commit(r) \/ DeleteTask(r)
    BY <2>5 DEF BeginUpload, BeginRemove, BeginRemoveTask, Step, Fail, Timeout, StoreObject,
                InsertFile, Compensate, LockFile, FindFile, ReadObject, UnlinkObject, DeleteRow,
                Restore, LockProject, LockTask, BreakDeadlock, Lock, Rollback, Proceed, Answer,
                tables
  <2> QED
    BY <1>1, <2>1, <2>2, <2>3, <2>4, <2>5 DEF Next
<1> QED
  BY <1>1, Invariance, PTL DEF Spec, FilesLeaveByRemoval
=============================================================================
