-------------------------- MODULE DiscussionProofs --------------------------
(***************************************************************************)
(* Theorems about Discussion, for any number of users, comments, texts and *)
(* concurrent requests.                                                    *)
(*                                                                         *)
(* None of the properties is inductive: a commit trusts what its request   *)
(* has read, some statements ago.  IInv says of every request which row    *)
(* locks it has (RowLocksOf), what it has found out under them (Knows),    *)
(* and whom it is going to tell what (Notices).  Nobody can make that      *)
(* false, because the write that would needs a lock that is taken.         *)
(***************************************************************************)
EXTENDS Discussion, TLAPS

OnTask == {"update", "remove"}
OnComments == {"edit", "erase"}

\* The statements of a request that is open, by its kind.
StepsOf(kind) ==
  {"resolve", "commit"} \cup
  CASE kind = "update" -> {"lockProject", "lockTask", "assert", "referTask", "record", "notify"}
    [] kind = "remove" -> {"lockProject", "lockTask", "assert", "cascade"}
    [] kind = "comment" -> {"parent", "referParent", "insert", "referTask", "record", "notify"}
    [] OTHER -> {"lockComment", "check", "referTask", "record"}

\* What a request asks for, and what it has read, have their types.
Request ==
  [kind : Kinds \cup {None}, user : Users \cup {None}, comment : Comments \cup {None},
   text : Texts \cup {None}, to : Users \cup {None}, before : Users \cup {None},
   asked : SUBSET (Users \X {"assigned", "unassigned", "reply", "onTask"}),
   due : SUBSET (Users \X {"assigned", "unassigned", "nothing"})]

CommentRow(c) == <<"Comment", c>>

-----------------------------------------------------------------------------
(* Which row locks a request has, by its kind and the statement it has     *)
(* come to: these and no others.                                           *)

HasProject(r) == req[r].kind \in OnTask /\ pc[r] \notin {"idle", "resolve", "lockProject"}

HasTask(r) == HasProject(r) /\ pc[r] # "lockTask"

Changing(r) == req[r].kind \in OnComments /\ pc[r] \in {"check", "referTask", "record", "commit"}

HasComment(r, c) ==
  \/ Changing(r) /\ req[r].comment = c
  \/ req[r].kind = "remove" /\ pc[r] = "commit" /\ comment[c] # NoComment

SharesProject(r) == req[r].kind # "remove" /\ pc[r] \in {"notify", "commit"}

SharesTask(r) ==
  /\ req[r].kind # "remove"
  /\ pc[r] \in {"record", "notify", "commit"} \cup IF req[r].kind = "comment" THEN {"referTask"} ELSE {}

SharesComment(r, c) ==
  /\ req[r].kind = "comment" /\ req[r].comment = c
  /\ pc[r] \in {"insert", "referTask", "record", "notify", "commit"}

RowLocksOf(r) ==
  /\ holder[ProjectRow] = r <=> HasProject(r)
  /\ holder[TaskRow] = r <=> HasTask(r)
  /\ \A c \in Comments : holder[CommentRow(c)] = r <=> HasComment(r, c)
  /\ r \in sharers[ProjectRow] => SharesProject(r)
  /\ r \in sharers[TaskRow] => SharesTask(r)
  /\ req[r].kind = "comment" /\ SharesTask(r) => r \in sharers[TaskRow]
  /\ \A c \in Comments : r \in sharers[CommentRow(c)] => SharesComment(r, c)

-----------------------------------------------------------------------------
Shape(r) == pc[r] # "idle" => req[r].kind \in Kinds /\ pc[r] \in StepsOf(req[r].kind)

Fields(r) ==
  pc[r] # "idle" =>
    /\ req[r].user \in Users
    /\ req[r].kind \in {"comment", "edit"} => req[r].text \in Texts
    /\ req[r].kind \in OnComments => req[r].comment \in Comments
    /\ pc[r] = "referParent" => req[r].comment \in Comments

\* What a request has found out under its locks.
Knows(r) ==
  /\ HasTask(r) => assignee = req[r].before
  /\ Changing(r) => comment[req[r].comment] # NoComment
  /\ Changing(r) /\ pc[r] # "check" => ~ comment[req[r].comment].deleted

\* Who is told what about the change of r: everybody it concerns is told, or to be
\* asked about, and nobody else.
Notices(r) ==
  req[r].kind = "update" =>
    /\ pc[r] \notin {"notify", "commit"} => req[r].due = {}
    /\ pc[r] \in {"notify", "commit"} =>
         /\ req[r].asked \subseteq AssignmentCandidates(r)
         /\ \A x \in req[r].due : x[2] # "nothing" => x \in AssignmentCandidates(r)
         /\ \A x \in AssignmentCandidates(r) :
              x \in req[r].asked \/ \E y \in req[r].due : y[1] = x[1]
    /\ pc[r] = "commit" => req[r].asked = {}

RequestInv(r) == Shape(r) /\ Fields(r) /\ Knows(r) /\ Notices(r)

Tombstones == \A c \in Comments : comment[c].deleted => comment[c].text = Erased

IInv ==
  /\ TypeOK /\ req \in [Requests -> Request]
  /\ Tombstones
  /\ LastNoticeIsTrue
  /\ LockExclusion
  /\ \A r \in Requests : RequestInv(r) /\ RowLocksOf(r)

-----------------------------------------------------------------------------
(* The rows that are locked, and the lock that each step leaves.           *)

\* The Project, the Task and the comments are rows of their own.
LEMMA RowFacts ==
  /\ LockRows = {ProjectRow, TaskRow} \cup {CommentRow(c) : c \in Comments}
  /\ ProjectRow # TaskRow
  /\ \A c \in Comments : CommentRow(c) # ProjectRow /\ CommentRow(c) # TaskRow
  /\ \A c, d \in Comments : CommentRow(c) = CommentRow(d) => c = d
BY DEF LockRows, ProjectRow, TaskRow, CommentRow

\* What a step of r leaves to the other requests: where they are, what they know
\* and the locks they have.
Alone(r) ==
  /\ \A q \in Requests \ {r} : pc'[q] = pc[q] /\ req'[q] = req[q]
  /\ \A q \in Requests \ {r}, x \in LockRows :
       /\ holder'[x] = q <=> holder[x] = q
       /\ q \in sharers'[x] <=> q \in sharers[x]

\* r goes on to the statement next with what it knows then, and with the rows X
\* locked and the rows Y shared on top of what it had.
Moves(r, next, known, X, Y) ==
  /\ pc' = [pc EXCEPT ![r] = next]
  /\ req' = [req EXCEPT ![r] = known]
  /\ UNCHANGED rows
  /\ \A x \in X : CanForUpdate(r, x)
  /\ \A x \in Y : CanKeyShare(r, x)
  /\ holder' = [x \in LockRows |-> IF x \in X THEN r ELSE holder[x]]
  /\ sharers' = [x \in LockRows |-> IF x \in Y THEN sharers[x] \cup {r} ELSE sharers[x]]

\* A statement that only reads goes on without a lock, or ends the request.
LEMMA ReadMoves ==
  ASSUME IInv, NEW r \in Requests, NEW next, NEW known, NEW allowed \in BOOLEAN,
         Read(r, allowed, next, known)
  PROVE  Rollback(r) \/ (allowed /\ Moves(r, next, known, {}, {}))
<1>1. LocksTypeOK(LockRows, Requests)
  BY DEF IInv, TypeOK
<1>2. CASE allowed
  <2>1. /\ Goto(r, next) /\ req' = [req EXCEPT ![r] = known] /\ UNCHANGED rows
        /\ holder' = holder /\ sharers' = sharers
    BY <1>2 DEF Read, locks
  <2> QED
    BY <1>1, <1>2, <2>1 DEF Moves, LocksTypeOK, Goto
<1>3. CASE ~ allowed
  BY <1>3 DEF Read
<1> QED
  BY <1>2, <1>3

\* The same for SELECT ... FOR UPDATE.
LEMMA LockMoves ==
  ASSUME IInv, NEW r \in Requests, NEW next, NEW known, NEW x, NEW allowed \in BOOLEAN,
         Lock(r, x, allowed, next, known)
  PROVE  Rollback(r) \/ (allowed /\ Moves(r, next, known, {x}, {}))
<1>1. LocksTypeOK(LockRows, Requests)
  BY DEF IInv, TypeOK
<1>2. CASE allowed
  <2>1. /\ Goto(r, next) /\ req' = [req EXCEPT ![r] = known] /\ UNCHANGED rows
        /\ ForUpdate(r, {x}) /\ sharers' = sharers
    BY <1>2 DEF Lock
  <2> QED
    BY <1>1, <1>2, <2>1 DEF Moves, LocksTypeOK, Goto, ForUpdate
<1>3. CASE ~ allowed
  BY <1>3 DEF Lock
<1> QED
  BY <1>2, <1>3

\* The same for the check of a foreign key.
LEMMA ReferMoves ==
  ASSUME IInv, NEW r \in Requests, NEW next, NEW known, NEW x, NEW allowed \in BOOLEAN,
         Refer(r, x, allowed, next, known)
  PROVE  Rollback(r) \/ (allowed /\ Moves(r, next, known, {}, {x}))
<1>1. LocksTypeOK(LockRows, Requests)
  BY DEF IInv, TypeOK
<1>2. CASE allowed
  <2>1. /\ Goto(r, next) /\ req' = [req EXCEPT ![r] = known] /\ UNCHANGED rows
        /\ KeyShare(r, {x}) /\ holder' = holder
    BY <1>2 DEF Refer
  <2> QED
    BY <1>1, <1>2, <2>1 DEF Moves, LocksTypeOK, Goto, KeyShare
<1>3. CASE ~ allowed
  BY <1>3 DEF Refer
<1> QED
  BY <1>2, <1>3

\* A step that moves r keeps the locks apart and leaves the others alone.
LEMMA MovesKeep ==
  ASSUME IInv, NEW r \in Requests, NEW next \in PCs, NEW known \in Request, NEW X, NEW Y,
         Moves(r, next, known, X, Y)
  PROVE  /\ pc' \in [Requests -> PCs] /\ req' \in [Requests -> Request]
         /\ pc'[r] = next /\ req'[r] = known
         /\ LocksTypeOK(LockRows, Requests)' /\ LockExclusion'
         /\ Alone(r)
         /\ \A x \in LockRows : holder'[x] = r <=> x \in X \/ holder[x] = r
         /\ \A x \in LockRows : r \in sharers'[x] <=> x \in Y \/ r \in sharers[x]
<1>1. /\ pc \in [Requests -> PCs] /\ req \in [Requests -> Request]
      /\ holder \in [LockRows -> Requests \cup {None}]
      /\ sharers \in [LockRows -> SUBSET Requests]
      /\ None \notin Requests
  BY DiscussionNoneAssumption DEF IInv, TypeOK, LocksTypeOK
<1>2. \A x \in LockRows : holder[x] # None => sharers[x] \subseteq {holder[x]}
  BY <1>1 DEF IInv, LockExclusion
<1>3. /\ pc' \in [Requests -> PCs] /\ req' \in [Requests -> Request]
      /\ pc'[r] = next /\ req'[r] = known
      /\ \A q \in Requests \ {r} : pc'[q] = pc[q] /\ req'[q] = req[q]
  BY <1>1 DEF Moves
<1>4. /\ holder' = [x \in LockRows |-> IF x \in X THEN r ELSE holder[x]]
      /\ sharers' = [x \in LockRows |-> IF x \in Y THEN sharers[x] \cup {r} ELSE sharers[x]]
      /\ \A x \in X : holder[x] \in {None, r} /\ sharers[x] \subseteq {r}
      /\ \A x \in Y : holder[x] \in {None, r}
  BY DEF Moves, CanForUpdate, CanKeyShare
<1>5. /\ holder' \in [LockRows -> Requests \cup {None}]
      /\ sharers' \in [LockRows -> SUBSET Requests]
  BY <1>1, <1>4
<1>6. \A x \in LockRows : holder'[x] # None => sharers'[x] \subseteq {holder'[x]}
  BY <1>1, <1>2, <1>4
<1>7. /\ \A x \in LockRows : holder'[x] = r <=> x \in X \/ holder[x] = r
      /\ \A x \in LockRows : r \in sharers'[x] <=> x \in Y \/ r \in sharers[x]
      /\ \A q \in Requests \ {r}, x \in LockRows :
           /\ holder'[x] = q <=> holder[x] = q
           /\ q \in sharers'[x] <=> q \in sharers[x]
  BY <1>1, <1>4
<1>8. LocksTypeOK(LockRows, Requests)' /\ LockExclusion'
  BY <1>5, <1>6 DEF LocksTypeOK, LockExclusion
<1> QED
  BY <1>3, <1>7, <1>8 DEF Alone

\* A request that ends has nothing, and leaves the others alone.
LEMMA EndKeeps ==
  ASSUME IInv, NEW r \in Requests, End(r)
  PROVE  /\ pc' \in [Requests -> PCs] /\ req' \in [Requests -> Request]
         /\ pc'[r] = "idle" /\ req'[r] = NoRequest
         /\ LocksTypeOK(LockRows, Requests)' /\ LockExclusion'
         /\ Alone(r)
         /\ \A x \in LockRows : holder'[x] # r /\ r \notin sharers'[x]
<1>1. /\ pc \in [Requests -> PCs] /\ req \in [Requests -> Request]
      /\ holder \in [LockRows -> Requests \cup {None}]
      /\ sharers \in [LockRows -> SUBSET Requests]
      /\ None \notin Requests
  BY DiscussionNoneAssumption DEF IInv, TypeOK, LocksTypeOK
<1>2. \A x \in LockRows : holder[x] # None => sharers[x] \subseteq {holder[x]}
  BY <1>1 DEF IInv, LockExclusion
<1>3. "idle" \in PCs /\ NoRequest \in Request
  BY DEF PCs, NoRequest, Request
<1>4. /\ pc' = [pc EXCEPT ![r] = "idle"] /\ req' = [req EXCEPT ![r] = NoRequest]
      /\ holder' = [x \in LockRows |-> IF holder[x] = r THEN None ELSE holder[x]]
      /\ sharers' = [x \in LockRows |-> sharers[x] \ {r}]
  BY <1>1 DEF End, Goto, ReleaseLocks
<1>5. /\ pc' \in [Requests -> PCs] /\ req' \in [Requests -> Request]
      /\ pc'[r] = "idle" /\ req'[r] = NoRequest
      /\ \A q \in Requests \ {r} : pc'[q] = pc[q] /\ req'[q] = req[q]
  BY <1>1, <1>3, <1>4
<1>6. /\ holder' \in [LockRows -> Requests \cup {None}]
      /\ sharers' \in [LockRows -> SUBSET Requests]
      /\ \A x \in LockRows : holder'[x] # None => sharers'[x] \subseteq {holder'[x]}
  BY <1>1, <1>2, <1>4
<1>7. /\ \A x \in LockRows : holder'[x] # r /\ r \notin sharers'[x]
      /\ \A q \in Requests \ {r}, x \in LockRows :
           /\ holder'[x] = q <=> holder[x] = q
           /\ q \in sharers'[x] <=> q \in sharers[x]
  BY <1>1, <1>4
<1>8. LocksTypeOK(LockRows, Requests)' /\ LockExclusion'
  BY <1>6 DEF LocksTypeOK, LockExclusion
<1> QED
  BY <1>5, <1>7, <1>8 DEF Alone

\* A request that is idle has no part in the invariant.
LEMMA IdleInv ==
  ASSUME NEW r \in Requests, pc'[r] = "idle", req'[r] = NoRequest,
         \A x \in LockRows : holder'[x] # r /\ r \notin sharers'[x]
  PROVE  RequestInv(r)' /\ RowLocksOf(r)'
<1>1. /\ ~ HasProject(r)' /\ ~ HasTask(r)' /\ ~ Changing(r)' /\ ~ SharesTask(r)'
      /\ \A c \in Comments : ~ HasComment(r, c)'
  BY DEF HasProject, HasTask, Changing, SharesTask, HasComment
<1>2. RowLocksOf(r)'
  BY <1>1, RowFacts DEF RowLocksOf
<1>3. Shape(r)' /\ Fields(r)' /\ Knows(r)' /\ Notices(r)'
  BY <1>1 DEF Shape, Fields, Knows, Notices, NoRequest
<1> QED
  BY <1>2, <1>3 DEF RequestInv

-----------------------------------------------------------------------------
(* What a step leaves to the others.                                       *)

\* The Task changes by who has it; a comment by who has it, or it is new and its
\* author shares the Task.
Entitled(r) ==
  /\ assignee' = assignee \/ HasTask(r)
  /\ \A c \in Comments :
       \/ comment'[c] = comment[c]
       \/ HasComment(r, c)
       \/ comment[c] = NoComment /\ req[r].kind = "comment" /\ SharesTask(r)

\* Who has a row has it alone.
LEMMA Exclusive ==
  ASSUME IInv, NEW r \in Requests, NEW q \in Requests \ {r}
  PROVE  /\ ~ (HasTask(r) /\ HasTask(q))
         /\ \A c \in Comments : ~ (HasComment(r, c) /\ HasComment(q, c))
         /\ ~ (HasTask(r) /\ req[q].kind = "comment" /\ SharesTask(q))
<1>1. RowLocksOf(r) /\ RowLocksOf(q)
  BY DEF IInv
<1>2. HasTask(r) => sharers[TaskRow] \subseteq {r}
  <2>1. holder \in [LockRows -> Requests \cup {None}] /\ None \notin Requests
    BY DiscussionNoneAssumption DEF IInv, TypeOK, LocksTypeOK
  <2>2. TaskRow \in LockRows
    BY RowFacts
  <2> QED
    BY <1>1, <2>1, <2>2 DEF IInv, LockExclusion, RowLocksOf
<1> QED
  BY <1>1, <1>2 DEF RowLocksOf

\* A Task request has its rows at its commit, and is not idle then.
LEMMA CommitHasTask ==
  ASSUME NEW r \in Requests, pc[r] = "commit", req[r].kind \in OnTask
  PROVE  HasTask(r)
BY DEF HasTask, HasProject

\* No comment of another comes into being, or goes, while its row is locked.
LEMMA CommentsStay ==
  ASSUME IInv, NEW r \in Requests, NEW q \in Requests \ {r}, Entitled(r)
  PROVE  /\ Changing(q) => comment'[req[q].comment] = comment[req[q].comment]
         /\ req[q].kind = "remove" /\ pc[q] = "commit" =>
              \A c \in Comments : comment'[c] # NoComment <=> comment[c] # NoComment
<1>1. RequestInv(q) /\ RequestInv(r)
  BY DEF IInv
<1>2. ASSUME Changing(q) PROVE comment'[req[q].comment] = comment[req[q].comment]
  <2>1. req[q].comment \in Comments /\ comment[req[q].comment] # NoComment
    BY <1>1, <1>2 DEF RequestInv, Fields, Knows, Changing
  <2>2. HasComment(q, req[q].comment)
    BY <1>2 DEF HasComment
  <2> QED
    BY <2>1, <2>2, Exclusive DEF Entitled
<1>3. ASSUME req[q].kind = "remove", pc[q] = "commit", NEW c \in Comments
      PROVE  comment'[c] # NoComment <=> comment[c] # NoComment
  <2>1. HasTask(q)
    BY <1>3, CommitHasTask DEF OnTask
  <2>2. ~ (req[r].kind = "comment" /\ SharesTask(r))
    BY <2>1, Exclusive
  <2>3. comment[c] # NoComment => ~ HasComment(r, c)
    <3>1. comment[c] # NoComment => HasComment(q, c)
      BY <1>3 DEF HasComment
    <3> QED
      BY <3>1, Exclusive
  <2>4. HasComment(r, c) => comment[c] # NoComment
    BY <1>1 DEF HasComment, RequestInv, Knows
  <2> QED
    BY <2>2, <2>3, <2>4 DEF Entitled
<1> QED
  BY <1>2, <1>3

\* What the invariant says of a request stays true through the steps of others.
LEMMA OthersKeep ==
  ASSUME IInv, NEW r \in Requests, NEW q \in Requests \ {r}, Alone(r), Entitled(r)
  PROVE  RequestInv(q)' /\ RowLocksOf(q)'
<1>1. RequestInv(q) /\ RowLocksOf(q)
  BY DEF IInv
<1>2. pc'[q] = pc[q] /\ req'[q] = req[q]
  BY DEF Alone
<1>3. /\ HasProject(q)' <=> HasProject(q)
      /\ HasTask(q)' <=> HasTask(q)
      /\ Changing(q)' <=> Changing(q)
      /\ SharesProject(q)' <=> SharesProject(q)
      /\ SharesTask(q)' <=> SharesTask(q)
      /\ \A c \in Comments : SharesComment(q, c)' <=> SharesComment(q, c)
  BY <1>2 DEF HasProject, HasTask, Changing, SharesProject, SharesTask, SharesComment
<1>4. \A c \in Comments : HasComment(q, c)' <=> HasComment(q, c)
  BY <1>2, <1>3, CommentsStay DEF HasComment
<1>5. RowLocksOf(q)'
  <2>1. \A x \in LockRows : /\ holder'[x] = q <=> holder[x] = q
                            /\ q \in sharers'[x] <=> q \in sharers[x]
    BY DEF Alone
  <2> QED
    BY <1>1, <1>2, <1>3, <1>4, <2>1, RowFacts DEF RowLocksOf
<1>6. Shape(q)' /\ Fields(q)'
  BY <1>1, <1>2 DEF RequestInv, Shape, Fields
<1>7. Knows(q)'
  <2>1. HasTask(q) => assignee' = assignee
    BY Exclusive DEF Entitled
  <2>2. Changing(q) => comment'[req[q].comment] = comment[req[q].comment]
    BY CommentsStay
  <2> QED
    BY <1>1, <1>2, <1>3, <2>1, <2>2 DEF RequestInv, Knows
<1>8. Notices(q)'
  <2>1. AssignmentCandidates(q)' = AssignmentCandidates(q)
    BY <1>2 DEF AssignmentCandidates, Changes
  <2> QED
    BY <1>1, <1>2, <2>1 DEF RequestInv, Notices
<1> QED
  BY <1>5, <1>6, <1>7, <1>8 DEF RequestInv

\* A step that writes nothing keeps everything but what is said of r itself.
LEMMA QuietInv ==
  ASSUME IInv, NEW r \in Requests, UNCHANGED rows, Alone(r),
         pc' \in [Requests -> PCs], req' \in [Requests -> Request],
         LocksTypeOK(LockRows, Requests)', LockExclusion',
         RequestInv(r)', RowLocksOf(r)'
  PROVE  IInv'
<1>1. TypeOK' /\ Tombstones' /\ LastNoticeIsTrue'
  BY DEF IInv, TypeOK, Tombstones, LastNoticeIsTrue, rows
<1>2. Entitled(r)
  BY DEF Entitled, rows
<1>3. \A q \in Requests \ {r} : RequestInv(q)' /\ RowLocksOf(q)'
  BY <1>2, OthersKeep
<1> QED
  BY <1>1, <1>3 DEF IInv

\* A request that is refused or fails changes nothing.
LEMMA RollbackInv ==
  ASSUME IInv, NEW r \in Requests, Rollback(r)
  PROVE  IInv'
<1>1. End(r) /\ UNCHANGED rows
  BY DEF Rollback, End
<1>2. RequestInv(r)' /\ RowLocksOf(r)'
  BY <1>1, EndKeeps, IdleInv
<1> QED
  BY <1>1, <1>2, EndKeeps, QuietInv

\* A statement that moves r keeps the invariant if r has its part of it after.
LEMMA MovesInv ==
  ASSUME IInv, NEW r \in Requests, NEW next \in PCs, NEW known \in Request, NEW X, NEW Y,
         Moves(r, next, known, X, Y), RequestInv(r)', RowLocksOf(r)'
  PROVE  IInv'
<1>1. UNCHANGED rows
  BY DEF Moves
<1> QED
  BY <1>1, MovesKeep, QuietInv

-----------------------------------------------------------------------------
(* The statements.                                                         *)

\* The statements of each kind of request.
LEMMA Steps ==
  /\ StepsOf("update") = {"resolve", "commit", "lockProject", "lockTask", "assert", "referTask",
                          "record", "notify"}
  /\ StepsOf("remove") = {"resolve", "commit", "lockProject", "lockTask", "assert", "cascade"}
  /\ StepsOf("comment") = {"resolve", "commit", "parent", "referParent", "insert", "referTask",
                           "record", "notify"}
  /\ \A k \in OnComments : StepsOf(k) = {"resolve", "commit", "lockComment", "check", "referTask",
                                         "record"}
<1>1. StepsOf("update") = {"resolve", "commit"} \cup {"lockProject", "lockTask", "assert",
                                                      "referTask", "record", "notify"}
  BY DEF StepsOf
<1>2. StepsOf("remove") = {"resolve", "commit"} \cup {"lockProject", "lockTask", "assert", "cascade"}
  BY DEF StepsOf
<1>3. StepsOf("comment") = {"resolve", "commit"} \cup {"parent", "referParent", "insert",
                                                       "referTask", "record", "notify"}
  BY DEF StepsOf
<1>4. /\ StepsOf("edit") = {"resolve", "commit"} \cup {"lockComment", "check", "referTask", "record"}
      /\ StepsOf("erase") = {"resolve", "commit"} \cup {"lockComment", "check", "referTask", "record"}
  BY DEF StepsOf
<1> QED
  BY <1>1, <1>2, <1>3, <1>4 DEF OnComments

\* Every statement of a request is one of the program's.
LEMMA StepsArePCs ==
  ASSUME NEW kind \in Kinds
  PROVE  StepsOf(kind) \subseteq PCs
BY Steps DEF Kinds, OnComments, PCs

\* What the invariant says of an open request.
LEMMA OpenRequest ==
  ASSUME IInv, NEW r \in Requests, pc[r] # "idle"
  PROVE  /\ TypeOK /\ RequestInv(r) /\ RowLocksOf(r)
         /\ req[r] \in Request
         /\ req[r].user \in Users /\ req[r].kind \in Kinds
         /\ pc[r] \in StepsOf(req[r].kind)
BY DEF IInv, RequestInv, Shape, Fields

\* Two requests that ask the same, and have the same notices to give.
Alike(R, S) ==
  /\ R.kind = S.kind /\ R.user = S.user /\ R.comment = S.comment /\ R.text = S.text /\ R.to = S.to

\* A request that has taken a step of its own kind asks what it asked before.
LEMMA GoesOn ==
  ASSUME IInv, NEW r \in Requests, pc[r] # "idle",
         NEW next \in StepsOf(req[r].kind), NEW known \in Request, Alike(known, req[r]),
         NEW X, NEW Y, Moves(r, next, known, X, Y),
         next = "referParent" => req[r].comment \in Comments
  PROVE  /\ next \in PCs
         /\ pc'[r] = next /\ req'[r] = known
         /\ assignee' = assignee /\ comment' = comment
         /\ Shape(r)' /\ Fields(r)'
         /\ \A x \in LockRows : holder'[x] = r <=> x \in X \/ holder[x] = r
         /\ \A x \in LockRows : r \in sharers'[x] <=> x \in Y \/ r \in sharers[x]
<1>1. next \in PCs
  BY OpenRequest, StepsArePCs
<1>2. pc'[r] = next /\ req'[r] = known
  BY <1>1, MovesKeep
<1>3. Shape(r)' /\ Fields(r)'
  BY <1>2, OpenRequest DEF Alike, Shape, Fields, RequestInv
<1>4. assignee' = assignee /\ comment' = comment
  BY DEF Moves, rows
<1>5. /\ \A x \in LockRows : holder'[x] = r <=> x \in X \/ holder[x] = r
      /\ \A x \in LockRows : r \in sharers'[x] <=> x \in Y \/ r \in sharers[x]
  BY <1>1, MovesKeep
<1> QED
  BY <1>1, <1>2, <1>3, <1>4, <1>5

\* A request with another state of the Task before its change.
LEMMA BeforeIs ==
  ASSUME NEW R \in Request, NEW b \in Users \cup {None}
  PROVE  LET S == [R EXCEPT !.before = b]
         IN  S \in Request /\ Alike(S, R) /\ S.before = b /\ S.due = R.due /\ S.asked = R.asked
BY DEF Request, Alike

\* A request that starts is nowhere yet.
LEMMA OpensInv ==
  ASSUME IInv, NEW r \in Requests, pc[r] = "idle", NEW request \in Request,
         Asks(r, request, "resolve"), UNCHANGED <<rows, locks>>,
         request.kind \in Kinds, request.user \in Users, request.due = {},
         request.kind \in {"comment", "edit"} => request.text \in Texts,
         request.kind \in OnComments => request.comment \in Comments
  PROVE  IInv'
<1>1. Moves(r, "resolve", request, {}, {})
  BY DEF Moves, Asks, Goto, locks, IInv, TypeOK, LocksTypeOK
<1>2. "resolve" \in PCs
  BY DEF PCs
<1>3. /\ pc'[r] = "resolve" /\ req'[r] = request
      /\ \A x \in LockRows : holder'[x] = r <=> holder[x] = r
      /\ \A x \in LockRows : r \in sharers'[x] <=> r \in sharers[x]
  BY <1>1, <1>2, MovesKeep
<1>4. RowLocksOf(r)
  BY DEF IInv
<1>5. /\ ~ HasProject(r) /\ ~ HasTask(r) /\ ~ Changing(r) /\ ~ SharesTask(r) /\ ~ SharesProject(r)
      /\ \A c \in Comments : ~ HasComment(r, c) /\ ~ SharesComment(r, c)
  BY DEF HasProject, HasTask, Changing, SharesTask, SharesProject, HasComment, SharesComment
<1>6. /\ ~ HasProject(r)' /\ ~ HasTask(r)' /\ ~ Changing(r)' /\ ~ SharesTask(r)'
      /\ \A c \in Comments : ~ HasComment(r, c)'
  BY <1>3 DEF HasProject, HasTask, Changing, SharesTask, HasComment
<1>7. RowLocksOf(r)'
  BY <1>3, <1>4, <1>5, <1>6, RowFacts DEF RowLocksOf
<1>8. Shape(r)' /\ Fields(r)' /\ Knows(r)' /\ Notices(r)'
  <2>1. Shape(r)'
    BY <1>3 DEF Shape, StepsOf
  <2>2. Fields(r)' /\ Notices(r)'
    BY <1>3 DEF Fields, Notices
  <2> QED
    BY <1>6, <2>1, <2>2 DEF Knows
<1> QED
  BY <1>1, <1>2, <1>7, <1>8, MovesInv DEF RequestInv

\* A request starts with nothing found out.
LEMMA BeginInv ==
  ASSUME IInv, NEW r \in Requests, Begin(r)
  PROVE  IInv'
<1>1. pc[r] = "idle" /\ UNCHANGED <<rows, locks>>
  BY DEF Begin
<1>2. PICK u \in Users :
        LET asks == [NoRequest EXCEPT !.user = u] IN
        \/ \E a \in Users \cup {None} : Asks(r, [asks EXCEPT !.kind = "update", !.to = a], "resolve")
        \/ Asks(r, [asks EXCEPT !.kind = "remove"], "resolve")
        \/ \E p \in Comments \cup {None}, x \in Texts :
             Asks(r, [asks EXCEPT !.kind = "comment", !.comment = p, !.text = x], "resolve")
        \/ \E c \in Comments, x \in Texts :
             Asks(r, [asks EXCEPT !.kind = "edit", !.comment = c, !.text = x], "resolve")
        \/ \E c \in Comments : Asks(r, [asks EXCEPT !.kind = "erase", !.comment = c], "resolve")
  BY DEF Begin
<1> DEFINE asks == [NoRequest EXCEPT !.user = u]
<1>4. CASE \E a \in Users \cup {None} : Asks(r, [asks EXCEPT !.kind = "update", !.to = a], "resolve")
  <2>1. PICK a \in Users \cup {None} : Asks(r, [asks EXCEPT !.kind = "update", !.to = a], "resolve")
    BY <1>4
  <2> DEFINE K == [asks EXCEPT !.kind = "update", !.to = a]
  <2>3. /\ K \in Request /\ K.kind = "update" /\ K.user \in Users /\ K.due = {}
        /\ "update" \in Kinds /\ "update" \notin OnComments
    BY DEF NoRequest, Request, Kinds, OnComments
  <2>4. Asks(r, K, "resolve")
    BY <2>1 DEF K
  <2> HIDE DEF K
  <2> QED
    BY <1>1, <2>3, <2>4, OpensInv
<1>5. CASE Asks(r, [asks EXCEPT !.kind = "remove"], "resolve")
  <2> DEFINE K == [asks EXCEPT !.kind = "remove"]
  <2>4. Asks(r, K, "resolve")
    BY <1>5
  <2>3. /\ K \in Request /\ K.kind = "remove" /\ K.user \in Users /\ K.due = {}
        /\ "remove" \in Kinds /\ "remove" \notin OnComments
    BY DEF NoRequest, Request, Kinds, OnComments
  <2> HIDE DEF K
  <2> QED
    BY <1>1, <2>3, <2>4, OpensInv
<1>6. CASE \E p \in Comments \cup {None}, x \in Texts :
             Asks(r, [asks EXCEPT !.kind = "comment", !.comment = p, !.text = x], "resolve")
  <2>1. PICK p \in Comments \cup {None}, x \in Texts :
          Asks(r, [asks EXCEPT !.kind = "comment", !.comment = p, !.text = x], "resolve")
    BY <1>6
  <2> DEFINE K == [asks EXCEPT !.kind = "comment", !.comment = p, !.text = x]
  <2>4. Asks(r, K, "resolve")
    BY <2>1
  <2>3. /\ K \in Request /\ K.kind = "comment" /\ K.user \in Users /\ K.due = {} /\ K.text \in Texts
        /\ "comment" \in Kinds /\ "comment" \notin OnComments
    BY DEF NoRequest, Request, Kinds, OnComments
  <2> HIDE DEF K
  <2> QED
    BY <1>1, <2>3, <2>4, OpensInv
<1>7. CASE \E c \in Comments, x \in Texts :
             Asks(r, [asks EXCEPT !.kind = "edit", !.comment = c, !.text = x], "resolve")
  <2>1. PICK c \in Comments, x \in Texts :
          Asks(r, [asks EXCEPT !.kind = "edit", !.comment = c, !.text = x], "resolve")
    BY <1>7
  <2> DEFINE K == [asks EXCEPT !.kind = "edit", !.comment = c, !.text = x]
  <2>4. Asks(r, K, "resolve")
    BY <2>1
  <2>3. /\ K \in Request /\ K.kind = "edit" /\ K.user \in Users /\ K.due = {} /\ K.text \in Texts
        /\ K.comment \in Comments /\ "edit" \in Kinds
    BY DEF NoRequest, Request, Kinds
  <2> HIDE DEF K
  <2> QED
    BY <1>1, <2>3, <2>4, OpensInv
<1>8. CASE \E c \in Comments : Asks(r, [asks EXCEPT !.kind = "erase", !.comment = c], "resolve")
  <2>1. PICK c \in Comments : Asks(r, [asks EXCEPT !.kind = "erase", !.comment = c], "resolve")
    BY <1>8
  <2> DEFINE K == [asks EXCEPT !.kind = "erase", !.comment = c]
  <2>4. Asks(r, K, "resolve")
    BY <2>1
  <2>3. /\ K \in Request /\ K.kind = "erase" /\ K.user \in Users /\ K.due = {}
        /\ K.comment \in Comments /\ "erase" \in Kinds
    BY DEF NoRequest, Request, Kinds
  <2> HIDE DEF K
  <2> QED
    BY <1>1, <2>3, <2>4, OpensInv
<1> QED
  BY <1>2, <1>4, <1>5, <1>6, <1>7, <1>8 DEF asks

\* Which requests run which statements.
LEMMA KindsOf ==
  ASSUME IInv, NEW r \in Requests
  PROVE  /\ pc[r] \in {"lockProject", "lockTask", "assert"} => req[r].kind \in OnTask
         /\ pc[r] \in {"lockComment", "check"} => req[r].kind \in OnComments
         /\ pc[r] \in {"parent", "referParent", "insert"} => req[r].kind = "comment"
         /\ pc[r] \in {"referTask", "record"} => req[r].kind # "remove"
         /\ pc[r] = "notify" => req[r].kind \in {"update", "comment"}
         /\ pc[r] = "cascade" => req[r].kind = "remove"
<1> SUFFICES ASSUME pc[r] # "idle"
             PROVE  /\ pc[r] \in {"lockProject", "lockTask", "assert"} => req[r].kind \in OnTask
                    /\ pc[r] \in {"lockComment", "check"} => req[r].kind \in OnComments
                    /\ pc[r] \in {"parent", "referParent", "insert"} => req[r].kind = "comment"
                    /\ pc[r] \in {"referTask", "record"} => req[r].kind # "remove"
                    /\ pc[r] = "notify" => req[r].kind \in {"update", "comment"}
                    /\ pc[r] = "cascade" => req[r].kind = "remove"
  OBVIOUS
<1>1. req[r].kind \in Kinds /\ pc[r] \in StepsOf(req[r].kind)
  BY OpenRequest
<1>2. req[r].kind \in {"update", "remove", "comment"} \cup OnComments
  BY <1>1 DEF Kinds, OnComments
<1> QED
  BY <1>1, <1>2, Steps DEF OnTask, OnComments

\* assertTaskAccess, or the Project of a Task that is going to be locked.
LEMMA ResolveTaskInv ==
  ASSUME IInv, NEW r \in Requests, ResolveTask(r)
  PROVE  IInv'
<1>1. /\ pc[r] = "resolve" /\ req[r] \in Request /\ req[r].kind \in Kinds
      /\ RequestInv(r) /\ RowLocksOf(r) /\ TypeOK
  BY OpenRequest DEF ResolveTask
<1>2. ASSUME NEW next \in {"lockProject", "parent", "lockComment"}, NEW known \in Request,
             Alike(known, req[r]), known.due = req[r].due, Moves(r, next, known, {}, {}),
             next \in StepsOf(req[r].kind), req[r].kind \in OnTask => next = "lockProject"
      PROVE  IInv'
  <2>1. /\ next \in PCs
        /\ pc'[r] = next /\ req'[r] = known
        /\ assignee' = assignee /\ comment' = comment
        /\ Shape(r)' /\ Fields(r)'
        /\ \A x \in LockRows : holder'[x] = r <=> holder[x] = r
        /\ \A x \in LockRows : r \in sharers'[x] <=> r \in sharers[x]
    BY <1>1, <1>2, GoesOn
  <2>2. RowLocksOf(r)'
    BY <1>1, <1>2, <2>1, RowFacts DEF RowLocksOf, HasProject, HasTask, Changing, HasComment,
                                      SharesProject, SharesTask, SharesComment, Alike
  <2>3. Knows(r)'
    BY <1>1, <1>2, <2>1 DEF Knows, HasTask, HasProject, Changing, Alike
  <2>4. Notices(r)'
    BY <1>1, <1>2, <2>1 DEF Notices, RequestInv, Alike
  <2> QED
    BY <1>2, <2>1, <2>2, <2>3, <2>4, MovesInv DEF RequestInv
<1>3. CASE req[r].kind \in {"update", "remove"}
  <2>1. Read(r, assignee # Gone, "lockProject", req[r])
    BY <1>3 DEF ResolveTask
  <2>2. Rollback(r) \/ Moves(r, "lockProject", req[r], {}, {})
    BY <2>1, ReadMoves
  <2>3. "lockProject" \in StepsOf(req[r].kind)
    BY <1>3, Steps
  <2> QED
    BY <1>1, <1>2, <2>2, <2>3, RollbackInv DEF Alike
<1>4. CASE req[r].kind = "comment"
  <2> DEFINE K == [req[r] EXCEPT !.before = assignee]
  <2>1. Read(r, assignee # Gone /\ req[r].user \in member, "parent", K)
    BY <1>4 DEF ResolveTask
  <2> HIDE DEF K
  <2>2. Rollback(r) \/ (assignee # Gone /\ Moves(r, "parent", K, {}, {}))
    BY <2>1, ReadMoves
  <2>3. ASSUME assignee # Gone, Moves(r, "parent", K, {}, {})
        PROVE  IInv'
    <3>1. K \in Request /\ Alike(K, req[r]) /\ K.due = req[r].due
      <4>1. assignee \in Users \cup {None}
        BY <1>1, <2>3 DEF TypeOK
      <4> QED
        BY <1>1, <4>1, BeforeIs DEF K
    <3>2. "parent" \in StepsOf(req[r].kind)
      BY <1>4, Steps
    <3> QED
      BY <1>2, <1>4, <2>3, <3>1, <3>2 DEF OnTask
  <2> QED
    BY <2>2, <2>3, RollbackInv
<1>5. CASE req[r].kind \in OnComments
  <2>1. Read(r, assignee # Gone /\ req[r].user \in member, "lockComment", req[r])
    BY <1>5 DEF ResolveTask, OnComments
  <2>2. Rollback(r) \/ Moves(r, "lockComment", req[r], {}, {})
    BY <2>1, ReadMoves
  <2>3. "lockComment" \in StepsOf(req[r].kind)
    BY <1>5, Steps
  <2> QED
    BY <1>1, <1>2, <1>5, <2>2, <2>3, RollbackInv DEF Alike, OnTask, OnComments
<1> QED
  BY <1>1, <1>3, <1>4, <1>5 DEF Kinds, OnComments

\* FOR UPDATE of the Project.
LEMMA LockProjectInv ==
  ASSUME IInv, NEW r \in Requests, LockProject(r)
  PROVE  IInv'
<1>1. /\ pc[r] = "lockProject" /\ req[r] \in Request /\ req[r].kind \in OnTask
      /\ RequestInv(r) /\ RowLocksOf(r)
  BY OpenRequest, KindsOf DEF LockProject
<1>2. Lock(r, ProjectRow, TRUE, "lockTask", req[r])
  BY DEF LockProject, LockOrder
<1>3. Rollback(r) \/ Moves(r, "lockTask", req[r], {ProjectRow}, {})
  BY <1>2, LockMoves
<1>4. ASSUME Moves(r, "lockTask", req[r], {ProjectRow}, {})
      PROVE  IInv'
  <2>1. "lockTask" \in StepsOf(req[r].kind)
    BY <1>1, Steps DEF OnTask
  <2>2. /\ "lockTask" \in PCs
        /\ pc'[r] = "lockTask" /\ req'[r] = req[r]
        /\ assignee' = assignee /\ comment' = comment
        /\ Shape(r)' /\ Fields(r)'
        /\ \A x \in LockRows : holder'[x] = r <=> x \in {ProjectRow} \/ holder[x] = r
        /\ \A x \in LockRows : r \in sharers'[x] <=> r \in sharers[x]
    BY <1>1, <1>4, <2>1, GoesOn DEF Alike
  <2>3. RowLocksOf(r)'
    BY <1>1, <2>2, RowFacts DEF RowLocksOf, HasProject, HasTask, Changing, HasComment, OnTask,
                                OnComments, SharesProject, SharesTask, SharesComment
  <2>4. Knows(r)'
    BY <1>1, <2>2 DEF Knows, HasTask, HasProject, Changing
  <2>5. Notices(r)'
    BY <1>1, <2>2 DEF Notices, RequestInv
  <2> QED
    BY <1>1, <1>4, <2>2, <2>3, <2>4, <2>5, MovesInv DEF RequestInv
<1> QED
  BY <1>3, <1>4, RollbackInv

\* ... and of the Task, as it is then.
LEMMA LockTaskInv ==
  ASSUME IInv, NEW r \in Requests, LockTask(r)
  PROVE  IInv'
<1>1. /\ pc[r] = "lockTask" /\ req[r] \in Request /\ req[r].kind \in OnTask
      /\ RequestInv(r) /\ RowLocksOf(r) /\ TypeOK
  BY OpenRequest, KindsOf DEF LockTask
<1> DEFINE K == [req[r] EXCEPT !.before = assignee]
<1>2. Lock(r, TaskRow, assignee # Gone, "assert", K)
  BY DEF LockTask, LockOrder
<1> HIDE DEF K
<1>3. Rollback(r) \/ (assignee # Gone /\ Moves(r, "assert", K, {TaskRow}, {}))
  BY <1>2, LockMoves
<1>4. ASSUME assignee # Gone, Moves(r, "assert", K, {TaskRow}, {})
      PROVE  IInv'
  <2>1. "assert" \in StepsOf(req[r].kind)
    BY <1>1, Steps DEF OnTask
  <2>2. K \in Request /\ Alike(K, req[r]) /\ K.due = req[r].due /\ K.before = assignee
    <3>1. assignee \in Users \cup {None}
      BY <1>1, <1>4 DEF TypeOK
    <3> QED
      BY <1>1, <3>1, BeforeIs DEF K
  <2>3. /\ "assert" \in PCs
        /\ pc'[r] = "assert" /\ req'[r] = K
        /\ assignee' = assignee /\ comment' = comment
        /\ Shape(r)' /\ Fields(r)'
        /\ \A x \in LockRows : holder'[x] = r <=> x \in {TaskRow} \/ holder[x] = r
        /\ \A x \in LockRows : r \in sharers'[x] <=> r \in sharers[x]
    BY <1>1, <1>4, <2>1, <2>2, GoesOn
  <2>4. RowLocksOf(r)'
    BY <1>1, <2>2, <2>3, RowFacts DEF RowLocksOf, HasProject, HasTask, Changing, HasComment, OnTask,
                       OnComments, SharesProject, SharesTask, SharesComment, Alike
  <2>5. Knows(r)'
    BY <1>1, <2>2, <2>3 DEF Knows, HasTask, HasProject, Changing
  <2>6. Notices(r)'
    BY <1>1, <2>2, <2>3 DEF Notices, RequestInv, Alike
  <2> QED
    BY <1>4, <2>2, <2>3, <2>4, <2>5, <2>6, MovesInv DEF RequestInv
<1> QED
  BY <1>3, <1>4, RollbackInv

\* assertProjectAccess and assertAssigneeAccess
LEMMA AssertAccessInv ==
  ASSUME IInv, NEW r \in Requests, AssertAccess(r)
  PROVE  IInv'
<1>1. /\ pc[r] = "assert" /\ req[r] \in Request /\ req[r].kind \in OnTask
      /\ RequestInv(r) /\ RowLocksOf(r)
  BY OpenRequest, KindsOf DEF AssertAccess
<1> DEFINE next == IF req[r].kind = "remove" THEN "cascade" ELSE "referTask"
<1>2. Read(r, req[r].user \in member /\ (req[r].to \in Users => req[r].to \in member), next, req[r])
  BY DEF AssertAccess
<1>3. next \in StepsOf(req[r].kind) /\ next \in {"cascade", "referTask"}
  BY <1>1, Steps DEF OnTask
<1> HIDE DEF next
<1>4. Rollback(r) \/ Moves(r, next, req[r], {}, {})
  BY <1>2, ReadMoves
<1>5. ASSUME Moves(r, next, req[r], {}, {})
      PROVE  IInv'
  <2>1. /\ next \in PCs
        /\ pc'[r] = next /\ req'[r] = req[r]
        /\ assignee' = assignee /\ comment' = comment
        /\ Shape(r)' /\ Fields(r)'
        /\ \A x \in LockRows : holder'[x] = r <=> holder[x] = r
        /\ \A x \in LockRows : r \in sharers'[x] <=> r \in sharers[x]
    BY <1>1, <1>3, <1>5, GoesOn DEF Alike
  <2>2. RowLocksOf(r)'
    BY <1>1, <1>3, <2>1, RowFacts DEF RowLocksOf, HasProject, HasTask, Changing, HasComment, OnTask,
                                      OnComments, SharesProject, SharesTask, SharesComment
  <2>3. Knows(r)'
    BY <1>1, <2>1 DEF Knows, HasTask, HasProject, Changing, RequestInv, OnTask, OnComments
  <2>4. Notices(r)'
    BY <1>1, <1>3, <2>1 DEF Notices, RequestInv
  <2> QED
    BY <1>1, <1>5, <2>1, <2>2, <2>3, <2>4, MovesInv DEF RequestInv
<1> QED
  BY <1>4, <1>5, RollbackInv

-----------------------------------------------------------------------------
(* The statements on comments.                                             *)

\* 400 for a parent that is gone.
LEMMA CheckParentInv ==
  ASSUME IInv, NEW r \in Requests, CheckParent(r)
  PROVE  IInv'
<1>1. /\ pc[r] = "parent" /\ req[r] \in Request /\ req[r].kind = "comment"
      /\ RequestInv(r) /\ RowLocksOf(r)
  BY OpenRequest, KindsOf DEF CheckParent
<1>2. ASSUME NEW next \in {"insert", "referParent"}, Moves(r, next, req[r], {}, {}),
             next = "referParent" => req[r].comment \in Comments
      PROVE  IInv'
  <2>1. next \in StepsOf(req[r].kind)
    BY <1>1, Steps
  <2>2. /\ next \in PCs
        /\ pc'[r] = next /\ req'[r] = req[r]
        /\ assignee' = assignee /\ comment' = comment
        /\ Shape(r)' /\ Fields(r)'
        /\ \A x \in LockRows : holder'[x] = r <=> holder[x] = r
        /\ \A x \in LockRows : r \in sharers'[x] <=> r \in sharers[x]
    BY <1>1, <1>2, <2>1, GoesOn DEF Alike
  <2>3. RowLocksOf(r)'
    BY <1>1, <1>2, <2>2, RowFacts DEF RowLocksOf, HasProject, HasTask, Changing, HasComment, OnTask,
                                      OnComments, SharesProject, SharesTask, SharesComment
  <2>4. Knows(r)' /\ Notices(r)'
    BY <1>1, <1>2, <2>2 DEF Knows, HasTask, HasProject, Changing, OnTask, OnComments, Notices
  <2> QED
    BY <1>1, <1>2, <2>2, <2>3, <2>4, MovesInv DEF RequestInv
<1>3. CASE req[r].comment = None
  <2>1. Read(r, TRUE, "insert", req[r])
    BY <1>3 DEF CheckParent
  <2>2. Rollback(r) \/ Moves(r, "insert", req[r], {}, {})
    BY <2>1, ReadMoves
  <2> QED
    BY <1>2, <2>2, RollbackInv
<1>4. CASE req[r].comment # None
  <2>1. Read(r, comment[req[r].comment] # NoComment, "referParent", req[r])
    BY <1>4 DEF CheckParent
  <2>2. Rollback(r) \/ Moves(r, "referParent", req[r], {}, {})
    BY <2>1, ReadMoves
  <2>3. req[r].comment \in Comments
    BY <1>1, <1>4 DEF Request
  <2> QED
    BY <1>2, <2>2, <2>3, RollbackInv
<1> QED
  BY <1>3, <1>4

\* The foreign key to the parent.
LEMMA ReferParentInv ==
  ASSUME IInv, NEW r \in Requests, ReferParent(r)
  PROVE  IInv'
<1>1. /\ pc[r] = "referParent" /\ req[r] \in Request /\ req[r].kind = "comment"
      /\ RequestInv(r) /\ RowLocksOf(r) /\ req[r].comment \in Comments
  BY OpenRequest, KindsOf DEF ReferParent, RequestInv, Fields
<1> DEFINE x == CommentRow(req[r].comment)
<1>2. Refer(r, x, comment[req[r].comment] # NoComment, "insert", req[r])
  BY DEF ReferParent, CommentRow
<1>3. \A c \in Comments : CommentRow(c) = x => c = req[r].comment
  BY <1>1, RowFacts
<1>4. x # TaskRow /\ x # ProjectRow
  BY <1>1, RowFacts
<1> HIDE DEF x
<1>5. Rollback(r) \/ Moves(r, "insert", req[r], {}, {x})
  BY <1>2, ReferMoves
<1>6. ASSUME Moves(r, "insert", req[r], {}, {x})
      PROVE  IInv'
  <2>1. "insert" \in StepsOf(req[r].kind)
    BY <1>1, Steps
  <2>2. /\ "insert" \in PCs
        /\ pc'[r] = "insert" /\ req'[r] = req[r]
        /\ assignee' = assignee /\ comment' = comment
        /\ Shape(r)' /\ Fields(r)'
        /\ \A y \in LockRows : holder'[y] = r <=> holder[y] = r
        /\ \A y \in LockRows : r \in sharers'[y] <=> y \in {x} \/ r \in sharers[y]
    BY <1>1, <1>6, <2>1, GoesOn DEF Alike
  <2>3. RowLocksOf(r)'
    BY <1>1, <1>3, <1>4, <2>2, RowFacts DEF RowLocksOf, HasProject, HasTask, Changing, HasComment,
                       OnTask, OnComments, SharesProject, SharesTask, SharesComment
  <2>4. Knows(r)' /\ Notices(r)'
    BY <1>1, <2>2 DEF Knows, HasTask, HasProject, Changing, OnTask, OnComments, Notices
  <2> QED
    BY <1>1, <1>6, <2>2, <2>3, <2>4, MovesInv DEF RequestInv
<1> QED
  BY <1>5, <1>6, RollbackInv

\* ... and to the Task.
LEMMA InsertCommentInv ==
  ASSUME IInv, NEW r \in Requests, InsertComment(r)
  PROVE  IInv'
<1>1. /\ pc[r] = "insert" /\ req[r] \in Request /\ req[r].kind = "comment"
      /\ RequestInv(r) /\ RowLocksOf(r)
  BY OpenRequest, KindsOf DEF InsertComment
<1>2. Refer(r, TaskRow, assignee # Gone, "referTask", req[r])
  BY DEF InsertComment
<1>3. Rollback(r) \/ Moves(r, "referTask", req[r], {}, {TaskRow})
  BY <1>2, ReferMoves
<1>4. ASSUME Moves(r, "referTask", req[r], {}, {TaskRow})
      PROVE  IInv'
  <2>1. "referTask" \in StepsOf(req[r].kind)
    BY <1>1, Steps
  <2>2. /\ "referTask" \in PCs
        /\ pc'[r] = "referTask" /\ req'[r] = req[r]
        /\ assignee' = assignee /\ comment' = comment
        /\ Shape(r)' /\ Fields(r)'
        /\ \A y \in LockRows : holder'[y] = r <=> holder[y] = r
        /\ \A y \in LockRows : r \in sharers'[y] <=> y \in {TaskRow} \/ r \in sharers[y]
    BY <1>1, <1>4, <2>1, GoesOn DEF Alike
  <2>3. RowLocksOf(r)'
    BY <1>1, <2>2, RowFacts DEF RowLocksOf, HasProject, HasTask, Changing, HasComment,
                       OnTask, OnComments, SharesProject, SharesTask, SharesComment
  <2>4. Knows(r)' /\ Notices(r)'
    BY <1>1, <2>2 DEF Knows, HasTask, HasProject, Changing, OnTask, OnComments, Notices
  <2> QED
    BY <1>1, <1>4, <2>2, <2>3, <2>4, MovesInv DEF RequestInv
<1> QED
  BY <1>3, <1>4, RollbackInv

\* SELECT ... FOR UPDATE of a comment that is there.
LEMMA LockCommentInv ==
  ASSUME IInv, NEW r \in Requests, LockComment(r)
  PROVE  IInv'
<1>1. /\ pc[r] = "lockComment" /\ req[r] \in Request /\ req[r].kind \in OnComments
      /\ RequestInv(r) /\ RowLocksOf(r) /\ req[r].comment \in Comments
  BY OpenRequest, KindsOf DEF LockComment, RequestInv, Fields
<1> DEFINE x == CommentRow(req[r].comment)
<1>2. Lock(r, x, comment[req[r].comment] # NoComment, "check", req[r])
  BY DEF LockComment, CommentRow
<1>3. \A c \in Comments : CommentRow(c) = x <=> c = req[r].comment
  BY <1>1, RowFacts
<1>4. x # TaskRow /\ x # ProjectRow
  BY <1>1, RowFacts
<1> HIDE DEF x
<1>5. Rollback(r) \/ (comment[req[r].comment] # NoComment /\ Moves(r, "check", req[r], {x}, {}))
  BY <1>2, LockMoves
<1>6. ASSUME comment[req[r].comment] # NoComment, Moves(r, "check", req[r], {x}, {})
      PROVE  IInv'
  <2>1. "check" \in StepsOf(req[r].kind)
    BY <1>1, Steps
  <2>2. /\ "check" \in PCs
        /\ pc'[r] = "check" /\ req'[r] = req[r]
        /\ assignee' = assignee /\ comment' = comment
        /\ Shape(r)' /\ Fields(r)'
        /\ \A y \in LockRows : holder'[y] = r <=> y \in {x} \/ holder[y] = r
        /\ \A y \in LockRows : r \in sharers'[y] <=> r \in sharers[y]
    BY <1>1, <1>6, <2>1, GoesOn DEF Alike
  <2>3. RowLocksOf(r)'
    BY <1>1, <1>3, <1>4, <2>2, RowFacts DEF RowLocksOf, HasProject, HasTask, Changing, HasComment,
                       OnTask, OnComments, SharesProject, SharesTask, SharesComment
  <2>4. Knows(r)' /\ Notices(r)'
    BY <1>1, <1>6, <2>2 DEF Knows, HasTask, HasProject, Changing, OnTask, OnComments, Notices
  <2> QED
    BY <1>1, <1>6, <2>2, <2>3, <2>4, MovesInv DEF RequestInv
<1> QED
  BY <1>5, <1>6, RollbackInv

\* Only a comment that is not deleted is changed.
LEMMA CheckCommentInv ==
  ASSUME IInv, NEW r \in Requests, CheckComment(r)
  PROVE  IInv'
<1>1. /\ pc[r] = "check" /\ req[r] \in Request /\ req[r].kind \in OnComments
      /\ RequestInv(r) /\ RowLocksOf(r)
  BY OpenRequest, KindsOf DEF CheckComment
<1> DEFINE c == comment[req[r].comment]
           allowed == IF req[r].kind = "edit"
                      THEN c.author = req[r].user /\ ~ c.deleted /\ c.text # req[r].text
                      ELSE req[r].user \in Moderators \cup {c.author} /\ ~ c.deleted
<1>2. Read(r, allowed, "referTask", req[r])
  BY DEF CheckComment
<1>3. allowed => ~ c.deleted
  OBVIOUS
<1>4. allowed \in BOOLEAN
  OBVIOUS
<1> HIDE DEF allowed
<1>5. Rollback(r) \/ (allowed /\ Moves(r, "referTask", req[r], {}, {}))
  BY <1>2, <1>4, ReadMoves
<1>6. ASSUME allowed, Moves(r, "referTask", req[r], {}, {})
      PROVE  IInv'
  <2>1. "referTask" \in StepsOf(req[r].kind)
    BY <1>1, Steps
  <2>2. /\ "referTask" \in PCs
        /\ pc'[r] = "referTask" /\ req'[r] = req[r]
        /\ assignee' = assignee /\ comment' = comment
        /\ Shape(r)' /\ Fields(r)'
        /\ \A y \in LockRows : holder'[y] = r <=> holder[y] = r
        /\ \A y \in LockRows : r \in sharers'[y] <=> r \in sharers[y]
    BY <1>1, <1>6, <2>1, GoesOn DEF Alike
  <2>3. RowLocksOf(r)'
    BY <1>1, <2>2, RowFacts DEF RowLocksOf, HasProject, HasTask, Changing, HasComment,
                       OnTask, OnComments, SharesProject, SharesTask, SharesComment
  <2>4. Knows(r)' /\ Notices(r)'
    BY <1>1, <1>3, <1>6, <2>2 DEF Knows, HasTask, HasProject, Changing, OnTask, OnComments, Notices,
                                  RequestInv
  <2> QED
    BY <1>1, <1>6, <2>2, <2>3, <2>4, MovesInv DEF RequestInv
<1> QED
  BY <1>5, <1>6, RollbackInv

-----------------------------------------------------------------------------
(* The statements on activities and notifications.                         *)

\* An Activity refers to the Task.
LEMMA ReferTaskInv ==
  ASSUME IInv, NEW r \in Requests, ReferTask(r)
  PROVE  IInv'
<1>1. /\ pc[r] = "referTask" /\ req[r] \in Request /\ req[r].kind \in Kinds \ {"remove"}
      /\ RequestInv(r) /\ RowLocksOf(r)
  BY OpenRequest, KindsOf DEF ReferTask
<1>2. Refer(r, TaskRow, assignee # Gone, "record", req[r])
  BY DEF ReferTask
<1>3. Rollback(r) \/ Moves(r, "record", req[r], {}, {TaskRow})
  BY <1>2, ReferMoves
<1>4. ASSUME Moves(r, "record", req[r], {}, {TaskRow})
      PROVE  IInv'
  <2>1. "record" \in StepsOf(req[r].kind)
    BY <1>1, Steps DEF Kinds, OnComments
  <2>2. /\ "record" \in PCs
        /\ pc'[r] = "record" /\ req'[r] = req[r]
        /\ assignee' = assignee /\ comment' = comment
        /\ Shape(r)' /\ Fields(r)'
        /\ \A y \in LockRows : holder'[y] = r <=> holder[y] = r
        /\ \A y \in LockRows : r \in sharers'[y] <=> y \in {TaskRow} \/ r \in sharers[y]
    BY <1>1, <1>4, <2>1, GoesOn DEF Alike
  <2>3. RowLocksOf(r)'
    BY <1>1, <2>2, RowFacts DEF RowLocksOf, HasProject, HasTask, Changing, HasComment,
                       OnTask, OnComments, SharesProject, SharesTask, SharesComment
  <2>4. Knows(r)' /\ Notices(r)'
    BY <1>1, <2>2 DEF Knows, HasTask, HasProject, Changing, OnTask, OnComments, Notices, RequestInv
  <2> QED
    BY <1>1, <1>4, <2>2, <2>3, <2>4, MovesInv DEF RequestInv
<1> QED
  BY <1>3, <1>4, RollbackInv

\* A request that is going to ask for the access of A.
LEMMA AskedIs ==
  ASSUME NEW R \in Request,
         NEW A \in SUBSET (Users \X {"assigned", "unassigned", "reply", "onTask"})
  PROVE  LET S == [R EXCEPT !.asked = A]
         IN  S \in Request /\ Alike(S, R) /\ S.before = R.before /\ S.due = R.due /\ S.asked = A
BY DEF Request, Alike

\* Whom an update tells depends on what it asks and on what was before.
LEMMA SameCandidates ==
  ASSUME NEW r, Alike(req'[r], req[r]), req'[r].before = req[r].before
  PROVE  AssignmentCandidates(r)' = AssignmentCandidates(r)
BY DEF AssignmentCandidates, Changes, Alike

\* An Activity refers to the Project, and its notices are going to be asked for.
LEMMA RecordActivityInv ==
  ASSUME IInv, NEW r \in Requests, RecordActivity(r)
  PROVE  IInv'
<1>1. /\ pc[r] = "record" /\ req[r] \in Request /\ req[r].kind \in Kinds \ {"remove"}
      /\ RequestInv(r) /\ RowLocksOf(r)
  BY OpenRequest, KindsOf DEF RecordActivity
<1> DEFINE A == CASE req[r].kind = "update" -> AssignmentCandidates(r)
                  [] req[r].kind = "comment" -> CommentCandidates(r)
                  [] OTHER -> {}
           K == [req[r] EXCEPT !.asked = A]
           next == IF req[r].kind \in {"update", "comment"} THEN "notify" ELSE "commit"
<1>2. Refer(r, ProjectRow, TRUE, next, K)
  BY DEF RecordActivity
<1>3. /\ req[r].kind = "update" => A = AssignmentCandidates(r)
      /\ req[r].kind # "update" /\ req[r].kind = "comment" => A = CommentCandidates(r)
      /\ req[r].kind # "update" /\ req[r].kind # "comment" => A = {}
  BY Zenon
<1>4. next \in StepsOf(req[r].kind) /\ next = IF req[r].kind \in {"update", "comment"} THEN "notify" ELSE "commit"
  BY <1>1, Steps DEF Kinds, OnComments
<1> HIDE DEF A, next
<1>5. A \in SUBSET (Users \X {"assigned", "unassigned", "reply", "onTask"})
  <2>1. AssignmentCandidates(r) \subseteq Users \X {"assigned", "unassigned", "reply", "onTask"}
    BY DEF AssignmentCandidates
  <2>2. CommentCandidates(r) \subseteq Users \X {"assigned", "unassigned", "reply", "onTask"}
    BY DEF CommentCandidates
  <2> QED
    BY <1>3, <2>1, <2>2
<1>6. K \in Request /\ Alike(K, req[r]) /\ K.before = req[r].before /\ K.due = req[r].due /\ K.asked = A
  BY <1>1, <1>5, AskedIs
<1> HIDE DEF K
<1>7. Rollback(r) \/ Moves(r, next, K, {}, {ProjectRow})
  BY <1>2, ReferMoves
<1>8. ASSUME Moves(r, next, K, {}, {ProjectRow})
      PROVE  IInv'
  <2>1. /\ next \in PCs
        /\ pc'[r] = next /\ req'[r] = K
        /\ assignee' = assignee /\ comment' = comment
        /\ Shape(r)' /\ Fields(r)'
        /\ \A y \in LockRows : holder'[y] = r <=> holder[y] = r
        /\ \A y \in LockRows : r \in sharers'[y] <=> y \in {ProjectRow} \/ r \in sharers[y]
    <3>1. next # "referParent"
      BY <1>4
    <3> QED
      BY <1>1, <1>4, <1>6, <1>8, <3>1, GoesOn
  <2>2. RowLocksOf(r)'
    BY <1>1, <1>4, <1>6, <2>1, RowFacts DEF RowLocksOf, HasProject, HasTask, Changing, HasComment,
                       OnTask, OnComments, SharesProject, SharesTask, SharesComment, Alike
  <2>3. Knows(r)'
    BY <1>1, <1>4, <1>6, <2>1 DEF Knows, HasTask, HasProject, Changing, OnTask, OnComments,
                                  RequestInv, Alike
  <2>4. Notices(r)'
    <3>1. AssignmentCandidates(r)' = AssignmentCandidates(r)
      BY <1>6, <2>1, SameCandidates
    <3>2. req[r].kind = "update" => req[r].due = {}
      BY <1>1 DEF RequestInv, Notices
    <3> QED
      BY <1>3, <1>4, <1>6, <2>1, <3>1, <3>2 DEF Notices, Alike
  <2> QED
    BY <1>6, <1>8, <2>1, <2>2, <2>3, <2>4, MovesInv DEF RequestInv
<1> QED
  BY <1>7, <1>8, RollbackInv

\* One candidate is asked for, and told, or skipped.
LEMMA NotifyInv ==
  ASSUME IInv, NEW r \in Requests, Notify(r)
  PROVE  IInv'
<1>1. /\ pc[r] = "notify" /\ req[r] \in Request /\ req[r].kind \in {"update", "comment"}
      /\ RequestInv(r) /\ RowLocksOf(r)
      /\ pc \in [Requests -> PCs] /\ req \in [Requests -> Request] /\ LocksTypeOK(LockRows, Requests)
  BY OpenRequest, KindsOf DEF Notify, IInv, TypeOK
<1>2. PICK x \in req[r].asked :
        req' = [req EXCEPT ![r].asked = @ \ {x},
                           ![r].due = IF req[r].kind = "comment" THEN {}
                                      ELSE @ \cup {IF x[1] \in member THEN x ELSE <<x[1], "nothing">>}]
  BY DEF Notify
<1> DEFINE d == IF x[1] \in member THEN x ELSE <<x[1], "nothing">>
           D == IF req[r].kind = "comment" THEN {} ELSE req[r].due \cup {d}
           A == req[r].asked \ {x}
<1>3. d = x \/ d = <<x[1], "nothing">>
  OBVIOUS
<1>3a. d[1] = x[1] /\ (d = x \/ d[2] = "nothing")
  BY <1>3
<1>3b. x[1] \in Users
  BY <1>1 DEF Request
<1>4. req' = [req EXCEPT ![r].asked = A, ![r].due = D]
  BY <1>2
<1>5. A \in SUBSET (Users \X {"assigned", "unassigned", "reply", "onTask"})
  BY <1>1 DEF Request
<1> HIDE DEF d
<1>6. D \in SUBSET (Users \X {"assigned", "unassigned", "nothing"})
  <2>1. req[r].due \subseteq Users \X {"assigned", "unassigned", "nothing"}
    BY <1>1 DEF Request
  <2>2. req[r].kind = "update" => x \in Users \X {"assigned", "unassigned"}
    BY <1>1 DEF RequestInv, Notices, AssignmentCandidates
  <2>3. req[r].kind = "update" => d \in Users \X {"assigned", "unassigned", "nothing"}
    BY <1>3, <1>3b, <2>2
  <2> QED
    BY <1>1, <2>1, <2>3
<1>6a. req[r].kind = "update" => D = req[r].due \cup {d}
  OBVIOUS
<1> HIDE DEF D
<1> DEFINE K == req'[r]
<1>7. /\ K \in Request /\ Alike(K, req[r]) /\ K.before = req[r].before /\ K.asked = A /\ K.due = D
      /\ req' = [req EXCEPT ![r] = K]
  <2> HIDE DEF A
  <2> QED
    BY <1>1, <1>4, <1>5, <1>6 DEF Request, Alike
<1> HIDE DEF K
<1>8. Moves(r, "notify", K, {}, {})
  BY <1>1, <1>7 DEF Moves, Notify, locks, LocksTypeOK
<1>9. /\ "notify" \in PCs
      /\ pc'[r] = "notify" /\ req'[r] = K
      /\ assignee' = assignee /\ comment' = comment
      /\ Shape(r)' /\ Fields(r)'
      /\ \A y \in LockRows : holder'[y] = r <=> holder[y] = r
      /\ \A y \in LockRows : r \in sharers'[y] <=> r \in sharers[y]
  <2>1. "notify" \in StepsOf(req[r].kind)
    BY <1>1, Steps
  <2> QED
    BY <1>1, <1>7, <1>8, <2>1, GoesOn
<1>10. RowLocksOf(r)'
  BY <1>1, <1>7, <1>9, RowFacts DEF RowLocksOf, HasProject, HasTask, Changing, HasComment,
                     OnTask, OnComments, SharesProject, SharesTask, SharesComment, Alike
<1>11. Knows(r)'
  BY <1>1, <1>7, <1>9 DEF Knows, HasTask, HasProject, Changing, OnTask, OnComments, RequestInv, Alike
<1>12. Notices(r)'
  <2>1. AssignmentCandidates(r)' = AssignmentCandidates(r)
    BY <1>7, <1>9, SameCandidates DEF K
  <2>2. ASSUME req[r].kind = "update"
        PROVE  /\ A \subseteq AssignmentCandidates(r)
               /\ \A y \in D : y[2] # "nothing" => y \in AssignmentCandidates(r)
               /\ \A y \in AssignmentCandidates(r) : y \in A \/ \E z \in D : z[1] = y[1]
    <3>1. /\ req[r].asked \subseteq AssignmentCandidates(r)
          /\ \A y \in req[r].due : y[2] # "nothing" => y \in AssignmentCandidates(r)
          /\ \A y \in AssignmentCandidates(r) :
               y \in req[r].asked \/ \E z \in req[r].due : z[1] = y[1]
      BY <1>1, <2>2 DEF RequestInv, Notices
    <3>2. \E z \in D : z[1] = x[1]
      BY <1>3a, <1>6a, <2>2
    <3>3. \A y \in D : y[2] # "nothing" => y \in req[r].due \/ y = x
      BY <1>3a, <1>6a, <2>2
    <3>4. req[r].due \subseteq D
      BY <1>6a, <2>2
    <3> QED
      BY <3>1, <3>2, <3>3, <3>4
  <2> QED
    BY <1>7, <1>9, <2>1, <2>2 DEF Notices, Alike
<1> QED
  BY <1>7, <1>8, <1>9, <1>10, <1>11, <1>12, MovesInv DEF RequestInv

\* Everybody has been asked for.
LEMMA NotifyDoneInv ==
  ASSUME IInv, NEW r \in Requests, NotifyDone(r)
  PROVE  IInv'
<1>1. /\ pc[r] = "notify" /\ req[r] \in Request /\ req[r].kind \in {"update", "comment"}
      /\ RequestInv(r) /\ RowLocksOf(r) /\ req[r].asked = {}
  BY OpenRequest, KindsOf DEF NotifyDone
<1>2. Rollback(r) \/ Moves(r, "commit", req[r], {}, {})
  BY ReadMoves DEF NotifyDone
<1>3. ASSUME Moves(r, "commit", req[r], {}, {})
      PROVE  IInv'
  <2>1. "commit" \in StepsOf(req[r].kind)
    BY <1>1, Steps
  <2>2. /\ "commit" \in PCs
        /\ pc'[r] = "commit" /\ req'[r] = req[r]
        /\ assignee' = assignee /\ comment' = comment
        /\ Shape(r)' /\ Fields(r)'
        /\ \A y \in LockRows : holder'[y] = r <=> holder[y] = r
        /\ \A y \in LockRows : r \in sharers'[y] <=> r \in sharers[y]
    BY <1>1, <1>3, <2>1, GoesOn DEF Alike
  <2>3. RowLocksOf(r)'
    BY <1>1, <2>2, RowFacts DEF RowLocksOf, HasProject, HasTask, Changing, HasComment,
                       OnTask, OnComments, SharesProject, SharesTask, SharesComment
  <2>4. Knows(r)'
    BY <1>1, <2>2 DEF Knows, HasTask, HasProject, Changing, OnTask, OnComments, RequestInv
  <2>5. Notices(r)'
    <3>1. AssignmentCandidates(r)' = AssignmentCandidates(r)
      BY <2>2, SameCandidates DEF Alike
    <3> QED
      BY <1>1, <2>2, <3>1 DEF Notices, RequestInv
  <2> QED
    BY <1>1, <1>3, <2>2, <2>3, <2>4, <2>5, MovesInv DEF RequestInv
<1> QED
  BY <1>2, <1>3, RollbackInv

\* The deletion of the Task locks the comments that there are.
LEMMA CascadeInv ==
  ASSUME IInv, NEW r \in Requests, Cascade(r)
  PROVE  IInv'
<1>1. /\ pc[r] = "cascade" /\ req[r] \in Request /\ req[r].kind = "remove"
      /\ RequestInv(r) /\ RowLocksOf(r)
      /\ req \in [Requests -> Request] /\ LocksTypeOK(LockRows, Requests)
  BY OpenRequest, KindsOf DEF Cascade, IInv, TypeOK
<1> DEFINE X == {"Comment"} \X {c \in Comments : comment[c] # NoComment}
<1>2. \A c \in Comments : CommentRow(c) \in X <=> comment[c] # NoComment
  BY DEF CommentRow
<1>3. ProjectRow \notin X /\ TaskRow \notin X
  BY DEF ProjectRow, TaskRow
<1>4. Moves(r, "commit", req[r], X, {})
  <2> HIDE DEF X
  <2>1. ForUpdate(r, X) /\ UNCHANGED <<sharers, rows, req>> /\ Goto(r, "commit")
    BY DEF Cascade, X
  <2> QED
    BY <1>1, <2>1 DEF Moves, ForUpdate, Goto, LocksTypeOK
<1> HIDE DEF X
<1>5. "commit" \in StepsOf(req[r].kind)
  BY <1>1, Steps
<1>6. /\ "commit" \in PCs
      /\ pc'[r] = "commit" /\ req'[r] = req[r]
      /\ assignee' = assignee /\ comment' = comment
      /\ Shape(r)' /\ Fields(r)'
      /\ \A y \in LockRows : holder'[y] = r <=> y \in X \/ holder[y] = r
      /\ \A y \in LockRows : r \in sharers'[y] <=> r \in sharers[y]
  <2>1. /\ req[r] \in Request /\ Alike(req[r], req[r])
        /\ "commit" = "referParent" => req[r].comment \in Comments
    BY <1>1 DEF Alike
  <2>2. pc[r] # "idle"
    BY <1>1
  <2> QED
    BY <1>4, <1>5, <2>1, <2>2, GoesOn
<1>7. RowLocksOf(r)'
  BY <1>1, <1>2, <1>3, <1>6, RowFacts DEF RowLocksOf, HasProject, HasTask, Changing, HasComment,
                     OnTask, OnComments, SharesProject, SharesTask, SharesComment
<1>8. Knows(r)' /\ Notices(r)'
  BY <1>1, <1>6 DEF Knows, HasTask, HasProject, Changing, OnTask, OnComments, RequestInv, Notices
<1> QED
  BY <1>1, <1>4, <1>6, <1>7, <1>8, MovesInv DEF RequestInv

-----------------------------------------------------------------------------
(* The commits.                                                            *)

\* A commit keeps the invariant, if it writes what its request has locked.
LEMMA CommitInv ==
  ASSUME IInv, NEW r \in Requests, End(r), Entitled(r),
         assignee' \in Users \cup {None, Gone},
         comment' \in [Comments -> {NoComment} \cup
            [author : Users, text : Texts \cup {Erased}, deleted : BOOLEAN]],
         told' \in [Users -> {"nothing", "assigned", "unassigned"}],
         member' = member, Tombstones', LastNoticeIsTrue'
  PROVE  IInv'
<1>1. /\ pc' \in [Requests -> PCs] /\ req' \in [Requests -> Request]
      /\ LocksTypeOK(LockRows, Requests)' /\ LockExclusion' /\ Alone(r)
  BY EndKeeps
<1>2. RequestInv(r)' /\ RowLocksOf(r)'
  BY EndKeeps, IdleInv
<1>3. \A q \in Requests \ {r} : RequestInv(q)' /\ RowLocksOf(q)'
  BY <1>1, OthersKeep
<1>4. TypeOK'
  BY <1>1 DEF IInv, TypeOK
<1> QED
  BY <1>1, <1>2, <1>3, <1>4 DEF IInv

\* What a request at its commit knows.
LEMMA AtCommit ==
  ASSUME IInv, NEW r \in Requests, NEW kind, At(r, kind)
  PROVE  /\ pc[r] = "commit" /\ req[r].kind = kind /\ TypeOK
         /\ req[r] \in Request /\ req[r].user \in Users
         /\ Knows(r) /\ Notices(r) /\ Fields(r)
<1>1. pc[r] = "commit" /\ req[r].kind = kind
  BY DEF At
<1> QED
  BY <1>1, OpenRequest DEF RequestInv

\* Whoever is told something of the change hears that; the actor hears nothing; the
\* others have heard nothing new.
LEMMA HearsIs ==
  ASSUME NEW r, NEW u
  PROVE  LET heard == {t \in {"assigned", "unassigned", "nothing"} : <<u, t>> \in req[r].due} IN
         /\ heard # {} => Hears(r, u) \in heard
         /\ heard = {} /\ u = req[r].user /\ Changes(r) => Hears(r, u) = "nothing"
         /\ heard = {} /\ ~ (u = req[r].user /\ Changes(r)) => Hears(r, u) = told[u]
<1> DEFINE heard == {t \in {"assigned", "unassigned", "nothing"} : <<u, t>> \in req[r].due}
<1>1. Hears(r, u) = IF heard # {} THEN CHOOSE t \in heard : TRUE
                    ELSE IF u = req[r].user /\ Changes(r) THEN "nothing"
                    ELSE told[u]
  BY DEF Hears
<1> HIDE DEF heard
<1>2. heard # {} => (CHOOSE t \in heard : TRUE) \in heard
  OBVIOUS
<1>3. /\ heard # {} => Hears(r, u) \in heard
      /\ heard = {} /\ u = req[r].user /\ Changes(r) => Hears(r, u) = "nothing"
      /\ heard = {} /\ ~ (u = req[r].user /\ Changes(r)) => Hears(r, u) = told[u]
  BY <1>1, <1>2
<1> QED
  BY <1>3 DEF heard

\* The last notice stays true, because an update tells everybody whom it concerns.
LEMMA UpdateTells ==
  ASSUME IInv, NEW r \in Requests, CommitUpdate(r)
  PROVE  /\ told' \in [Users -> {"nothing", "assigned", "unassigned"}]
         /\ LastNoticeIsTrue'
<1>1. /\ pc[r] = "commit" /\ req[r].kind = "update" /\ TypeOK /\ req[r] \in Request
      /\ Knows(r) /\ Notices(r)
  BY AtCommit DEF CommitUpdate
<1>2. HasTask(r)
  BY <1>1, CommitHasTask DEF OnTask
<1>3. assignee = req[r].before /\ assignee # Gone
  BY <1>1, <1>2, GoneAssumption DEF Knows, Request
<1>4. assignee' = req[r].to /\ told' = [u \in Users |-> Hears(r, u)]
  BY DEF CommitUpdate
<1>5. /\ \A x \in req[r].due : x[2] # "nothing" => x \in AssignmentCandidates(r)
      /\ \A x \in AssignmentCandidates(r) : \E y \in req[r].due : y[1] = x[1]
      /\ req[r].due \subseteq Users \X {"assigned", "unassigned", "nothing"}
  BY <1>1 DEF Notices, Request
<1>6. told \in [Users -> {"nothing", "assigned", "unassigned"}]
  BY <1>1 DEF TypeOK
<1>7. ASSUME NEW u \in Users
      PROVE  /\ told'[u] \in {"nothing", "assigned", "unassigned"}
             /\ told'[u] # "nothing" => (told'[u] = "assigned" <=> assignee' = u)
  <2> DEFINE heard == {t \in {"assigned", "unassigned", "nothing"} : <<u, t>> \in req[r].due}
  <2>1. /\ heard # {} => told'[u] \in heard
        /\ heard = {} /\ u = req[r].user /\ Changes(r) => told'[u] = "nothing"
        /\ heard = {} /\ ~ (u = req[r].user /\ Changes(r)) => told'[u] = told[u]
    BY <1>4, HearsIs
  <2>2. CASE heard # {}
    <3>1. told'[u] \in {"assigned", "unassigned", "nothing"} /\ <<u, told'[u]>> \in req[r].due
      BY <2>1, <2>2
    <3>2. ASSUME told'[u] # "nothing" PROVE told'[u] = "assigned" <=> assignee' = u
      <4>1. <<u, told'[u]>> \in AssignmentCandidates(r)
        BY <1>5, <3>1, <3>2
      <4>2. Changes(r) /\ u = IF told'[u] = "assigned" THEN req[r].to ELSE req[r].before
        BY <4>1 DEF AssignmentCandidates
      <4> QED
        BY <1>4, <4>2 DEF Changes
    <3> QED
      BY <3>1, <3>2
  <2>3. CASE heard = {} /\ u = req[r].user /\ Changes(r)
    BY <2>1, <2>3
  <2>4. CASE heard = {} /\ ~ (u = req[r].user /\ Changes(r))
    <3>1. told'[u] = told[u]
      BY <2>1, <2>4
    <3>2. told[u] # "nothing" => (told[u] = "assigned" <=> assignee = u)
      BY <1>3 DEF IInv, LastNoticeIsTrue
    <3>3. CASE ~ Changes(r)
      BY <1>1, <1>3, <1>4, <1>6, <3>1, <3>2, <3>3 DEF Changes
    <3>4. CASE Changes(r)
      <4>1. \A t \in {"assigned", "unassigned"} : <<u, t>> \notin AssignmentCandidates(r)
        <5> SUFFICES ASSUME NEW t \in {"assigned", "unassigned"}, <<u, t>> \in AssignmentCandidates(r)
                     PROVE  FALSE
          OBVIOUS
        <5>1. PICK y \in req[r].due : y[1] = u
          BY <1>5
        <5>2. y = <<u, y[2]>> /\ y[2] \in {"assigned", "unassigned", "nothing"}
          BY <1>5, <5>1
        <5>3. y[2] \in heard
          BY <5>1, <5>2
        <5> QED
          BY <2>4, <5>3
      <4>2. u \in Users \ {req[r].user}
        BY <2>4, <3>4
      <4>3. u # req[r].to /\ u # req[r].before
        BY <3>4, <4>1, <4>2 DEF AssignmentCandidates
      <4> QED
        BY <1>3, <1>4, <1>6, <3>1, <3>2, <4>3
    <3> QED
      BY <3>3, <3>4
  <2> QED
    BY <2>2, <2>3, <2>4
<1>8. LastNoticeIsTrue'
  BY <1>7 DEF LastNoticeIsTrue
<1>9. told' \in [Users -> {"nothing", "assigned", "unassigned"}]
  <2>1. told' = [u \in Users |-> told'[u]]
    BY <1>4
  <2> QED
    BY <1>7, <2>1
<1> QED
  BY <1>8, <1>9

\* The commit of an update tells the assignee it leaves in the row.
LEMMA CommitUpdateInv ==
  ASSUME IInv, NEW r \in Requests, CommitUpdate(r)
  PROVE  IInv'
<1>1. /\ pc[r] = "commit" /\ req[r].kind = "update" /\ TypeOK /\ req[r] \in Request
  BY AtCommit DEF CommitUpdate
<1>2. HasTask(r)
  BY <1>1, CommitHasTask DEF OnTask
<1>3. /\ End(r) /\ assignee' = req[r].to /\ comment' = comment /\ member' = member
  BY DEF CommitUpdate
<1>4. Entitled(r)
  BY <1>2, <1>3 DEF Entitled
<1>5. assignee' \in Users \cup {None, Gone}
  BY <1>1, <1>3 DEF Request
<1>6. Tombstones' /\ comment' \in [Comments -> {NoComment} \cup
            [author : Users, text : Texts \cup {Erased}, deleted : BOOLEAN]]
  BY <1>1, <1>3 DEF IInv, Tombstones, TypeOK
<1> QED
  BY <1>3, <1>4, <1>5, <1>6, UpdateTells, CommitInv

\* The commit of a Task's removal takes the comments along.
LEMMA CommitRemovalInv ==
  ASSUME IInv, NEW r \in Requests, CommitRemoval(r)
  PROVE  IInv'
<1>1. /\ pc[r] = "commit" /\ req[r].kind = "remove" /\ TypeOK
  BY AtCommit DEF CommitRemoval
<1>2. HasTask(r)
  BY <1>1, CommitHasTask DEF OnTask
<1>3. /\ End(r) /\ assignee' = Gone /\ comment' = [c \in Comments |-> NoComment]
      /\ member' = member /\ told' = told
  BY DEF CommitRemoval
<1>4. Entitled(r)
  BY <1>1, <1>2, <1>3 DEF Entitled, HasComment
<1>5. Tombstones' /\ LastNoticeIsTrue'
  BY <1>3 DEF Tombstones, LastNoticeIsTrue, NoComment
<1>6. comment' \in [Comments -> {NoComment} \cup
            [author : Users, text : Texts \cup {Erased}, deleted : BOOLEAN]]
  BY <1>3
<1>7. told' \in [Users -> {"nothing", "assigned", "unassigned"}]
  BY <1>1, <1>3 DEF TypeOK
<1> QED
  BY <1>3, <1>4, <1>5, <1>6, <1>7, CommitInv

\* The commit of a comment adds its row and its Activity.
LEMMA CommitCommentInv ==
  ASSUME IInv, NEW r \in Requests, CommitComment(r)
  PROVE  IInv'
<1>1. /\ pc[r] = "commit" /\ req[r].kind = "comment" /\ TypeOK
      /\ req[r].user \in Users /\ req[r].text \in Texts
  BY AtCommit DEF CommitComment, Fields
<1> DEFINE new == [author |-> req[r].user, text |-> req[r].text, deleted |-> FALSE]
<1>2. PICK c \in Comments : comment[c] = NoComment /\ comment' = [comment EXCEPT ![c] = new]
  BY DEF CommitComment
<1>3. End(r) /\ assignee' = assignee /\ member' = member /\ told' = told
  BY DEF CommitComment
<1>4. /\ new \in [author : Users, text : Texts \cup {Erased}, deleted : BOOLEAN]
      /\ ~ new.deleted
  BY <1>1
<1> HIDE DEF new
<1>5. comment \in [Comments -> {NoComment} \cup
            [author : Users, text : Texts \cup {Erased}, deleted : BOOLEAN]]
  BY <1>1 DEF TypeOK
<1>6. comment' \in [Comments -> {NoComment} \cup
            [author : Users, text : Texts \cup {Erased}, deleted : BOOLEAN]]
  BY <1>2, <1>4, <1>5
<1>7. \A d \in Comments : comment'[d] = IF d = c THEN new ELSE comment[d]
  BY <1>2, <1>5
<1>8. Tombstones' /\ LastNoticeIsTrue'
  BY <1>3, <1>4, <1>7 DEF IInv, Tombstones, LastNoticeIsTrue
<1>9. Entitled(r)
  BY <1>1, <1>2, <1>3, <1>7 DEF Entitled, SharesTask
<1>10. told' \in [Users -> {"nothing", "assigned", "unassigned"}] /\ assignee' \in Users \cup {None, Gone}
  BY <1>1, <1>3 DEF TypeOK
<1> QED
  BY <1>3, <1>6, <1>8, <1>9, <1>10, CommitInv

\* A change of a comment that is there and locked.
LEMMA ChangeOfComment ==
  ASSUME IInv, NEW r \in Requests, pc[r] = "commit", req[r].kind \in OnComments, End(r),
         UNCHANGED <<assignee, told, member>>,
         NEW new \in [author : Users, text : Texts \cup {Erased}, deleted : BOOLEAN],
         new.deleted => new.text = Erased,
         comment' = [comment EXCEPT ![req[r].comment] = new]
  PROVE  IInv'
<1>1. TypeOK /\ Changing(r)
  BY DEF IInv, Changing
<1>2. comment \in [Comments -> {NoComment} \cup
            [author : Users, text : Texts \cup {Erased}, deleted : BOOLEAN]]
  BY <1>1 DEF TypeOK
<1>3. comment' \in [Comments -> {NoComment} \cup
            [author : Users, text : Texts \cup {Erased}, deleted : BOOLEAN]]
  BY <1>2
<1>4. \A d \in Comments : comment'[d] = IF d = req[r].comment THEN new ELSE comment[d]
  BY <1>2
<1>5. Tombstones' /\ LastNoticeIsTrue'
  BY <1>4 DEF IInv, Tombstones, LastNoticeIsTrue
<1>6. Entitled(r)
  BY <1>1, <1>4 DEF Entitled, HasComment
<1>7. told' \in [Users -> {"nothing", "assigned", "unassigned"}] /\ assignee' \in Users \cup {None, Gone}
  BY <1>1 DEF TypeOK
<1> QED
  BY <1>3, <1>5, <1>6, <1>7, CommitInv

\* The comment that r changes.
LEMMA ChangedComment ==
  ASSUME IInv, NEW r \in Requests, pc[r] = "commit", req[r].kind \in OnComments
  PROVE  /\ req[r].comment \in Comments
         /\ comment[req[r].comment] \in [author : Users, text : Texts \cup {Erased}, deleted : BOOLEAN]
         /\ comment[req[r].comment].deleted = FALSE
<1>1. /\ TypeOK /\ Knows(r) /\ Fields(r)
  BY OpenRequest DEF RequestInv
<1>2. req[r].comment \in Comments
  BY <1>1 DEF Fields
<1>3. comment[req[r].comment] # NoComment /\ ~ comment[req[r].comment].deleted
  BY <1>1 DEF Knows, Changing
<1>4. comment[req[r].comment] \in [author : Users, text : Texts \cup {Erased}, deleted : BOOLEAN]
  BY <1>1, <1>2, <1>3 DEF TypeOK
<1> QED
  BY <1>2, <1>3, <1>4

\* The commit of an edit changes the text of a comment that is there.
LEMMA CommitEditInv ==
  ASSUME IInv, NEW r \in Requests, CommitEdit(r)
  PROVE  IInv'
<1>1. pc[r] = "commit" /\ req[r].kind = "edit" /\ req[r].text \in Texts
  BY AtCommit DEF CommitEdit, Fields
<1> DEFINE c == req[r].comment
           new == [comment[c] EXCEPT !.text = req[r].text]
<1>2. /\ comment[c] \in [author : Users, text : Texts \cup {Erased}, deleted : BOOLEAN]
      /\ comment[c].deleted = FALSE
  BY <1>1, ChangedComment DEF OnComments
<1>3. /\ new \in [author : Users, text : Texts \cup {Erased}, deleted : BOOLEAN]
      /\ new.deleted = FALSE
  BY <1>1, <1>2
<1>4. comment' = [comment EXCEPT ![c] = new] /\ End(r) /\ UNCHANGED <<assignee, told, member>>
  BY DEF CommitEdit
<1> HIDE DEF new
<1> QED
  BY <1>1, <1>3, <1>4, ChangeOfComment DEF OnComments

\* The commit of a deletion leaves no text.
LEMMA CommitEraseInv ==
  ASSUME IInv, NEW r \in Requests, CommitErase(r)
  PROVE  IInv'
<1>1. pc[r] = "commit" /\ req[r].kind = "erase"
  BY AtCommit DEF CommitErase
<1> DEFINE c == req[r].comment
           new == [comment[c] EXCEPT !.text = Erased, !.deleted = TRUE]
<1>2. comment[c] \in [author : Users, text : Texts \cup {Erased}, deleted : BOOLEAN]
  BY <1>1, ChangedComment DEF OnComments
<1>3. /\ new \in [author : Users, text : Texts \cup {Erased}, deleted : BOOLEAN]
      /\ new.text = Erased
  BY <1>2
<1>4. comment' = [comment EXCEPT ![c] = new] /\ End(r) /\ UNCHANGED <<assignee, told, member>>
  BY DEF CommitErase
<1> HIDE DEF new
<1> QED
  BY <1>1, <1>3, <1>4, ChangeOfComment DEF OnComments

-----------------------------------------------------------------------------
(* Every step keeps the invariant.                                         *)

\* The members come and go: nothing that a request knows is about them.
LEMMA MembersInv ==
  ASSUME IInv, NEW u \in Users, Join(u) \/ Leave(u)
  PROVE  IInv'
<1>1. UNCHANGED <<assignee, comment, told, pc, req, locks>> /\ member' \subseteq Users
  BY DEF Join, Leave, IInv, TypeOK
<1>2. TypeOK' /\ req' \in [Requests -> Request] /\ Tombstones' /\ LastNoticeIsTrue' /\ LockExclusion'
  BY <1>1 DEF IInv, TypeOK, LocksTypeOK, Tombstones, LastNoticeIsTrue, LockExclusion, locks
<1>3. ASSUME NEW r \in Requests PROVE RequestInv(r)' /\ RowLocksOf(r)'
  <2>1. RequestInv(r) /\ RowLocksOf(r)
    BY DEF IInv
  <2>2. RowLocksOf(r)'
    BY <1>1, <2>1 DEF RowLocksOf, HasProject, HasTask, Changing, HasComment, SharesProject,
                      SharesTask, SharesComment, locks
  <2>3. Shape(r)' /\ Fields(r)' /\ Knows(r)'
    BY <1>1, <2>1 DEF RequestInv, Shape, Fields, Knows, Changing, HasTask, HasProject
  <2>4. Notices(r)'
    <3>1. AssignmentCandidates(r)' = AssignmentCandidates(r)
      BY <1>1 DEF AssignmentCandidates, Changes
    <3> QED
      BY <1>1, <2>1, <3>1 DEF RequestInv, Notices
  <2> QED
    BY <2>2, <2>3, <2>4 DEF RequestInv
<1> QED
  BY <1>2, <1>3 DEF IInv

\* What nobody writes stays.
LEMMA StutterInv ==
  ASSUME IInv, UNCHANGED vars
  PROVE  IInv'
<1>1. UNCHANGED <<assignee, comment, told, member, pc, req, holder, sharers>>
  BY DEF vars, rows, locks
<1>2. TypeOK' /\ req' \in [Requests -> Request] /\ Tombstones' /\ LastNoticeIsTrue' /\ LockExclusion'
  BY <1>1 DEF IInv, TypeOK, LocksTypeOK, Tombstones, LastNoticeIsTrue, LockExclusion
<1>3. ASSUME NEW r \in Requests PROVE RequestInv(r)' /\ RowLocksOf(r)'
  <2>1. RequestInv(r) /\ RowLocksOf(r)
    BY DEF IInv
  <2>2. RowLocksOf(r)'
    BY <1>1, <2>1 DEF RowLocksOf, HasProject, HasTask, Changing, HasComment, SharesProject,
                      SharesTask, SharesComment
  <2>3. RequestInv(r)'
    BY <1>1, <2>1 DEF RequestInv, Shape, Fields, Knows, Notices, Changing, HasTask, HasProject,
                      AssignmentCandidates, Changes
  <2> QED
    BY <2>2, <2>3
<1> QED
  BY <1>2, <1>3 DEF IInv

\* There is only the Task at first.
LEMMA InitInv == Init => IInv
<1> SUFFICES ASSUME Init PROVE IInv
  OBVIOUS
<1>1. /\ pc = [r \in Requests |-> "idle"] /\ req = [r \in Requests |-> NoRequest]
      /\ comment = [c \in Comments |-> NoComment] /\ told = [u \in Users |-> "nothing"]
      /\ holder = [x \in LockRows |-> None] /\ sharers = [x \in LockRows |-> {}]
      /\ assignee \in Users \cup {None} /\ member = Users
  BY DEF Init, LocksInit
<1>2. TypeOK
  BY <1>1 DEF TypeOK, PCs, LocksTypeOK
<1>3. req \in [Requests -> Request]
  BY <1>1 DEF Request, NoRequest
<1>4. Tombstones /\ LastNoticeIsTrue /\ LockExclusion
  BY <1>1 DEF Tombstones, LastNoticeIsTrue, LockExclusion, NoComment
<1>5. ASSUME NEW r \in Requests PROVE RequestInv(r) /\ RowLocksOf(r)
  <2>1. pc[r] = "idle" /\ req[r] = NoRequest /\ \A x \in LockRows : holder[x] # r /\ r \notin sharers[x]
    BY <1>1, DiscussionNoneAssumption
  <2>2. /\ ~ HasProject(r) /\ ~ HasTask(r) /\ ~ Changing(r) /\ ~ SharesTask(r)
        /\ \A c \in Comments : ~ HasComment(r, c)
    BY <2>1 DEF HasProject, HasTask, Changing, SharesTask, HasComment
  <2>3. RowLocksOf(r)
    BY <2>1, <2>2, RowFacts DEF RowLocksOf
  <2>4. Shape(r) /\ Fields(r) /\ Knows(r) /\ Notices(r)
    BY <2>1, <2>2 DEF Shape, Fields, Knows, Notices, NoRequest
  <2> QED
    BY <2>3, <2>4 DEF RequestInv
<1> QED
  BY <1>2, <1>3, <1>4, <1>5 DEF IInv

\* Every step keeps the invariant.
LEMMA NextInv == IInv /\ [Next]_vars => IInv'
<1> SUFFICES ASSUME IInv, [Next]_vars PROVE IInv'
  OBVIOUS
<1>1. ASSUME NEW r \in Requests,
             \/ Begin(r) \/ ResolveTask(r) \/ LockProject(r) \/ LockTask(r) \/ AssertAccess(r)
             \/ CheckParent(r) \/ ReferParent(r) \/ InsertComment(r) \/ LockComment(r)
             \/ CheckComment(r)
      PROVE  IInv'
  BY <1>1, BeginInv, ResolveTaskInv, LockProjectInv, LockTaskInv, AssertAccessInv, CheckParentInv,
     ReferParentInv, InsertCommentInv, LockCommentInv, CheckCommentInv
<1>2. ASSUME NEW r \in Requests,
             \/ ReferTask(r) \/ RecordActivity(r) \/ Notify(r) \/ NotifyDone(r) \/ Cascade(r)
             \/ CommitUpdate(r) \/ CommitRemoval(r) \/ CommitComment(r) \/ CommitEdit(r)
             \/ CommitErase(r) \/ Fail(r)
      PROVE  IInv'
  BY <1>2, ReferTaskInv, RecordActivityInv, NotifyInv, NotifyDoneInv, CascadeInv, CommitUpdateInv,
     CommitRemovalInv, CommitCommentInv, CommitEditInv, CommitEraseInv, RollbackInv DEF Fail
<1>3. CASE \E u \in Users : Join(u) \/ Leave(u)
  BY <1>3, MembersInv
<1>4. CASE UNCHANGED vars
  BY <1>4, StutterInv
<1> QED
  BY <1>1, <1>2, <1>3, <1>4 DEF Next

-----------------------------------------------------------------------------
(* The theorems.                                                           *)

\* In every reachable state a request has the row locks of the statements it has
\* passed, and what it has read under them is still true.
THEOREM Invariance == Spec => []IInv
BY InitInv, NextInv, PTL DEF Spec

\* Comments, notices, members and locks have their types in every reachable state.
THEOREM TypeCorrect == Spec => []TypeOK
<1>1. IInv => TypeOK
  BY DEF IInv
<1> QED
  BY <1>1, Invariance, PTL

\* What an activity tells of the state before is true when it commits: the assignee
\* that an update has read is the one that it replaces, and no comment is edited or
\* deleted that has been deleted already.
THEOREM ActivitiesTellTheTruth == Spec => []ActivitiesAreTrue
<1>1. IInv => ActivitiesAreTrue
  <2> SUFFICES ASSUME IInv, NEW r \in Requests, pc[r] = "commit"
               PROVE  /\ req[r].kind \in {"update", "remove"} => assignee = req[r].before
                      /\ req[r].kind \in {"edit", "erase"} => ~ comment[req[r].comment].deleted
    BY DEF ActivitiesAreTrue
  <2>1. Knows(r)
    BY DEF IInv, RequestInv
  <2> QED
    BY <2>1, CommitHasTask DEF Knows, Changing, OnTask, OnComments
<1> QED
  BY <1>1, Invariance, PTL

\* Whoever was told by the last change of the assignee, and is not the one who made
\* it, has been told the truth, whoever joined or left in between.
THEOREM LastNoticeStaysTrue == Spec => []LastNoticeIsTrue
<1>1. IInv => LastNoticeIsTrue
  BY DEF IInv
<1> QED
  BY <1>1, Invariance, PTL

\* A comment that is deleted has no text, and none comes back.
THEOREM DeletedIsErased == Spec => ErasedForGood
<1> DEFINE Stays == \A c \in Comments : comment[c].deleted =>
                      comment[c].text = Erased /\ comment'[c] \in {comment[c], NoComment}
<1>1. ASSUME IInv, [Next]_vars PROVE [Stays]_vars
  <2>1. Tombstones
    BY <1>1 DEF IInv
  <2>2. CASE \E r \in Requests : CommitRemoval(r)
    BY <2>1, <2>2 DEF CommitRemoval, Tombstones
  <2>3. ASSUME NEW r \in Requests, CommitComment(r) PROVE Stays
    <3>1. comment \in [Comments -> {NoComment} \cup
            [author : Users, text : Texts \cup {Erased}, deleted : BOOLEAN]]
      BY <1>1 DEF IInv, TypeOK
    <3>2. PICK c \in Comments : comment[c] = NoComment /\ \E new : comment' = [comment EXCEPT ![c] = new]
      BY <2>3 DEF CommitComment
    <3> QED
      BY <2>1, <3>1, <3>2 DEF Tombstones, NoComment
  <2>4. ASSUME NEW r \in Requests, CommitEdit(r) \/ CommitErase(r) PROVE Stays
    <3>1. pc[r] = "commit" /\ req[r].kind \in OnComments
      BY <2>4 DEF CommitEdit, CommitErase, At, OnComments
    <3>2. req[r].comment \in Comments /\ comment[req[r].comment].deleted = FALSE
      BY <1>1, <3>1, ChangedComment
    <3>3. \A d \in Comments : d # req[r].comment => comment'[d] = comment[d]
      <4>1. comment \in [Comments -> {NoComment} \cup
              [author : Users, text : Texts \cup {Erased}, deleted : BOOLEAN]]
        BY <1>1 DEF IInv, TypeOK
      <4>2. \E new : comment' = [comment EXCEPT ![req[r].comment] = new]
        BY <2>4 DEF CommitEdit, CommitErase
      <4> QED
        BY <4>1, <4>2
    <3> QED
      BY <2>1, <3>2, <3>3 DEF Tombstones
  <2>5. ASSUME NEW r \in Requests,
               \/ Begin(r) \/ ResolveTask(r) \/ LockProject(r) \/ LockTask(r) \/ AssertAccess(r)
               \/ CheckParent(r) \/ ReferParent(r) \/ InsertComment(r) \/ LockComment(r)
               \/ CheckComment(r) \/ ReferTask(r) \/ RecordActivity(r) \/ Notify(r)
               \/ NotifyDone(r) \/ Cascade(r) \/ CommitUpdate(r) \/ Fail(r)
        PROVE  comment' = comment
    BY <2>5 DEF Begin, ResolveTask, LockProject, LockTask, AssertAccess, CheckParent, ReferParent,
                InsertComment, LockComment, CheckComment, ReferTask, RecordActivity, Notify,
                NotifyDone, Cascade, CommitUpdate, Fail, Read, Lock, Refer, Rollback, rows
  <2>6. ASSUME NEW u \in Users, Join(u) \/ Leave(u) PROVE comment' = comment
    BY <2>6 DEF Join, Leave
  <2>7. comment' = comment => Stays
    BY <2>1 DEF Tombstones
  <2> QED
    BY <1>1, <2>2, <2>3, <2>4, <2>5, <2>6, <2>7 DEF Next
<1> QED
  BY <1>1, Invariance, PTL DEF Spec, ErasedForGood

-----------------------------------------------------------------------------
(* Deadlocks.                                                              *)

\* What the next statement of a request waits for.
LEMMA WantsIs ==
  ASSUME NEW r \in Requests
  PROVE  /\ Wants(r) = IF pc[r] = "lockProject" THEN {ProjectRow}
                       ELSE IF pc[r] = "lockTask" THEN {TaskRow}
                       ELSE IF pc[r] = "lockComment" THEN {CommentRow(req[r].comment)}
                       ELSE IF pc[r] = "cascade"
                            THEN {CommentRow(c) : c \in {d \in Comments : comment[d] # NoComment}}
                       ELSE {}
         /\ RefersTo(r) = IF pc[r] = "referParent" THEN {CommentRow(req[r].comment)}
                          ELSE IF pc[r] \in {"insert", "referTask"} THEN {TaskRow}
                          ELSE IF pc[r] = "record" THEN {ProjectRow}
                          ELSE {}
<1>1. /\ pc[r] = "lockProject" => Wants(r) = {ProjectRow}
      /\ pc[r] = "lockTask" => Wants(r) = {TaskRow}
      /\ pc[r] = "lockComment" => Wants(r) = {CommentRow(req[r].comment)}
  BY DEF Wants, LockOrder, CommentRow
<1>2. pc[r] = "cascade" => Wants(r) = {CommentRow(c) : c \in {d \in Comments : comment[d] # NoComment}}
  <2>1. pc[r] = "cascade" => Wants(r) = {"Comment"} \X {c \in Comments : comment[c] # NoComment}
    BY DEF Wants
  <2> QED
    BY <2>1 DEF CommentRow
<1>3. pc[r] \notin {"lockProject", "lockTask", "lockComment", "cascade"} => Wants(r) = {}
  <2>1. /\ pc[r] # "lockProject" /\ pc[r] # "lockTask" /\ pc[r] # "lockComment" /\ pc[r] # "cascade"
        => Wants(r) = {}
    BY Zenon DEF Wants
  <2> QED
    BY <2>1
<1>4. /\ pc[r] = "referParent" => RefersTo(r) = {CommentRow(req[r].comment)}
      /\ pc[r] \in {"insert", "referTask"} => RefersTo(r) = {TaskRow}
      /\ pc[r] = "record" => RefersTo(r) = {ProjectRow}
  BY DEF RefersTo, CommentRow
<1>5. pc[r] \notin {"referParent", "insert", "referTask", "record"} => RefersTo(r) = {}
  <2>1. pc[r] # "referParent" /\ pc[r] \notin {"insert", "referTask"} /\ pc[r] # "record"
        => RefersTo(r) = {}
    BY Zenon DEF RefersTo
  <2> QED
    BY <2>1
<1> QED
  BY <1>1, <1>2, <1>3, <1>4, <1>5

CommentKinds == {"comment", "edit", "erase"}

\* A request on comments that waits for another waits for a comment, which the
\* other has, or shares, and needs no further one.
LEMMA CommentsPass ==
  ASSUME IInv, NEW r \in Requests, NEW q \in Requests, q \in Blockers(r),
         req[r].kind \in CommentKinds, req[q].kind \in CommentKinds
  PROVE  /\ pc[r] \in {"lockComment", "referParent"}
         /\ pc[q] \in {"check", "insert", "referTask", "record", "notify", "commit"}
<1>1. RowLocksOf(q) /\ RequestInv(r)
  BY DEF IInv
<1>2. /\ ~ HasProject(q) /\ ~ HasTask(q)
      /\ \A c \in Comments : HasComment(q, c) => pc[q] \in {"check", "referTask", "record", "commit"}
      /\ \A c \in Comments : SharesComment(q, c) => pc[q] \in {"insert", "referTask", "record",
                                                              "notify", "commit"}
  BY DEF HasProject, HasTask, HasComment, Changing, SharesComment, OnTask, CommentKinds
<1>3. pc[r] \notin {"lockProject", "lockTask", "cascade"}
  BY KindsOf DEF OnTask, CommentKinds
<1>4. /\ q # r
      /\ \/ \E x \in Wants(r) : holder[x] = q \/ q \in sharers[x]
         \/ \E x \in RefersTo(r) : holder[x] = q
  BY DEF Blockers
<1>5. holder[ProjectRow] # q /\ holder[TaskRow] # q
  BY <1>1, <1>2 DEF RowLocksOf
<1>6. /\ pc[r] \in {"lockComment", "referParent"}
      /\ \/ holder[CommentRow(req[r].comment)] = q
         \/ q \in sharers[CommentRow(req[r].comment)]
  BY <1>3, <1>4, <1>5, WantsIs
<1>7. req[r].comment \in Comments
  <2>1. pc[r] = "lockComment" => req[r].kind \in OnComments
    BY KindsOf
  <2> QED
    BY <1>1, <1>6, <2>1 DEF RequestInv, Fields
<1>8. pc[q] \in {"check", "insert", "referTask", "record", "notify", "commit"}
  BY <1>1, <1>2, <1>6, <1>7 DEF RowLocksOf
<1> QED
  BY <1>6, <1>8

\* A request on the Task that waits for another has not got the Project, and the
\* other has.
LEMMA TasksPass ==
  ASSUME IInv, NEW r \in Requests, NEW q \in Requests, q \in Blockers(r),
         req[r].kind \in OnTask, req[q].kind \in OnTask
  PROVE  ~ HasProject(r) /\ HasProject(q)
<1>1. RowLocksOf(q) /\ RowLocksOf(r)
  BY DEF IInv
<1>2. /\ HasTask(q) => HasProject(q)
      /\ \A c \in Comments : HasComment(q, c) => HasProject(q)
      /\ \A c \in Comments : ~ SharesComment(q, c)
      /\ SharesProject(q) => HasProject(q)
      /\ SharesTask(q) => HasProject(q)
  BY DEF HasProject, HasTask, HasComment, Changing, SharesComment, SharesProject, SharesTask,
         OnTask, OnComments
<1>3. /\ q # r
      /\ \/ \E x \in Wants(r) : holder[x] = q \/ q \in sharers[x]
         \/ \E x \in RefersTo(r) : holder[x] = q
  BY DEF Blockers
<1>4. ~ (HasProject(r) /\ HasProject(q))
  BY <1>1, <1>3 DEF RowLocksOf
<1>5. /\ \A x \in {ProjectRow, TaskRow} \cup {CommentRow(c) : c \in Comments} :
           holder[x] = q \/ q \in sharers[x] => HasProject(q)
  BY <1>1, <1>2 DEF RowLocksOf
<1>6. pc[r] \notin {"lockComment", "referParent", "idle"}
  <2>1. pc[r] \notin {"lockComment", "referParent"}
    BY KindsOf DEF OnTask, OnComments
  <2>2. pc[r] # "idle"
    BY <1>3, WantsIs
  <2> QED
    BY <2>1, <2>2
<1>7. Wants(r) \cup RefersTo(r) \subseteq {ProjectRow, TaskRow} \cup {CommentRow(c) : c \in Comments}
  BY <1>6, WantsIs
<1>8. HasProject(q)
  BY <1>3, <1>5, <1>7
<1> QED
  BY <1>4, <1>8

\* Requests that wait for each other in a circle are of both sorts: some change
\* comments, some change the Task.  Neither sort alone can deadlock.
THEOREM DeadlocksMixBoth == Spec => []DeadlocksTakeBoth
<1>1. IInv => DeadlocksTakeBoth
  <2> SUFFICES ASSUME IInv, NEW S \in (SUBSET Requests) \ {{}},
                      \A r \in S : Blockers(r) \cap S # {}
               PROVE  /\ \E r \in S : req[r].kind \in {"comment", "edit", "erase"}
                      /\ \E r \in S : req[r].kind \in {"update", "remove"}
    BY DEF DeadlocksTakeBoth
  <2>1. \A r \in S : req[r].kind \in CommentKinds \cup OnTask
    <3> SUFFICES ASSUME NEW r \in S PROVE req[r].kind \in CommentKinds \cup OnTask
      OBVIOUS
    <3>1. Wants(r) # {} \/ RefersTo(r) # {}
      BY DEF Blockers
    <3>2. pc[r] # "idle"
      BY <3>1, WantsIs
    <3> QED
      BY <3>2, OpenRequest DEF Kinds, CommentKinds, OnTask
  <2>2. PICK r \in S : TRUE
    OBVIOUS
  <2>3. PICK q \in S : q \in Blockers(r)
    BY <2>2
  <2>4. PICK p \in S : p \in Blockers(q)
    BY <2>3
  <2>5. \E s \in S : req[s].kind \in OnTask
    <3> SUFFICES ASSUME \A s \in S : req[s].kind \in CommentKinds PROVE FALSE
      BY <2>1
    <3>1. pc[q] \in {"check", "insert", "referTask", "record", "notify", "commit"}
      BY <2>2, <2>3, CommentsPass
    <3>2. pc[q] \in {"lockComment", "referParent"}
      BY <2>3, <2>4, CommentsPass
    <3> QED
      BY <3>1, <3>2
  <2>6. \E s \in S : req[s].kind \in CommentKinds
    <3> SUFFICES ASSUME \A s \in S : req[s].kind \in OnTask PROVE FALSE
      BY <2>1
    <3>1. HasProject(q)
      BY <2>2, <2>3, TasksPass
    <3>2. ~ HasProject(q)
      BY <2>3, <2>4, TasksPass
    <3> QED
      BY <3>1, <3>2
  <2> QED
    BY <2>5, <2>6 DEF OnTask, CommentKinds
<1> QED
  BY <1>1, Invariance, PTL

=============================================================================
