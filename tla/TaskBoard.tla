----------------------------- MODULE TaskBoard ------------------------------
(***************************************************************************)
(* The boards of the projects: TasksService and ProjectColumnsService as   *)
(* database transactions that run concurrently under READ COMMITTED.       *)
(*                                                                         *)
(* A request is one HTTP call.  Between its statements any other request   *)
(* may take a step.  What a transaction writes is visible to itself at     *)
(* once (work) and to the others when it commits (task, column).  It may   *)
(* fail at any point: an access check refuses it, the client or the        *)
(* process goes away, the transaction times out; then it rolls back.       *)
(*                                                                         *)
(* Of a Task row, the model keeps its Column and position, which change,   *)
(* and its project, which is set once and for all when the row is created  *)
(* under a fresh id.  col = None is "no such row".                         *)
(***************************************************************************)
EXTENDS Integers, FiniteSets, RowLocks

CONSTANTS
  Projects,
  Columns,               \* the ids Columns can have
  Tasks,                 \* the ids Tasks can have
  Requests,              \* the requests that can be open at the same time
  ProjectOf,             \* ProjectOf[c]: the project (and board) of Column c
  StartPosition          \* StartPosition[c]: the index in its project of a
                         \* Column the project was created with, or None

Kinds == {"create", "update", "move", "remove", "addColumn", "renameColumn", "removeColumn"}

TaskKinds == {"create", "update", "move", "remove"}

ASSUME TasksAssumption == IsFiniteSet(Tasks)

ASSUME ProjectOfAssumption == ProjectOf \in [Columns -> Projects]

ASSUME StartPositionAssumption ==
  /\ IsFiniteSet(Columns)
  /\ StartPosition \in [Columns -> (0 .. Cardinality(Columns) - 1) \cup {None}]

ASSUME NoneAssumption ==
  None \notin Columns \cup Tasks \cup Projects \cup Requests \cup Nat \cup Kinds

VARIABLES
  task,                  \* task[t]: the committed row of Task t
  home,                  \* home[t]: the projectId of Task t, None for an unused id
  column,                \* column[c]: the committed position of Column c, or None
  used,                  \* the Column ids that were ever given out
  pc,                    \* pc[r]: the statement request r executes next
  op,                    \* op[r]: what request r asks for
  work,                  \* work[r]: the Task rows r wrote and has not committed
  plan,                  \* plan[r]: the rows r is going to write
  todo                   \* todo[r]: the rows of plan[r] the current pass has left

vars == <<task, home, column, used, pc, op, work, plan, todo, holder, sharers>>

Row == [col : Columns \cup {None}, pos : Nat]

NoRow == [col |-> None, pos |-> 0]

\* The rows of some of the Tasks.
IsRows(rows) == DOMAIN rows \subseteq Tasks /\ rows \in [DOMAIN rows -> Row]

Op == [kind : Kinds \cup {None}, task : Tasks \cup {None},
       proj : Projects \cup {None}, col : Columns \cup {None}, idx : Nat]

NoOp == [kind |-> None, task |-> None, proj |-> None, col |-> None, idx |-> 0]

\* What can be locked: Project, Board (one per project), Column and Task rows.
LockRows == ({"Project", "Board"} \X Projects) \cup ({"Column"} \X Columns) \cup ({"Task"} \X Tasks)

PCs == {"idle", "lockProject", "read", "shift", "place", "lockBoard", "insertColumn",
        "lockColumn", "dropColumn", "commit"}

Empty == [t \in {} |-> NoRow]

-----------------------------------------------------------------------------
(* What a transaction reads.                                               *)

\* The Task table a statement of request r sees: its own writes over what is
\* committed.
Seen(r) == [t \in Tasks |-> IF t \in DOMAIN work[r] THEN work[r][t] ELSE task[t]]

In(table, c) == {t \in Tasks : table[t].col = c}

\* The index of t among the Tasks of S in ORDER BY position.
Rank(table, S, t) == Cardinality({u \in S : table[u].pos < table[t].pos})

\* The Tasks of Column c are numbered 0 .. n-1.
Dense(table, c) ==
  {table[t].pos : t \in In(table, c)} = 0 .. Cardinality(In(table, c)) - 1

\* Mutant: the -1 of an empty Column is taken for the next position.
NextPositionOfEmpty(P) ==
  IF P = {} THEN -1 ELSE (CHOOSE m \in P : \A p \in P : p <= m) + 1

\* max(position), or -1 for no row, plus 1.
NextPosition(P) ==
  IF P = {} THEN 0 ELSE (CHOOSE m \in P : \A p \in P : p <= m) + 1

\* Where the k-th element ends up when another one is put in at index i.
Splice(k, i) == IF k >= i THEN k + 1 ELSE k

\* Mutant: the indexes still count the Task that is moved.
RepositionedCountingTask(table, t, c, i) ==
  LET Index(u) == Rank(table, In(table, table[u].col), u)
  IN  [u \in In(table, table[t].col) \cup In(table, c) |->
         IF u = t
         THEN [col |-> c, pos |-> i]
         ELSE [col |-> table[u].col,
               pos |-> IF table[u].col = c THEN Splice(Index(u), i) ELSE Index(u)]]

\* The orders repositionTask computes: t is taken out of its Column and put at
\* index i of Column c, and everything else keeps its order.
Repositioned(table, t, c, i) ==
  LET Index(u) == Rank(table, In(table, table[u].col) \ {t}, u)
  IN  [u \in In(table, table[t].col) \cup In(table, c) |->
         IF u = t
         THEN [col |-> c, pos |-> i]
         ELSE [col |-> table[u].col,
               pos |-> IF table[u].col = c THEN Splice(Index(u), i) ELSE Index(u)]]

\* normalizeColumn: the Tasks of Column c by position, renumbered from 0.
Normalized(table, c) ==
  [u \in In(table, c) |-> [col |-> c, pos |-> Rank(table, In(table, c), u)]]

-----------------------------------------------------------------------------
(* Transactions.                                                           *)

Goto(r, next) == pc' = [pc EXCEPT ![r] = next]

\* Mutant: the transaction is left open.
EndKeepingLocks(r) ==
  /\ Goto(r, "idle")
  /\ op' = [op EXCEPT ![r] = NoOp]
  /\ work' = [work EXCEPT ![r] = Empty]
  /\ plan' = [plan EXCEPT ![r] = Empty]
  /\ todo' = [todo EXCEPT ![r] = {}]
  /\ UNCHANGED locks

\* r ends: it gives up its locks and what it has not committed.
End(r) ==
  /\ ReleaseLocks(r)
  /\ Goto(r, "idle")
  /\ op' = [op EXCEPT ![r] = NoOp]
  /\ work' = [work EXCEPT ![r] = Empty]
  /\ plan' = [plan EXCEPT ![r] = Empty]
  /\ todo' = [todo EXCEPT ![r] = {}]

Rollback(r) ==
  /\ End(r)
  /\ UNCHANGED <<task, home, column, used>>

\* A statement writes row t.  Another transaction that wrote t, or wrote or
\* deleted the unique (columnId, position) the statement needs, is waited for.
CanWrite(r, t, row) ==
  /\ CanForUpdate(r, <<"Task", t>>)
  /\ \A q \in Requests \ {r} : \A u \in DOMAIN work[q] :
       row.col # None => row \notin {work[q][u], task[u]}

\* The unique index has the key already: P2002, answered with 409.
Taken(r, t, row) == \E u \in Tasks \ {t} : Seen(r)[u] = row

WriteRow(r, t, row) ==
  /\ CanWrite(r, t, row)
  /\ ForUpdate(r, {<<"Task", t>>})
  /\ work' = [work EXCEPT ![r] =
                [u \in DOMAIN work[r] \cup {t} |-> IF u = t THEN row ELSE work[r][u]]]

-----------------------------------------------------------------------------
(* Requests on Tasks.                                                      *)

Start(r, first, request) ==
  /\ pc[r] = "idle"
  /\ Goto(r, first)
  /\ op' = [op EXCEPT ![r] = request]
  /\ UNCHANGED <<task, column, work, plan, todo, holder, sharers>>

\* POST: the body names any project and any Column; the row's id is fresh.
StartCreate(r) ==
  \E t \in Tasks, p \in Projects, c \in Columns :
    /\ home[t] = None
    /\ Start(r, "lockProject", [NoOp EXCEPT !.kind = "create", !.task = t, !.proj = p, !.col = c])
    /\ home' = [home EXCEPT ![t] = p]
    /\ UNCHANGED used

\* PATCH, PATCH move and DELETE find the project from the stored Task, before
\* any lock.  A Task without a row is answered with 404.
StartChange(r) ==
  \E t \in Tasks, kind \in {"update", "move", "remove"} :
    /\ task[t].col # None
    /\ \E c \in IF kind = "remove" THEN {task[t].col} ELSE Columns,
          i \in IF kind = "move" THEN 0 .. Cardinality(Tasks) ELSE {0} :
         Start(r, "lockProject",
               [kind |-> kind, task |-> t, proj |-> home[t], col |-> c, idx |-> i])
    /\ UNCHANGED <<home, used>>

\* Mutant: the orders are computed without the project's lock.
LockProjectNot(r) ==
  /\ pc[r] = "lockProject"
  /\ Goto(r, "read")
  /\ UNCHANGED <<task, home, column, used, op, work, plan, todo, holder, sharers>>

\* SELECT ... FROM "Project" ... FOR UPDATE: the lock every ordering takes.
LockProject(r) ==
  /\ pc[r] = "lockProject"
  /\ ForUpdate(r, {<<"Project", op[r].proj>>})
  /\ Goto(r, "read")
  /\ UNCHANGED <<task, home, column, used, op, work, plan, todo, sharers>>

\* Mutant: any Column that exists will do.
ColumnExists(r) == column[op[r].col] # None

\* assertColumnInProject
ColumnInProject(r) == column[op[r].col] # None /\ ProjectOf[op[r].col] = op[r].proj

\* From here on r is to write the rows of rows: a shift pass over all of them
\* first when they had rows before, then a pass that places each.
Write(r, rows, first) ==
  /\ plan' = [plan EXCEPT ![r] = rows]
  /\ todo' = [todo EXCEPT ![r] = DOMAIN rows]
  /\ Goto(r, first)

\* create: append at the highest position of the Column plus one.
ReadForCreate(r) ==
  /\ pc[r] = "read" /\ op[r].kind = "create"
  /\ LET t == op[r].task
         c == op[r].col
         position == NextPosition({task[u].pos : u \in In(task, c)})
     IN  IF ColumnInProject(r)
         THEN /\ Write(r, [u \in {t} |-> [col |-> c, pos |-> position]], "place")
              /\ UNCHANGED <<task, home, column, used, op, work, holder, sharers>>
         ELSE Rollback(r)

\* update and move: lock the Task, read it again under the locks, and plan the
\* new orders.  An index past the end is answered with 400, a Task of another
\* project in the Columns with 409.  An update that names no other Column, and
\* a move to where the Task already is, leave the board alone.
ReadForReposition(r) ==
  /\ pc[r] = "read" /\ op[r].kind \in {"update", "move"}
  /\ CanForUpdate(r, <<"Task", op[r].task>>)
  /\ LET t == op[r].task
         c == op[r].col
         index == IF op[r].kind = "update" THEN Cardinality(In(task, c)) ELSE op[r].idx
         orders == Repositioned(task, t, c, index)
     IN  IF \/ task[t].col = None
            \/ ~ColumnInProject(r)
            \/ task[t].col = c /\ op[r].kind = "update"
            \/ \E u \in DOMAIN orders : home[u] # op[r].proj
            \/ index > Cardinality(In(task, c) \ {t})
            \/ task[t].col = c /\ index = Rank(task, In(task, c), t)
         THEN Rollback(r)
         ELSE /\ ForUpdate(r, {<<"Task", t>>})
              /\ Write(r, orders, "shift")
              /\ UNCHANGED <<task, home, column, used, op, work, sharers>>

\* remove: delete the row (its Comments, time logs and Issue go with it), then
\* close the gap if there is one.
ReadForRemove(r) ==
  /\ pc[r] = "read" /\ op[r].kind = "remove"
  /\ CanForUpdate(r, <<"Task", op[r].task>>)
  /\ LET t == op[r].task
         left == [task EXCEPT ![t] = NoRow]
         orders == Normalized(left, task[t].col)
     IN  IF task[t].col = None \/ \E u \in DOMAIN orders : home[u] # op[r].proj
         THEN Rollback(r)
         ELSE /\ WriteRow(r, t, NoRow)
              /\ IF \A u \in DOMAIN orders : orders[u].pos = task[u].pos
                 THEN Write(r, Empty, "commit")
                 ELSE Write(r, orders, "shift")
              /\ UNCHANGED <<task, home, column, used, op, sharers>>

\* Mutant: rows are shifted by the highest position, and not beyond it.
OffsetOfHighest(r) == NextPosition({task[u].pos : u \in DOMAIN plan[r]}) - 1

\* persistOrders, UPDATE "Task" SET "position" = "position" + offset: one row
\* at a time, in no particular order, with the unique index checked each time.
Offset(r) ==
  LET affected == DOMAIN plan[r]
  IN  NextPosition({task[u].pos : u \in affected}) + Cardinality(affected)

Shifted(r, t) == [task[t] EXCEPT !.pos = @ + Offset(r)]

Shift(r, t) ==
  /\ pc[r] = "shift" /\ t \in todo[r]
  /\ IF Taken(r, t, Shifted(r, t))
     THEN Rollback(r)
     ELSE /\ WriteRow(r, t, Shifted(r, t))
          /\ IF todo[r] = {t}
             THEN /\ todo' = [todo EXCEPT ![r] = DOMAIN plan[r]]
                  /\ Goto(r, "place")
             ELSE /\ todo' = [todo EXCEPT ![r] = @ \ {t}]
                  /\ UNCHANGED pc
          /\ UNCHANGED <<task, home, column, used, op, plan, sharers>>

\* The order of persistOrders' loops: the Column the Task leaves, then the one
\* it goes to, each from position 0 up.
Precedes(r, t, u) ==
  LET a == plan[r][t]
      b == plan[r][u]
  IN  IF a.col = b.col THEN a.pos < b.pos ELSE b.col = op[r].col

NextToPlace(r, t) ==
  /\ pc[r] = "place" /\ t \in todo[r]
  /\ \A u \in todo[r] \ {t} : Precedes(r, t, u)

\* The foreign key check of an INSERT, or of an UPDATE that changes columnId.
References(r, t) == {c \in {plan[r][t].col} : Seen(r)[t].col # c}

\* INSERT, or UPDATE "Task" SET "columnId", "position" of one row.
Place(r, t) ==
  /\ NextToPlace(r, t)
  /\ \A c \in References(r, t) : CanKeyShare(r, <<"Column", c>>)
  /\ IF Taken(r, t, plan[r][t]) \/ \E c \in References(r, t) : column[c] = None
     THEN Rollback(r)
     ELSE /\ WriteRow(r, t, plan[r][t])
          /\ KeyShare(r, {"Column"} \X References(r, t))
          /\ todo' = [todo EXCEPT ![r] = @ \ {t}]
          /\ IF todo[r] = {t} THEN Goto(r, "commit") ELSE UNCHANGED pc
          /\ UNCHANGED <<task, home, column, used, op, plan>>

\* findAll, findOne and the Columns' findAll, and any request on a Task or
\* Column that is not there: it is answered and changes nothing.
ReadOnly(r) == pc[r] = "idle" /\ UNCHANGED vars

-----------------------------------------------------------------------------
(* Requests on Columns.  They lock the Board or the Column, not the        *)
(* Project.                                                                *)

StartColumnChange(r) ==
  \/ \E c \in Columns \ used :
       /\ Start(r, "lockBoard",
                [NoOp EXCEPT !.kind = "addColumn", !.proj = ProjectOf[c], !.col = c])
       /\ used' = used \cup {c}
       /\ UNCHANGED home
  \/ \E c \in Columns, kind \in {"renameColumn", "removeColumn"} :
       /\ column[c] # None
       /\ Start(r, "lockColumn",
                [NoOp EXCEPT !.kind = kind, !.proj = ProjectOf[c], !.col = c])
       /\ UNCHANGED <<home, used>>

PositionsOf(p) == {column[c] : c \in {d \in Columns : ProjectOf[d] = p /\ column[d] # None}}

\* Mutant: the Board is not locked.
LockBoardNot(r) ==
  /\ pc[r] = "lockBoard"
  /\ op' = [op EXCEPT ![r].idx = NextPosition(PositionsOf(op[r].proj))]
  /\ Goto(r, "insertColumn")
  /\ UNCHANGED <<task, home, column, used, work, plan, todo, holder, sharers>>

\* Mutant: a new Column gets the number of Columns as its position.
LockBoardCounting(r) ==
  /\ pc[r] = "lockBoard"
  /\ ForUpdate(r, {<<"Board", op[r].proj>>})
  /\ op' = [op EXCEPT ![r].idx = Cardinality(PositionsOf(op[r].proj))]
  /\ Goto(r, "insertColumn")
  /\ UNCHANGED <<task, home, column, used, work, plan, todo, sharers>>

\* create: lock the Board, and read the highest position of the project.
LockBoard(r) ==
  /\ pc[r] = "lockBoard"
  /\ ForUpdate(r, {<<"Board", op[r].proj>>})
  /\ op' = [op EXCEPT ![r].idx = NextPosition(PositionsOf(op[r].proj))]
  /\ Goto(r, "insertColumn")
  /\ UNCHANGED <<task, home, column, used, work, plan, todo, sharers>>

\* A Column another request has inserted and not committed.
InsertedBy(q) == pc[q] = "commit" /\ op[q].kind = "addColumn"

\* The foreign key check locks the Project row against the Task requests; the
\* unique (projectId, position) waits for an uncommitted insert of the key and
\* answers 409 when it is there.
InsertColumn(r) ==
  /\ pc[r] = "insertColumn"
  /\ \A q \in Requests \ {r} :
       InsertedBy(q) => <<op[q].proj, op[q].idx>> # <<op[r].proj, op[r].idx>>
  /\ IF op[r].idx \in PositionsOf(op[r].proj)
     THEN Rollback(r)
     ELSE /\ KeyShare(r, {<<"Project", op[r].proj>>})
          /\ Goto(r, "commit")
          /\ UNCHANGED <<task, home, column, used, op, work, plan, todo, holder>>

\* withLockedColumn, and for remove the count of its Tasks: 404 when the
\* Column is gone, 409 when it has Tasks.
LockColumn(r) ==
  /\ pc[r] = "lockColumn"
  /\ CanForUpdate(r, <<"Column", op[r].col>>)
  /\ IF \/ column[op[r].col] = None
        \/ op[r].kind = "removeColumn" /\ In(task, op[r].col) # {}
     THEN Rollback(r)
     ELSE /\ ForUpdate(r, {<<"Column", op[r].col>>})
          /\ Goto(r, IF op[r].kind = "removeColumn" THEN "dropColumn" ELSE "commit")
          /\ UNCHANGED <<task, home, column, used, op, work, plan, todo, sharers>>

\* DELETE FROM "Column": the foreign key refuses it while a Task refers to it.
DropColumn(r) ==
  /\ pc[r] = "dropColumn"
  /\ IF In(task, op[r].col) # {}
     THEN Rollback(r)
     ELSE /\ ForUpdate(r, {<<"Column", op[r].col>>})
          /\ Goto(r, "commit")
          /\ UNCHANGED <<task, home, column, used, op, work, plan, todo, sharers>>

-----------------------------------------------------------------------------
Commit(r) ==
  /\ pc[r] = "commit"
  /\ task' = Seen(r)
  /\ column' = CASE op[r].kind = "addColumn" -> [column EXCEPT ![op[r].col] = op[r].idx]
                 [] op[r].kind = "removeColumn" -> [column EXCEPT ![op[r].col] = None]
                 [] OTHER -> column
  /\ End(r)
  /\ UNCHANGED <<home, used>>

\* A refused access check, a lost connection, a timeout, a crash.
Fail(r) == pc[r] # "idle" /\ Rollback(r)

Init ==
  /\ task = [t \in Tasks |-> NoRow]
  /\ home = [t \in Tasks |-> None]
  /\ column = StartPosition
  /\ used = {c \in Columns : StartPosition[c] # None}
  /\ pc = [r \in Requests |-> "idle"]
  /\ op = [r \in Requests |-> NoOp]
  /\ work = [r \in Requests |-> Empty]
  /\ plan = [r \in Requests |-> Empty]
  /\ todo = [r \in Requests |-> {}]
  /\ LocksInit(LockRows)

\* The statements of an open request.
Step(r) ==
  \/ LockProject(r)
  \/ ReadForCreate(r)
  \/ ReadForReposition(r)
  \/ ReadForRemove(r)
  \/ \E t \in Tasks : Shift(r, t)
  \/ \E t \in Tasks : Place(r, t)
  \/ LockBoard(r)
  \/ InsertColumn(r)
  \/ LockColumn(r)
  \/ DropColumn(r)
  \/ Commit(r)

Next ==
  \E r \in Requests :
    \/ StartCreate(r)
    \/ StartChange(r)
    \/ StartColumnChange(r)
    \/ ReadOnly(r)
    \/ Step(r)
    \/ Fail(r)

Spec == Init /\ [][Next]_vars

\* An open request goes on; PostgreSQL grants a contended row lock in the order
\* of the requests for it, so nobody is passed over for ever.
FairSpec == Spec /\ \A r \in Requests : SF_vars(Step(r))

-----------------------------------------------------------------------------
TypeOK ==
  /\ task \in [Tasks -> Row]
  /\ home \in [Tasks -> Projects \cup {None}]
  /\ column \in [Columns -> Nat \cup {None}]
  /\ used \subseteq Columns
  /\ pc \in [Requests -> PCs]
  /\ op \in [Requests -> Op]
  /\ DOMAIN work = Requests /\ DOMAIN plan = Requests
  /\ \A r \in Requests : IsRows(work[r]) /\ IsRows(plan[r])
  /\ todo \in [Requests -> SUBSET Tasks]
  /\ \A r \in Requests : todo[r] \subseteq DOMAIN plan[r]
  /\ LocksTypeOK(LockRows, Requests)

\* Every mutation leaves the Tasks of a Column numbered 0 .. n-1, whatever ran
\* at the same time: no duplicate, no gap (docs/tasks.md, persistOrders).
DensePositions ==
  \A c \in Columns : Dense(task, c)

\* The unique constraints on positions never refuse a write: the shift is free
\* of collisions row by row, the placement pass finds each position free, and
\* nobody takes the position of a new Task or Column between the read of the
\* highest one and the insert.  The 409s for it are never answered.
NoPositionConflict ==
  \A r \in Requests :
    /\ pc[r] = "shift" => \A t \in todo[r] : ~Taken(r, t, Shifted(r, t))
    /\ \A t \in todo[r] : NextToPlace(r, t) => ~Taken(r, t, plan[r][t])
    /\ pc[r] = "insertColumn" => op[r].idx \notin PositionsOf(op[r].proj)

\* A Task is on a Column that exists, of the Task's own project: a Column
\* removed while Tasks are created in it or moved to it, or a request that
\* names another project's Column, never makes one that is not.
TasksOnColumnsOfProject ==
  \A t \in Tasks :
    task[t].col # None => /\ column[task[t].col] # None
                          /\ ProjectOf[task[t].col] = home[t]

\* A new Column comes after every Column its project has at that moment, also
\* when Columns are added and removed at the same time.
ColumnsAppend ==
  [][\A c, d \in Columns :
       /\ column[c] = None /\ column'[c] # None
       /\ column[d] # None /\ ProjectOf[d] = ProjectOf[c]
       => column[d] < column'[c]]_vars

\* Every request is answered: no two of them wait for each other's locks.
RequestsEnd == \A r \in Requests : pc[r] # "idle" ~> pc[r] = "idle"
=============================================================================
