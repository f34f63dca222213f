---------------------------- MODULE OrderedBoard ----------------------------
(***************************************************************************)
(* What the Task endpoints promise of a board.  Every Column is a sequence *)
(* of Tasks; a new Task goes to the end of its Column, a move takes a Task *)
(* out of its sequence and puts it at the index the client asked for in    *)
(* what is then there, and deleting a Task closes its gap.  However many   *)
(* requests are open, each takes effect in one atomic step between being   *)
(* asked and being answered, or not at all.                                *)
(***************************************************************************)
EXTENDS Naturals, Sequences, SequencesExt

CONSTANTS Tasks, Columns, Requests, None

VARIABLES
  order,                 \* order[c]: the Tasks of Column c, first to last
  asked                  \* asked[r]: what the open request r asks for

vars == <<order, asked>>

Nothing == [kind |-> None, task |-> None, col |-> None, idx |-> 0]

Questions ==
  [kind : {"create", "update", "move", "remove"}, task : Tasks, col : Columns, idx : Nat]

Placed == UNION {ToSet(order[c]) : c \in Columns}

Index(s, t) == CHOOSE i \in DOMAIN s : s[i] = t

\* The board with Task t taken out, wherever it is.
Without(t) ==
  [c \in Columns |->
     IF t \in ToSet(order[c]) THEN RemoveAt(order[c], Index(order[c], t)) ELSE order[c]]

Init ==
  /\ order = [c \in Columns |-> <<>>]
  /\ asked = [r \in Requests |-> Nothing]

Ask(r) ==
  /\ asked[r] = Nothing
  /\ asked'[r] \in Questions
  /\ asked' = [asked EXCEPT ![r] = asked'[r]]
  /\ UNCHANGED order

Answer(r) == asked[r] # Nothing /\ asked' = [asked EXCEPT ![r] = Nothing]

\* A request may be refused, and then has no effect.
Refuse(r) == Answer(r) /\ UNCHANGED order

\* POST /api/tasks
CreateTask(r, t, c) ==
  /\ asked[r].kind = "create"
  /\ t \notin Placed
  /\ order' = [order EXCEPT ![c] = Append(@, t)]

\* PATCH /api/tasks/:id with another columnId
UpdateColumn(r, t, c) ==
  /\ asked[r].kind = "update"
  /\ t \in Placed /\ t \notin ToSet(order[c])
  /\ order' = [Without(t) EXCEPT ![c] = Append(@, t)]

\* PATCH /api/tasks/:id/move
MoveTask(r, t, c, i) ==
  /\ asked[r].kind = "move"
  /\ t \in Placed
  /\ i <= Len(Without(t)[c])
  /\ order' = [Without(t) EXCEPT ![c] = InsertAt(@, i + 1, t)]

\* DELETE /api/tasks/:id
RemoveTask(r, t) ==
  /\ asked[r].kind = "remove"
  /\ t \in Placed
  /\ order' = Without(t)

TakeEffect(r) ==
  LET q == asked[r]
  IN  /\ Answer(r)
      /\ \/ CreateTask(r, q.task, q.col)
         \/ UpdateColumn(r, q.task, q.col)
         \/ MoveTask(r, q.task, q.col, q.idx)
         \/ RemoveTask(r, q.task)

Next == \E r \in Requests : Ask(r) \/ Refuse(r) \/ TakeEffect(r)

Spec == Init /\ [][Next]_vars
=============================================================================
