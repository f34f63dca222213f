----------------------------- MODULE KanbanMove -----------------------------
(***************************************************************************)
(* A browser's board over the server's: ProjectKanban turns a drop into a  *)
(* request, shows its outcome before it is sent, takes it back when it is  *)
(* refused and puts the server's Task in its place when it is done.  The   *)
(* server is OrderedBoard, which TaskBoard implements: positions are those *)
(* of the sequences, and every request is one step.                        *)
(*                                                                         *)
(* The cache of the Tasks is a function to their Column and position.  It  *)
(* may be refetched at any time, as ClientCache shows it to be.            *)
(***************************************************************************)
EXTENDS Integers, Sequences, FiniteSets, SequencesExt

CONSTANTS
  Tasks, Columns,
  IdOrder,                \* IdOrder[t]: the place of the id of t among all ids
  Own, Rival,             \* the requests of this browser and of all others
  None,
  MaxDrops, MaxRivals     \* how many drops and requests of others there are

ASSUME TasksAssumption == IsFiniteSet(Tasks) /\ None \notin Tasks

ASSUME IdsAssumption == IdOrder \in [Tasks -> Int] /\ IsInjective(IdOrder)

ASSUME RequestsAssumption == Own # Rival /\ MaxDrops \in Nat /\ MaxRivals \in Nat

VARIABLES
  order, requests,           \* of the server; see OrderedBoard
  cache,                  \* the Tasks that the browser knows, with their places
  move,                   \* the move that the browser waits for
  before,                 \* what its refusal restores
  drops, rivals

kanbanVars == <<order, requests, cache, move, before, drops, rivals>>

Board == INSTANCE OrderedBoard WITH Requests <- {Own, Rival}, asked <- requests

NoMove == [at |-> "none"]

-----------------------------------------------------------------------------
Place(c, p) == [col |-> c, pos |-> p]

\* findIndex: from 0, or -1.
IndexOf(s, t) == IF t \in ToSet(s) THEN (CHOOSE i \in DOMAIN s : s[i] = t) - 1 ELSE -1

\* What GET /api/tasks answers of a board.
PlacesOf(board) ==
  [t \in UNION {ToSet(board[c]) : c \in Columns} |->
     LET c == CHOOSE d \in Columns : t \in ToSet(board[d])
     IN Place(c, IndexOf(board[c], t))]

\* By position, and by id while two Tasks are believed at one.
Precedes(places, t, u) ==
  \/ places[t].pos < places[u].pos
  \/ places[t].pos = places[u].pos /\ IdOrder[t] < IdOrder[u]

Within(places, c) == {t \in DOMAIN places : places[t].col = c}

Above(places, c, t) == {u \in Within(places, c) : Precedes(places, u, t)}

groupTasks(places) ==
  [c \in Columns |->
     [i \in 1 .. Cardinality(Within(places, c)) |->
        CHOOSE t \in Within(places, c) : Cardinality(Above(places, c, t)) = i - 1]]

Numbered(s, c) == [t \in ToSet(s) |-> Place(c, IndexOf(s, t))]

\* splice: an index past the end is the end.
Spliced(s, i, t) == InsertAt(s, (IF i < Len(s) THEN i ELSE Len(s)) + 1, t)

Over(new, old) == [t \in DOMAIN new \cup DOMAIN old |-> IF t \in DOMAIN new THEN new[t] ELSE old[t]]

\* Mutant: the Task is left in the list that it is inserted in.
KeptInSource(places, t, c, i) ==
  Over(Numbered(Spliced(groupTasks(places)[c], i, t), c), places)

optimisticallyMove(places, t, c, i) ==
  LET grouped == groupTasks(places)
      from == places[t].col
      source == RemoveAt(grouped[from], IndexOf(grouped[from], t) + 1)
      target == Spliced(IF c = from THEN source ELSE grouped[c], i, t)
  IN Over(Numbered(target, c),
          IF c = from THEN places ELSE Over(Numbered(source, from), places))

\* A drop is over a Column, below its Tasks, or over a Task: its upper or its
\* lower half, or by the keyboard.
Halves == {"upper", "lower", "keyboard"}

\* Mutant: the gap that the dragged Task leaves above is not counted.
IndexInList(places, t, u, half) ==
  IndexOf(groupTasks(places)[places[u].col], u) + IF half = "lower" THEN 1 ELSE 0

\* handleDragEnd: the index that is asked for when t is dropped over u.
IndexOver(places, t, u, half) ==
  LET over == IndexOf(groupTasks(places)[places[u].col], u)
      wanted == over + IF half = "lower" THEN 1 ELSE 0
      source == IndexOf(groupTasks(places)[places[t].col], t)
  IN IF half # "keyboard" /\ places[t].col = places[u].col /\ source < wanted
     THEN wanted - 1 ELSE wanted

-----------------------------------------------------------------------------
Boards == {b \in [Columns -> {s \in SeqOf(Tasks, Cardinality(Tasks)) : IsInjective(s)}] :
             \A c, d \in Columns : c # d => ToSet(b[c]) \cap ToSet(b[d]) = {}}

KanbanInit ==
  /\ order \in Boards
  /\ requests = [r \in {Own, Rival} |-> Board!Nothing]
  /\ cache = PlacesOf(order)
  /\ move = NoMove /\ before = <<>> /\ drops = 0 /\ rivals = 0

\* moveTask.mutate, with the drop it answers to.
SendMove(t, c, i, drop) ==
  /\ move.at = "none" /\ drops < MaxDrops /\ drops' = drops + 1
  /\ ~(cache[t].col = c /\ cache[t].pos = i)
  /\ move' = [at |-> "sent", task |-> t, drop |-> drop, seen |-> groupTasks(cache),
              shown |-> groupTasks(optimisticallyMove(cache, t, c, i))]
  /\ before' = cache
  /\ cache' = optimisticallyMove(cache, t, c, i)
  /\ requests' = [requests EXCEPT ![Own] = [kind |-> "move", task |-> t, col |-> c, idx |-> i]]
  /\ UNCHANGED <<order, rivals>>

DropOnColumn(t, c) ==
  SendMove(t, c, Len(groupTasks(cache)[c]), [over |-> None, half |-> "none", own |-> cache[t].col = c])

DropOnTask(t, u, half) ==
  SendMove(t, cache[u].col, IndexOver(cache, t, u, half),
       [over |-> u, half |-> half, own |-> cache[t].col = cache[u].col])

Possible(q) ==
  /\ q.task \in Board!Placed
  /\ q.kind = "move" => q.idx <= Len(Board!Without(q.task)[q.col])

\* The server does what was asked if it can, and answers the moved Task.
ServeMove ==
  LET q == requests[Own]
  IN /\ move.at = "sent"
     /\ IF Possible(q) THEN Board!TakeEffect(Own) ELSE Board!Refuse(Own)
     /\ move' = [at |-> IF Possible(q) THEN "done" ELSE "refused", task |-> move.task,
                 drop |-> move.drop, seen |-> move.seen, shown |-> move.shown,
                 found |-> order, made |-> order']
     /\ UNCHANGED <<cache, before, drops, rivals>>

\* onSuccess and onError.  onSettled then invalidates the list.
MoveSucceeds ==
  /\ move.at = "done"
  /\ cache' = IF move.task \in DOMAIN cache
              THEN [cache EXCEPT ![move.task] = PlacesOf(move.made)[move.task]] ELSE cache
  /\ move' = NoMove /\ before' = <<>>
  /\ UNCHANGED <<order, requests, drops, rivals>>

MoveFails ==
  /\ move.at \in {"sent", "done", "refused"}
  /\ cache' = before
  /\ move' = NoMove /\ before' = <<>>
  /\ requests' = [requests EXCEPT ![Own] = Board!Nothing]
  /\ UNCHANGED <<order, drops, rivals>>

RefetchBoard ==
  /\ cache' = PlacesOf(order)
  /\ UNCHANGED <<order, requests, move, before, drops, rivals>>

\* Other browsers create, move and delete Tasks.
RivalAsks ==
  /\ requests[Rival] = Board!Nothing /\ rivals < MaxRivals
  /\ rivals' = rivals + 1
  /\ \E kind \in {"create", "move", "remove"}, t \in Tasks, c \in Columns, i \in 0..Cardinality(Tasks) :
       /\ (kind = "create") = (t \notin Board!Placed)
       /\ kind = "move" \/ i = 0
       /\ requests' = [requests EXCEPT ![Rival] = [kind |-> kind, task |-> t, col |-> c, idx |-> i]]
  /\ UNCHANGED <<order, cache, move, before, drops>>

RivalTakesEffect ==
  /\ Board!TakeEffect(Rival) \/ Board!Refuse(Rival)
  /\ UNCHANGED <<cache, move, before, drops, rivals>>

KanbanNext ==
  \/ \E t \in DOMAIN cache :
       \/ \E c \in Columns : DropOnColumn(t, c)
       \/ \E u \in DOMAIN cache, half \in Halves : DropOnTask(t, u, half)
  \/ ServeMove \/ MoveSucceeds \/ MoveFails \/ RefetchBoard \/ RivalAsks \/ RivalTakesEffect

KanbanSpec == KanbanInit /\ [][KanbanNext]_kanbanVars

-----------------------------------------------------------------------------
\* Next to the Task it was dropped on, on the side of the half; at its place by
\* the keyboard; or last in the Column.
Lands(m, board) ==
  \E c \in Columns :
    LET s == board[c]
        i == IndexOf(s, m.task)
    IN /\ i >= 0
       /\ IF m.drop.over = m.task
          THEN i = IndexOf(m.seen[c], m.task)
          ELSE /\ m.drop.half = "none" => i = Len(s) - 1
               /\ m.drop.half = "upper" => i + 1 = IndexOf(s, m.drop.over)
               /\ m.drop.half = "lower" => i - 1 = IndexOf(s, m.drop.over)
               /\ m.drop.half = "keyboard" => i = IndexOf(m.seen[c], m.drop.over)

\* A drop shows the dragged Task where it was dropped, and unless somebody else
\* has changed the board meanwhile the server makes exactly the board that was
\* shown: the index arithmetic of the drop, of the preview and of the server
\* agree.  It refuses only a drop on the empty part of the Task's own Column.
DropsLandWhereShown ==
  move.at # "none" =>
    /\ Lands(move, move.shown)
    /\ move.at \in {"done", "refused"} /\ move.found = move.seen =>
         IF move.drop.half = "none" /\ move.drop.own
         THEN move.at = "refused"
         ELSE move.at = "done" /\ move.made = move.shown
=============================================================================
