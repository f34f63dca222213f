--------------------------- MODULE BoardRefinement --------------------------
(***************************************************************************)
(* TaskBoard as an implementation of OrderedBoard: the sequences are those *)
(* that a reader of the committed Tasks gets, whatever transactions are    *)
(* open, and a request on Tasks is open from its start to its answer.      *)
(***************************************************************************)
EXTENDS TaskBoard, SequencesExt

\* ORDER BY position of the Tasks of Column c.
OrderIn(table, c) ==
  [i \in 1 .. Cardinality(In(table, c)) |->
     CHOOSE t \in In(table, c) : Rank(table, In(table, c), t) = i - 1]

\* What a request asks of the Tasks; the requests on Columns ask nothing.
AskedOf(r) ==
  IF op[r].kind \in TaskKinds
  THEN [kind |-> op[r].kind, task |-> op[r].task, col |-> op[r].col, idx |-> op[r].idx]
  ELSE [kind |-> None, task |-> None, col |-> None, idx |-> 0]

Board == INSTANCE OrderedBoard
           WITH order <- [c \in Columns |-> OrderIn(task, c)],
                asked <- [r \in Requests |-> AskedOf(r)]

\* Each of the concurrent requests has, between its start and its answer, the
\* effect it asked for in one atomic step on the sequences that readers see,
\* or none: no move is lost, applied to a stale order or seen half done.
ImplementsOrderedBoard == Board!Spec
=============================================================================
