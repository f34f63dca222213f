---------------------------- MODULE MCTaskBoard -----------------------------
(***************************************************************************)
(* TaskBoard on a small instance, and as an implementation of OrderedBoard.*)
(***************************************************************************)
EXTENDS BoardRefinement

CONSTANTS p1, p2, c1, c2, c3

\* Two projects, so that a request can name a Column of the wrong one.
MCProjectOf == [c \in Columns |-> IF c = c3 THEN p2 ELSE p1]

\* The Columns that exist from the start; the others can be added.
MCStartPosition ==
  [c \in Columns |-> IF c = c2 THEN 1 ELSE IF c \in {c1, c3} THEN 0 ELSE None]

\* Ids are opaque: nothing depends on which Task or request is which.
Ids == Permutations(Tasks) \cup Permutations(Requests)
=============================================================================
