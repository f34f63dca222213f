---------------------------- MODULE MCDiscussion ----------------------------
(***************************************************************************)
(* Discussion on small instances.  A behaviour either leaves the assignee  *)
(* alone, and has two comments, or it has one comment.                     *)
(***************************************************************************)
EXTENDS Discussion, TLC

CONSTANTS u1, u2

VARIABLE thread          \* there may be two comments

MCModerators == {u1}

\* Ids are opaque.  The first user reports the Task and may delete any comment.
Ids == Permutations(Comments) \cup Permutations(Texts) \cup Permutations(Requests)

Bounded ==
  IF thread THEN \A r \in Requests : req[r].kind # "update"
  ELSE Cardinality({c \in Comments : comment[c] # NoComment}) <= 1

DiscussionInit == Init /\ thread \in BOOLEAN

DiscussionNext == Next /\ UNCHANGED thread /\ Bounded'

DiscussionSpec == DiscussionInit /\ [][DiscussionNext]_<<vars, thread>>
=============================================================================
