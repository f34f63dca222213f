--------------------------- MODULE MCTimeTracking ---------------------------
(***************************************************************************)
(* TimeTracking on a small instance.                                       *)
(***************************************************************************)
EXTENDS TimeTracking, TLC

\* Ids are opaque.
Ids == Permutations(Users) \cup Permutations(Tasks) \cup Permutations(Entries)
         \cup Permutations(Requests)
=============================================================================
