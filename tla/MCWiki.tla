------------------------------- MODULE MCWiki -------------------------------
(***************************************************************************)
(* Wiki on small instances.                                                *)
(***************************************************************************)
EXTENDS Wiki, TLC

\* Ids are opaque.
Ids == Permutations(Pages) \cup Permutations(Requests) \cup Permutations(Projects)
=============================================================================
