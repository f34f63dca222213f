------------------------------ MODULE MCGithub ------------------------------
(***************************************************************************)
(* GithubSync and GithubAppFlow on small instances.  They share no row:    *)
(* a connection only looks up who owns an installation, which never        *)
(* changes (FlowsAreExclusive).  A behaviour therefore runs one of them,   *)
(* while the other rests.                                                  *)
(***************************************************************************)
EXTENDS GithubSync, GithubAppFlow, TLC

CONSTANTS g1, u1, u2, i1

VARIABLE half            \* the one that runs

MCRepositoryOf == [i \in Issues |-> g1]

MCAdministers == {u1, u2} \X {i1}

\* Ids are opaque.
Ids == Permutations(Projects) \cup Permutations(Connections) \cup Permutations(Tasks)
         \cup Permutations(Deliveries) \cup Permutations(Requests)

GithubInit == Init /\ AppInit /\ half \in {"sync", "app"}

GithubNext ==
  /\ UNCHANGED half
  /\ \/ half = "sync" /\ Next /\ UNCHANGED appVars
     \/ half = "app" /\ AppNext /\ UNCHANGED vars

GithubSpec == GithubInit /\ [][GithubNext]_<<vars, appVars, half>>
=============================================================================
