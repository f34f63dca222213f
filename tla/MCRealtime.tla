----------------------------- MODULE MCRealtime -----------------------------
(***************************************************************************)
(* Realtime and its history on small instances: one user, one socket.      *)
(***************************************************************************)
EXTENDS RealtimeHistory, TLC

CONSTANT u1

MCUserOf == [s \in Sockets |-> u1]

Ids == Permutations(Projects) \cup Permutations(Subscribes) \cup Permutations(Publications)
=============================================================================
