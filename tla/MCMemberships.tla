--------------------------- MODULE MCMemberships ----------------------------
(***************************************************************************)
(* Memberships and its history on a small instance.                        *)
(***************************************************************************)
EXTENDS MembershipsHistory, TLC

CONSTANTS o1, o2, p3

\* p3 belongs to the second organization, if there is one.
MCOrganizationOf == [p \in Projects |-> IF p = p3 THEN o2 ELSE o1]

Ids == Permutations(Users) \cup Permutations(Requests)
=============================================================================
