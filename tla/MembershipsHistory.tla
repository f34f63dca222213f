------------------------- MODULE MembershipsHistory -------------------------
(***************************************************************************)
(* Memberships with a history variable: entitled holds the open requests   *)
(* whose actor has had owner authority over the project at some moment     *)
(* since the request began.                                                *)
(***************************************************************************)
EXTENDS Memberships

VARIABLE entitled

Entitled ==
  {r \in Requests :
     /\ op[r].kind \in RosterKinds
     /\ \/ memberRole[OrganizationOf[op[r].proj]][op[r].actor] = "OWNER"
        \/ projectRole[op[r].proj][op[r].actor] = "OWNER"}

HInit == Init /\ entitled = {}

HNext ==
  /\ Next
  /\ entitled' = (entitled \cap {r \in Requests : op'[r].kind # None}) \cup Entitled'

HSpec == HInit /\ [][HNext]_<<vars, entitled>>

\* The roster of a project is changed only by a user who has had owner
\* authority over it while the request was open, or leaves it themselves: no
\* interleaving with a demotion lets anyone else through.
RosterChangesEntitled ==
  [][\A p \in created :
       projectRole'[p] # projectRole[p]
       => \E r \in Requests :
            /\ op[r].proj = p /\ op'[r] # op[r]
            /\ \/ r \in entitled
               \/ op[r].role = None /\ op[r].user = op[r].actor]_<<vars, entitled>>
=============================================================================
