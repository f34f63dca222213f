---------------------------- MODULE MCWebClient ----------------------------
(***************************************************************************)
(* ClientCache, KanbanMove and Drafts on small instances.  A move and a    *)
(* save take the cached Tasks as they find them, whatever ClientCache does *)
(* to them in between (RefetchBoard, RefetchRow), so that a behaviour runs *)
(* one of the three while the others rest.                                 *)
(***************************************************************************)
EXTENDS ClientCache, KanbanMove, Drafts, TLC

VARIABLE part            \* the one that runs

clientVars == <<cacheVars, kanbanVars, draftVars, part>>

MCIdOrder == [t \in Tasks |-> t]

ColumnIds == Permutations(Columns)

SomeChange == Traits("createOrganization", "organizations", FALSE)

CacheRests ==
  /\ inScope = FALSE /\ socket = FALSE
  /\ change = [c \in Changes |-> SomeChange]
  /\ CacheInit

KanbanRests == order = [c \in Columns |-> <<>>] /\ KanbanInit

DraftsRest ==
  /\ kind = "task" /\ row = CHOOSE r \in Rows : TRUE
  /\ DraftsInit

WebClientInit ==
  \/ part = "cache" /\ CacheInit /\ KanbanRests /\ DraftsRest
  \/ part = "board" /\ KanbanInit /\ CacheRests /\ DraftsRest
  \/ part = "drafts" /\ DraftsInit /\ CacheRests /\ KanbanRests

WebClientNext ==
  /\ UNCHANGED part
  /\ \/ part = "cache" /\ CacheNext /\ UNCHANGED <<kanbanVars, draftVars>>
     \/ part = "board" /\ KanbanNext /\ UNCHANGED <<cacheVars, draftVars>>
     \/ part = "drafts" /\ DraftsNext /\ UNCHANGED <<cacheVars, kanbanVars>>

WebClientSpec == WebClientInit /\ [][WebClientNext]_clientVars
=============================================================================
