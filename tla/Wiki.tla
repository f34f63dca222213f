-------------------------------- MODULE Wiki --------------------------------
(***************************************************************************)
(* The documentation pages of projects: WikiService, statement by          *)
(* statement.  Pages of a project form a forest of at most MaxDepth        *)
(* levels, and siblings are numbered.  No unique index and no constraint   *)
(* but a foreign key to the parent guard it: all rests on the lock on the  *)
(* Project row, on the walk from the new parent to its root, and on three  *)
(* updates that shift positions.                                           *)
(*                                                                         *)
(* Titles, contents, users and activities are left out: they do not meet   *)
(* with the tree.  Fail stands for whatever refuses a request besides.     *)
(***************************************************************************)
EXTENDS Integers, FiniteSets, RowLocks

CONSTANTS
  Projects,
  Pages,                 \* the ids of Wiki rows
  MaxDepth,              \* WIKI_MAX_DEPTH
  Requests               \* the requests that can be open at the same time

ASSUME MaxDepthAssumption == MaxDepth \in Nat \ {0}

ASSUME PagesAssumption == IsFiniteSet(Pages)

ASSUME WikiNoneAssumption == None \notin Projects \cup Pages \cup Requests

Kinds == {"create", "update", "move", "remove"}

PCs == {"idle", "lockProject", "lockPage", "walk", "insert", "edit", "height", "index",
        "closeGap", "openGap", "place", "children", "delete", "commit"}

VARIABLES
  page,                  \* page[p]: the committed row, or NoPage
  work,                  \* work[r]: the rows request r has written
  pc,                    \* pc[r]: its next statement
  req,                   \* req[r]: what it is asked
  walk,                  \* walk[r]: the ancestor it looks at next, and the depth so far
  current                \* current[r]: the row of its page as lockPage has read it

vars == <<page, work, pc, req, walk, current, holder, sharers>>

Row == [project : Projects, parent : Pages \cup {None}, position : Nat]
NoPage == [project |-> None, parent |-> None, position |-> 0]

Request == [kind : Kinds, project : Projects, page : Pages \cup {None},
            parent : Pages \cup {None}, index : Nat]
NoRequest == [kind |-> None, project |-> None, page |-> None, parent |-> None, index |-> 0]

NoWalk == [cursor |-> None, depth |-> 0]

LockRows == ({"Project"} \X Projects) \cup ({"Page"} \X Pages)

Empty == [p \in {} |-> NoPage]

Stored == {p \in Pages : page[p] # NoPage}

-----------------------------------------------------------------------------
(* What a transaction reads and writes.                                    *)

\* The table a statement of r sees: its own writes over what is committed.
Seen(r) == [p \in Pages |-> IF p \in DOMAIN work[r] THEN work[r][p] ELSE page[p]]

Siblings(table, j, parent) ==
  {p \in Pages : table[p] # NoPage /\ table[p].project = j /\ table[p].parent = parent}

ChildrenOf(table, S) == {p \in Pages : table[p].parent \in S}

\* The number of levels from the pages of S down.
HeightOf(table, S) ==
  LET height[level \in SUBSET Pages] ==
        IF ChildrenOf(table, level) = {} THEN 1 ELSE 1 + height[ChildrenOf(table, level)]
  IN  height[S]

\* Mutant: the -1 of no siblings is taken for the next position.
NextPositionOfNone(P) == IF P = {} THEN -1 ELSE (CHOOSE m \in P : \A n \in P : n <= m) + 1

\* max(position), or -1 for no row, plus 1.
NextPosition(P) == IF P = {} THEN 0 ELSE (CHOOSE m \in P : \A n \in P : n <= m) + 1

\* One statement of r writes rows.
Write(r, rows) ==
  work' = [work EXCEPT ![r] = [p \in DOMAIN work[r] \cup DOMAIN rows |->
                                 IF p \in DOMAIN rows THEN rows[p] ELSE work[r][p]]]

Goto(r, next) == pc' = [pc EXCEPT ![r] = next]

End(r) ==
  /\ ReleaseLocks(r)
  /\ Goto(r, "idle")
  /\ work' = [work EXCEPT ![r] = Empty]
  /\ req' = [req EXCEPT ![r] = NoRequest]
  /\ walk' = [walk EXCEPT ![r] = NoWalk]
  /\ current' = [current EXCEPT ![r] = NoPage]

Rollback(r) == End(r) /\ UNCHANGED page

\* A statement only reads, and the request goes on or is refused.
Check(r, allowed, next) ==
  IF allowed
  THEN Goto(r, next) /\ UNCHANGED <<page, work, req, walk, current, holder, sharers>>
  ELSE Rollback(r)

-----------------------------------------------------------------------------
\* A request arrives; what it names exists, in whatever project, and may be
\* gone later.
Begin(r) ==
  /\ pc[r] = "idle"
  /\ \E kind \in Kinds, j \in Projects :
     \E p \in IF kind = "create" THEN {None} ELSE Stored,
        parent \in IF kind \in {"create", "move"} THEN Stored \cup {None} ELSE {None},
        i \in IF kind = "move" THEN 0 .. Cardinality(Stored) ELSE {0} :
       req' = [req EXCEPT ![r] = [kind |-> kind, project |-> j, page |-> p,
                                  parent |-> parent, index |-> i]]
  /\ Goto(r, "lockProject")
  /\ UNCHANGED <<page, work, walk, current, holder, sharers>>

\* What comes after the locks.
FirstCheck(kind) ==
  CASE kind = "update" -> "edit"
    [] kind = "remove" -> "children"
    [] kind = "move" -> "walk"

\* Both walks start at the new parent.
StartWalk(r) == walk' = [walk EXCEPT ![r] = [cursor |-> req[r].parent, depth |-> 1]]

\* Mutant: the Project is read and not locked.
LockProjectNot(r) ==
  /\ pc[r] = "lockProject"
  /\ Goto(r, IF req[r].kind = "create" THEN "walk" ELSE "lockPage")
  /\ StartWalk(r)
  /\ UNCHANGED <<page, work, req, current, holder, sharers>>

\* SELECT ... FROM "Project" ... FOR UPDATE, after the check of the access.
LockProject(r) ==
  /\ pc[r] = "lockProject"
  /\ ForUpdate(r, {<<"Project", req[r].project>>})
  /\ Goto(r, IF req[r].kind = "create" THEN "walk" ELSE "lockPage")
  /\ StartWalk(r)
  /\ UNCHANGED <<page, work, req, current, sharers>>

\* SELECT ... FROM "Wiki" ... FOR UPDATE: 404 in another project, 400 for a
\* page that is to be its own parent.
LockPage(r) ==
  LET p == req[r].page IN
  /\ pc[r] = "lockPage"
  /\ CanForUpdate(r, <<"Page", p>>)
  /\ IF p \in Stored /\ page[p].project = req[r].project /\ req[r].parent # p
     THEN /\ ForUpdate(r, {<<"Page", p>>})
          /\ current' = [current EXCEPT ![r] = page[p]]
          /\ Goto(r, FirstCheck(req[r].kind))
          /\ UNCHANGED <<page, work, req, walk, sharers>>
     ELSE Rollback(r)

\* One more ancestor: 404 when it is not in the project; 400 for a creation
\* that gets too deep, and for a move below the page itself.
Ascend(r) ==
  LET c == walk[r].cursor
      d == walk[r].depth + 1
  IN
  /\ pc[r] = "walk" /\ c # None
  /\ IF /\ c \in Stored /\ page[c].project = req[r].project
        /\ IF req[r].kind = "create" THEN d <= MaxDepth ELSE c # req[r].page
     THEN /\ walk' = [walk EXCEPT ![r] = [cursor |-> page[c].parent, depth |-> d]]
          /\ UNCHANGED <<page, work, pc, req, current, holder, sharers>>
     ELSE Rollback(r)

ReachRoot(r) ==
  /\ pc[r] = "walk" /\ walk[r].cursor = None
  /\ Goto(r, IF req[r].kind = "create" THEN "insert" ELSE "height")
  /\ UNCHANGED <<page, work, req, walk, current, holder, sharers>>

-----------------------------------------------------------------------------
(* create, update, remove.                                                 *)

\* A new row, after its siblings.  The id is fresh, and the parent has to exist.
InsertPage(r) ==
  /\ pc[r] = "insert"
  /\ \E p \in Pages \ Stored :
       /\ \A q \in Requests : p \notin {req[q].page, req[q].parent} \cup DOMAIN work[q]
       /\ LET j == req[r].project
              parent == req[r].parent
              taken == {page[q].position : q \in Siblings(page, j, parent)}
          IN  IF parent \in Stored \cup {None}
              THEN /\ Write(r, [q \in {p} |-> [project |-> j, parent |-> parent,
                                                   position |-> NextPosition(taken)]])
                   /\ Goto(r, "commit")
                   /\ UNCHANGED <<page, req, walk, current, holder, sharers>>
              ELSE Rollback(r)

\* Title and content change, nothing else.
EditPage(r) == pc[r] = "edit" /\ Check(r, TRUE, "commit")

\* 409 for a page with children.
CountChildren(r) ==
  pc[r] = "children" /\ Check(r, ChildrenOf(page, {req[r].page}) = {}, "delete")

\* ON DELETE RESTRICT would stop it, too.
DeletePage(r) ==
  /\ pc[r] = "delete"
  /\ IF ChildrenOf(Seen(r), {req[r].page}) = {}
     THEN /\ Write(r, [p \in {req[r].page} |-> NoPage])
          /\ Goto(r, "closeGap")
          /\ UNCHANGED <<page, req, walk, current, holder, sharers>>
     ELSE Rollback(r)

-----------------------------------------------------------------------------
(* move.                                                                   *)

\* Mutant: the pages below the moved one are not counted.
CheckOwnDepth(r) == pc[r] = "height" /\ Check(r, walk[r].depth <= MaxDepth, "index")

\* The page takes everything below it along: 400 when that gets too deep.
CheckHeight(r) ==
  /\ pc[r] = "height"
  /\ Check(r, walk[r].depth + HeightOf(page, {req[r].page}) - 1 <= MaxDepth, "index")

\* 400 for an index behind the end; nothing to do for the place it has.
CheckIndex(r) ==
  LET others == Siblings(page, req[r].project, req[r].parent) \ {req[r].page}
      unmoved == current[r].parent = req[r].parent /\ current[r].position = req[r].index
  IN  /\ pc[r] = "index"
      /\ Check(r, req[r].index <= Cardinality(others), IF unmoved THEN "commit" ELSE "closeGap")

\* The siblings behind the old place move up.
CloseGap(r) ==
  LET behind == {p \in Siblings(Seen(r), req[r].project, current[r].parent) :
                   Seen(r)[p].position > current[r].position}
  IN  /\ pc[r] = "closeGap"
      /\ Write(r, [p \in behind |-> [Seen(r)[p] EXCEPT !.position = @ - 1]])
      /\ Goto(r, IF req[r].kind = "move" THEN "openGap" ELSE "commit")
      /\ UNCHANGED <<page, req, walk, current, holder, sharers>>

\* Mutant: the sibling at the new place itself stays.
OpenGapBehind(r) ==
  LET behind == {p \in Siblings(Seen(r), req[r].project, req[r].parent) \ {req[r].page} :
                   Seen(r)[p].position > req[r].index}
  IN  /\ pc[r] = "openGap"
      /\ Write(r, [p \in behind |-> [Seen(r)[p] EXCEPT !.position = @ + 1]])
      /\ Goto(r, "place")
      /\ UNCHANGED <<page, req, walk, current, holder, sharers>>

\* The siblings at and behind the new place move down.
OpenGap(r) ==
  LET behind == {p \in Siblings(Seen(r), req[r].project, req[r].parent) \ {req[r].page} :
                   Seen(r)[p].position >= req[r].index}
  IN  /\ pc[r] = "openGap"
      /\ Write(r, [p \in behind |-> [Seen(r)[p] EXCEPT !.position = @ + 1]])
      /\ Goto(r, "place")
      /\ UNCHANGED <<page, req, walk, current, holder, sharers>>

Place(r) ==
  /\ pc[r] = "place"
  /\ Write(r, [p \in {req[r].page} |->
              [Seen(r)[p] EXCEPT !.parent = req[r].parent, !.position = req[r].index]])
  /\ Goto(r, "commit")
  /\ UNCHANGED <<page, req, walk, current, holder, sharers>>

-----------------------------------------------------------------------------
Commit(r) == pc[r] = "commit" /\ page' = Seen(r) /\ End(r)

\* Access or authority is missing, a statement fails, or the process goes away.
Fail(r) == pc[r] # "idle" /\ Rollback(r)

Init ==
  /\ page = [p \in Pages |-> NoPage]
  /\ work = [r \in Requests |-> Empty]
  /\ pc = [r \in Requests |-> "idle"]
  /\ req = [r \in Requests |-> NoRequest]
  /\ walk = [r \in Requests |-> NoWalk]
  /\ current = [r \in Requests |-> NoPage]
  /\ LocksInit(LockRows)

\* What an open request does next.
Step(r) ==
  \/ LockProject(r)
  \/ LockPage(r)
  \/ Ascend(r)
  \/ ReachRoot(r)
  \/ InsertPage(r)
  \/ EditPage(r)
  \/ CountChildren(r)
  \/ DeletePage(r)
  \/ CheckHeight(r)
  \/ CheckIndex(r)
  \/ CloseGap(r)
  \/ OpenGap(r)
  \/ Place(r)
  \/ Commit(r)

Next == \E r \in Requests : Begin(r) \/ Step(r) \/ Fail(r)

Spec == Init /\ [][Next]_vars

-----------------------------------------------------------------------------
TypeOK ==
  /\ page \in [Pages -> Row \cup {NoPage}]
  /\ work \in [Requests -> UNION {[S -> Row \cup {NoPage}] : S \in SUBSET Pages}]
  /\ pc \in [Requests -> PCs]
  /\ req \in [Requests -> Request \cup {NoRequest}]
  /\ walk \in [Requests -> [cursor : Pages \cup {None}, depth : Nat]]
  /\ current \in [Requests -> Row \cup {NoPage}]
  /\ LocksTypeOK(LockRows, Requests)

\* Whatever moves overlap, the pages of a project form a forest of at most
\* MaxDepth levels: no cycle, no parent that is gone or of another project.
PagesFormForest ==
  \E level \in [Stored -> 1 .. MaxDepth] :
    \A p \in Stored :
      LET parent == page[p].parent IN
      IF parent = None
      THEN level[p] = 1
      ELSE /\ parent \in Stored
           /\ page[parent].project = page[p].project
           /\ level[p] = level[parent] + 1

\* "Dense integer positions are normalized after moves and deletions"
\* (docs/wiki.md): siblings are numbered 0 .. n-1.
SiblingsDense ==
  \A j \in Projects, parent \in Stored \cup {None} :
    LET group == Siblings(page, j, parent)
    IN  {page[p].position : p \in group} = 0 .. Cardinality(group) - 1

Before(table, p, q) ==
  /\ table[p].project = table[q].project /\ table[p].parent = table[q].parent
  /\ table[p].position < table[q].position

Ahead(table, p) == Cardinality({q \in Pages : table[q] # NoPage /\ Before(table, q, p)})

\* A change does what was asked: a page appears behind its siblings, or is at
\* the index asked for below the parent asked for, or is gone; and all other
\* pages keep their parent and their order.
TakesEffect(r) ==
  LET request == req[r]
      subject == IF request.kind = "create" THEN Stored' \ Stored ELSE {request.page}
      others == Siblings(page, request.project, request.parent) \ subject
  IN  /\ \A p \in Stored \ subject :
           /\ page'[p].project = page[p].project /\ page'[p].parent = page[p].parent
           /\ \A q \in Stored \ subject : Before(page', p, q) <=> Before(page, p, q)
      /\ \A p \in subject :
           IF request.kind = "remove"
           THEN page'[p] = NoPage
           ELSE /\ page'[p].project = request.project /\ page'[p].parent = request.parent
                /\ Ahead(page', p)
                     = IF request.kind = "create" THEN Cardinality(others) ELSE request.index

ChangeStep ==
  page' # page => \E r \in Requests : pc[r] = "commit" /\ pc'[r] = "idle" /\ TakesEffect(r)

ChangesTakeEffect == [][ChangeStep]_vars
=============================================================================
