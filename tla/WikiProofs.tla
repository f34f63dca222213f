----------------------------- MODULE WikiProofs -----------------------------
(***************************************************************************)
(* Theorems about Wiki, for any sets of Projects, Pages and requests and   *)
(* any MaxDepth.                                                           *)
(*                                                                         *)
(* Good says what a request that has the lock on its Project knows about   *)
(* the Project's pages from statement to statement: the row of its page,   *)
(* what the walk has passed, that the page fits where it goes, and what    *)
(* the rows that it has written are.  Another request commits only pages   *)
(* of another Project meanwhile, which is nothing to Good.                 *)
(***************************************************************************)
EXTENDS Wiki, FiniteSetTheorems, NaturalsInduction, TLAPS

-----------------------------------------------------------------------------
(* The inductive invariant: at, rq, w, wk and cur stand for pc[r], req[r], *)
(* walk[r], work[r] and current[r].                                        *)

Table == [Pages -> Row \cup {NoPage}]

LevelMaps == [Pages -> Nat]

\* level numbers the levels of project j.
Levels(level, t, j) ==
  \A p \in Pages :
    t[p].project = j =>
      /\ level[p] \in 1 .. MaxDepth
      /\ IF t[p].parent = None
         THEN level[p] = 1
         ELSE t[t[p].parent].project = j /\ level[p] = level[t[p].parent] + 1

Forest(t, j) == \E level \in LevelMaps : Levels(level, t, j)

Positions(t, P) == {t[p].position : p \in P}

Dense(t, j, parent) ==
  Positions(t, Siblings(t, j, parent)) = 0 .. Cardinality(Siblings(t, j, parent)) - 1

\* The children of the pages of C are in C.
Closed(t, j, C) == \A x \in Pages : t[x].project = j /\ t[x].parent \in C => x \in C

\* p and everything below it.
Below(t, j, p) == {x \in Pages : \A C \in SUBSET Pages : p \in C /\ Closed(t, j, C) => x \in C}

DepthOf(level, p) == IF p = None THEN 0 ELSE level[p]

\* The statements that come after the lock on the page.
Past == PCs \ {"idle", "lockProject", "lockPage"}

\* Which kind of request comes to which statement.
Shape(at, rq) ==
  /\ at # "idle" => rq \in Request /\ (rq.kind # "create" => rq.page \in Pages)
  /\ at = "lockPage" => rq.kind # "create"
  /\ at = "walk" => rq.kind \in {"create", "move"}
  /\ at = "insert" => rq.kind = "create"
  /\ at = "edit" => rq.kind = "update"
  /\ at \in {"children", "delete"} => rq.kind = "remove"
  /\ at = "closeGap" => rq.kind \in {"remove", "move"}
  /\ at \in {"height", "index", "openGap", "place"} => rq.kind = "move"

\* The row that was read under the lock is still the row.
PageRead(t, at, rq, cur) ==
  at \in Past /\ rq.kind # "create" => t[rq.page] = cur /\ cur.project = rq.project

\* The walk has passed the pages of A, which do not hang on any other page than
\* the next one, and counted their levels.
Climbed(t, rq, w) ==
  /\ \E A \in SUBSET Pages :
       /\ rq.kind = "move" => rq.page \notin A
       /\ rq.parent \in A \cup {w.cursor}
       /\ \A a \in A : t[a].project = rq.project /\ t[a].parent \in A \cup {w.cursor}
  /\ \A level \in LevelMaps :
       Levels(level, t, rq.project) =>
         DepthOf(level, rq.parent) + 1 = w.depth + DepthOf(level, w.cursor)

Walked(t, at, rq, w) ==
  /\ at = "lockPage" => w = [cursor |-> rq.parent, depth |-> 1]
  /\ at \in Past /\ rq.kind \in {"create", "move"} =>
       /\ at # "walk" => w.cursor = None
       /\ Climbed(t, rq, w)
       /\ rq.kind = "create" => w.depth <= MaxDepth

\* A moved page fits where it goes, with everything below it.
Fits(t, rq, w) ==
  \A level \in LevelMaps :
    Levels(level, t, rq.project) =>
      \A x \in Below(t, rq.project, rq.page) : level[x] + w.depth <= MaxDepth + level[rq.page]

Others(t, rq) == Siblings(t, rq.project, rq.parent) \ {rq.page}

Childless(t, rq) == \A x \in Pages : t[x].project = rq.project => t[x].parent # rq.page

Checked(t, at, rq, w) ==
  /\ at \in {"index", "closeGap", "openGap", "place", "commit"} /\ rq.kind = "move" => Fits(t, rq, w)
  /\ at \in {"closeGap", "openGap", "place", "commit"} /\ rq.kind = "move" =>
       rq.index <= Cardinality(Others(t, rq))
  /\ at \in {"delete", "closeGap", "commit"} /\ rq.kind = "remove" => Childless(t, rq)

\* The row of page x when the gap of the old place is closed, and when the new
\* place is open.
ClosedGap(t, rq, cur, x) ==
  IF /\ x # rq.page /\ t[x].project = rq.project /\ t[x].parent = cur.parent
     /\ t[x].position > cur.position
  THEN [t[x] EXCEPT !.position = @ - 1]
  ELSE t[x]

OpenedGap(t, rq, cur, x) ==
  IF /\ x # rq.page /\ t[x].project = rq.project /\ t[x].parent = rq.parent
     /\ ClosedGap(t, rq, cur, x).position >= rq.index
  THEN [ClosedGap(t, rq, cur, x) EXCEPT !.position = @ + 1]
  ELSE ClosedGap(t, rq, cur, x)

Removed(t, rq, cur, x) == IF x = rq.page THEN NoPage ELSE ClosedGap(t, rq, cur, x)

Moved(t, rq, cur, x) ==
  IF x = rq.page
  THEN [t[x] EXCEPT !.parent = rq.parent, !.position = rq.index]
  ELSE OpenedGap(t, rq, cur, x)

Over(t, wk) == [p \in Pages |-> IF p \in DOMAIN wk THEN wk[p] ELSE t[p]]

Inserted(t, rq, wk, n) ==
  /\ t[n] = NoPage /\ DOMAIN wk = {n}
  /\ wk[n] = [project |-> rq.project, parent |-> rq.parent,
              position |-> NextPosition(Positions(t, Siblings(t, rq.project, rq.parent)))]

\* What a request has written, from statement to statement.
Writing(at, rq) ==
  \/ at \in {"openGap", "place"}
  \/ at = "closeGap" /\ rq.kind = "remove"
  \/ at = "commit" /\ rq.kind # "update"

Written(t, at, rq, wk, cur) ==
  /\ ~ Writing(at, rq) => wk = Empty
  /\ at = "closeGap" /\ rq.kind = "remove" => wk = [p \in {rq.page} |-> NoPage]
  /\ at = "openGap" => \A x \in Pages : Over(t, wk)[x] = ClosedGap(t, rq, cur, x)
  /\ at = "place" => \A x \in Pages : Over(t, wk)[x] = OpenedGap(t, rq, cur, x)
  /\ at = "commit" /\ rq.kind = "create" => \E n \in Pages : Inserted(t, rq, wk, n)
  /\ at = "commit" /\ rq.kind = "remove" =>
       \A x \in Pages : Over(t, wk)[x] = Removed(t, rq, cur, x)
  /\ at = "commit" /\ rq.kind = "move" =>
       \/ wk = Empty
       \/ \A x \in Pages : Over(t, wk)[x] = Moved(t, rq, cur, x)

\* ... only rows of its Project, and its own.
WritesOwn(t, at, rq, wk) ==
  at \in Past /\ rq.kind # "create" => \A x \in DOMAIN wk : t[x].project = rq.project

Good(t, at, rq, w, wk, cur) ==
  /\ Shape(at, rq)
  /\ PageRead(t, at, rq, cur)
  /\ Walked(t, at, rq, w)
  /\ Checked(t, at, rq, w)
  /\ Written(t, at, rq, wk, cur)
  /\ WritesOwn(t, at, rq, wk)

AllGood(r) == Good(page, pc[r], req[r], walk[r], work[r], current[r])

HasProject(r) ==
  pc[r] \notin {"idle", "lockProject"} => holder[<<"Project", req[r].project>>] = r

Disjoint == \A r, q \in Requests : r # q => DOMAIN work[r] \cap DOMAIN work[q] = {}

IInv ==
  /\ TypeOK
  /\ \A r \in Requests : AllGood(r) /\ HasProject(r)
  /\ Disjoint
  /\ \A j \in Projects : Forest(page, j) /\ \A parent \in Pages \cup {None} : Dense(page, j, parent)

-----------------------------------------------------------------------------
(* Rows and tables.                                                        *)

\* A row is of a Project, and what is no row is not.
LEMMA RowIs ==
  /\ NoPage.project = None /\ NoPage.parent = None /\ NoPage.position = 0
  /\ NoPage \notin Row /\ None \notin Projects /\ None \notin Pages
  /\ \A d \in Row : /\ d.project \in Projects /\ d.parent \in Pages \cup {None}
                    /\ d.position \in Nat
BY WikiNoneAssumption DEF NoPage, Row

\* What the rows of a table are, and the pages of a level with them.
LEMMA TableIs ==
  ASSUME NEW t \in Table
  PROVE  /\ \A x \in Pages : t[x] = NoPage \/ t[x] \in Row
         /\ \A x \in Pages : t[x].project \in Projects => t[x] # NoPage /\ t[x] \in Row
         /\ \A x \in Pages : t[x].parent \in Pages \cup {None} /\ t[x].position \in Nat
         /\ \A x \in Pages : t[x] # NoPage => t[x].project \in Projects
         /\ \A j \in Projects : \A parent :
              Siblings(t, j, parent)
                = {x \in Pages : t[x].project = j /\ t[x].parent = parent}
<1>1. \A x \in Pages : t[x] = NoPage \/ t[x] \in Row
  BY DEF Table
<1>2. /\ \A x \in Pages : t[x].project \in Projects => t[x] # NoPage /\ t[x] \in Row
      /\ \A x \in Pages : t[x].parent \in Pages \cup {None} /\ t[x].position \in Nat
      /\ \A x \in Pages : t[x] # NoPage => t[x].project \in Projects
  BY <1>1, RowIs
<1> QED
  BY <1>1, <1>2 DEF Siblings

\* The rows of project j are the same in t and u.
Same(t, u, j) == \A x \in Pages : t[x].project = j \/ u[x].project = j => u[x] = t[x]

\* The pages of a Project that is the same in two tables have the same siblings.
LEMMA SameSiblings ==
  ASSUME NEW t \in Table, NEW u \in Table, NEW j \in Projects, NEW parent, Same(t, u, j)
  PROVE  /\ Siblings(u, j, parent) = Siblings(t, j, parent)
         /\ Positions(u, Siblings(u, j, parent)) = Positions(t, Siblings(t, j, parent))
<1>1. Siblings(u, j, parent) = Siblings(t, j, parent)
  <2>1. /\ Siblings(t, j, parent) = {x \in Pages : t[x].project = j /\ t[x].parent = parent}
        /\ Siblings(u, j, parent) = {x \in Pages : u[x].project = j /\ u[x].parent = parent}
    BY TableIs
  <2> QED
    BY <2>1 DEF Same
<1>2. \A x \in Siblings(t, j, parent) : u[x].position = t[x].position
  BY TableIs DEF Same
<1> QED
  BY <1>1, <1>2 DEF Positions

\* ... the same levels,
LEMMA SameLevels ==
  ASSUME NEW t \in Table, NEW u \in Table, NEW j \in Projects, NEW level, Same(t, u, j)
  PROVE  Levels(level, u, j) <=> Levels(level, t, j)
BY TableIs DEF Same, Levels

\* ... and the same pages below them.
LEMMA SameBelow ==
  ASSUME NEW t \in Table, NEW u \in Table, NEW j \in Projects, NEW p, Same(t, u, j)
  PROVE  Below(u, j, p) = Below(t, j, p)
<1>1. ASSUME NEW C \in SUBSET Pages
      PROVE  Closed(u, j, C) <=> Closed(t, j, C)
  BY DEF Same, Closed
<1> QED
  BY <1>1 DEF Below

\* A request's knowledge of its Project's pages outlives what others commit to the
\* pages of other Projects.
LEMMA GoodStays ==
  ASSUME NEW t \in Table, NEW u \in Table, NEW at \in PCs, NEW rq, NEW w, NEW wk, NEW cur,
         Good(t, at, rq, w, wk, cur),
         at \in Past => Same(t, u, rq.project),
         DOMAIN wk \subseteq Pages, \A x \in DOMAIN wk : t[x] = NoPage => u[x] = NoPage
  PROVE  Good(u, at, rq, w, wk, cur)
<1>1. Shape(at, rq)
  BY DEF Good
<1>2. CASE at \notin Past
  <2>1. at \in {"idle", "lockProject", "lockPage"}
    BY <1>2 DEF Past
  <2> QED
    BY <2>1 DEF Good, PageRead, Walked, Checked, Written, Writing, WritesOwn, Past
<1>3. CASE at \in Past
  <2>1. rq \in Request /\ Same(t, u, rq.project) /\ rq.project \in Projects
    BY <1>1, <1>3 DEF Shape, Past, Request
  <2>2. PageRead(u, at, rq, cur)
    <3>1. ASSUME rq.kind # "create" PROVE u[rq.page] = cur /\ cur.project = rq.project
      <4>1. t[rq.page] = cur /\ cur.project = rq.project /\ rq.page \in Pages
        BY <1>1, <1>3, <3>1 DEF Good, PageRead, Shape, Past
      <4> QED
        BY <2>1, <4>1 DEF Same
    <3> QED
      BY <3>1 DEF PageRead
  <2>3. Walked(u, at, rq, w)
    <3>1. ASSUME Climbed(t, rq, w) PROVE Climbed(u, rq, w)
      <4>1. PICK A \in SUBSET Pages :
              /\ rq.kind = "move" => rq.page \notin A
              /\ rq.parent \in A \cup {w.cursor}
              /\ \A a \in A : t[a].project = rq.project /\ t[a].parent \in A \cup {w.cursor}
        BY <3>1 DEF Climbed
      <4>2. \A a \in A : u[a].project = rq.project /\ u[a].parent \in A \cup {w.cursor}
        BY <2>1, <4>1 DEF Same
      <4>3. \A level \in LevelMaps :
              Levels(level, u, rq.project) =>
                DepthOf(level, rq.parent) + 1 = w.depth + DepthOf(level, w.cursor)
        BY <2>1, <3>1, SameLevels DEF Climbed
      <4> QED
        BY <4>1, <4>2, <4>3 DEF Climbed
    <3> QED
      BY <1>3, <3>1 DEF Good, Walked, Past
  <2>4. Checked(u, at, rq, w)
    <3>1. Fits(t, rq, w) => Fits(u, rq, w)
      BY <2>1, SameLevels, SameBelow DEF Fits
    <3>2. Others(u, rq) = Others(t, rq)
      BY <2>1, SameSiblings DEF Others
    <3>3. Childless(t, rq) => Childless(u, rq)
      BY <2>1 DEF Childless, Same
    <3> QED
      BY <3>1, <3>2, <3>3 DEF Good, Checked
  <2>5. WritesOwn(u, at, rq, wk)
    <3>1. ASSUME rq.kind # "create", NEW x \in DOMAIN wk PROVE u[x].project = rq.project
      BY <1>3, <2>1, <3>1 DEF Good, WritesOwn, Same
    <3> QED
      BY <3>1 DEF WritesOwn
  <2>6. Written(u, at, rq, wk, cur)
    <3>1. ASSUME NEW x \in Pages
          PROVE  \/ u[x] = t[x] /\ t[x].project = rq.project
                 \/ t[x].project # rq.project /\ u[x].project # rq.project
      BY <2>1 DEF Same
    <3>2. \A x \in Pages : /\ Over(t, wk)[x] = IF x \in DOMAIN wk THEN wk[x] ELSE t[x]
                           /\ Over(u, wk)[x] = IF x \in DOMAIN wk THEN wk[x] ELSE u[x]
      BY DEF Over
    <3>3. ASSUME rq.kind # "create", NEW x \in Pages
          PROVE  /\ Over(t, wk)[x] = ClosedGap(t, rq, cur, x)
                      => Over(u, wk)[x] = ClosedGap(u, rq, cur, x)
                 /\ Over(t, wk)[x] = OpenedGap(t, rq, cur, x)
                      => Over(u, wk)[x] = OpenedGap(u, rq, cur, x)
                 /\ Over(t, wk)[x] = Removed(t, rq, cur, x)
                      => Over(u, wk)[x] = Removed(u, rq, cur, x)
                 /\ Over(t, wk)[x] = Moved(t, rq, cur, x)
                      => Over(u, wk)[x] = Moved(u, rq, cur, x)
      <4>1. x \in DOMAIN wk => t[x].project = rq.project
        BY <1>3, <3>3 DEF Good, WritesOwn
      <4>2. CASE u[x] = t[x] /\ t[x].project = rq.project
        <5>1. /\ ClosedGap(u, rq, cur, x) = ClosedGap(t, rq, cur, x)
              /\ Over(u, wk)[x] = Over(t, wk)[x]
          BY <3>2, <4>2 DEF ClosedGap
        <5>2. OpenedGap(u, rq, cur, x) = OpenedGap(t, rq, cur, x)
          BY <4>2, <5>1 DEF OpenedGap
        <5> QED
          BY <4>2, <5>1, <5>2 DEF Removed, Moved
      <4>3. CASE t[x].project # rq.project /\ u[x].project # rq.project
        <5>1. x # rq.page /\ x \notin DOMAIN wk
          BY <1>3, <3>3, <4>1, <4>3 DEF Good, PageRead
        <5>2. ClosedGap(u, rq, cur, x) = u[x] /\ Over(u, wk)[x] = u[x]
          BY <3>2, <4>3, <5>1 DEF ClosedGap
        <5>3. OpenedGap(u, rq, cur, x) = u[x]
          BY <4>3, <5>2 DEF OpenedGap
        <5> QED
          BY <5>1, <5>2, <5>3 DEF Removed, Moved
      <4> QED
        BY <3>1, <4>2, <4>3
    <3>4. ASSUME NEW n \in Pages, Inserted(t, rq, wk, n)
          PROVE  Inserted(u, rq, wk, n)
      <4>1. /\ t[n] = NoPage /\ DOMAIN wk = {n}
            /\ wk[n] = [project |-> rq.project, parent |-> rq.parent,
                        position |-> NextPosition(Positions(t, Siblings(t, rq.project, rq.parent)))]
        BY <3>4 DEF Inserted
      <4>2. u[n] = NoPage
        BY <4>1
      <4>3. Positions(u, Siblings(u, rq.project, rq.parent))
              = Positions(t, Siblings(t, rq.project, rq.parent))
        BY <2>1, SameSiblings
      <4> QED
        BY <4>1, <4>2, <4>3 DEF Inserted
    <3> QED
      BY <1>1, <3>3, <3>4 DEF Good, Written, Shape
  <2> QED
    BY <1>1, <2>2, <2>3, <2>4, <2>5, <2>6 DEF Good
<1> QED
  BY <1>2, <1>3

-----------------------------------------------------------------------------
(* Siblings as numberings.                                                 *)

\* The siblings are finitely many.
LEMMA GroupIsFinite ==
  ASSUME NEW t \in Table, NEW j \in Projects, NEW parent
  PROVE  /\ Siblings(t, j, parent) \subseteq Pages
         /\ IsFiniteSet(Siblings(t, j, parent))
         /\ Cardinality(Siblings(t, j, parent)) \in Nat
BY PagesAssumption, FS_Subset, FS_CardinalityType DEF Siblings

\* The pages of S have the positions 0 .. n-1 exactly when no two have the same and
\* all are below n.
LEMMA Numbering ==
  ASSUME NEW t \in Table, NEW S \in SUBSET Pages
  PROVE  Positions(t, S) = 0 .. Cardinality(S) - 1
           <=> /\ \A x \in S : t[x].position < Cardinality(S)
               /\ \A x, y \in S : t[x].position = t[y].position => x = y
<1> DEFINE n == Cardinality(S)
           T == 0 .. n - 1
           f == [x \in S |-> t[x].position]
<1>1. IsFiniteSet(S) /\ n \in Nat
  BY PagesAssumption, FS_Subset, FS_CardinalityType
<1>2. IsFiniteSet(T) /\ Cardinality(T) = n
  BY <1>1, FS_Interval
<1>3. \A x \in S : t[x].position \in Nat
  BY TableIs
<1>4. ASSUME Positions(t, S) = T
      PROVE  /\ \A x \in S : t[x].position < n
             /\ \A x, y \in S : t[x].position = t[y].position => x = y
  <2>1. \A x \in S : t[x].position \in T
    BY <1>4 DEF Positions
  <2>2. \A i \in T : \E x \in S : t[x].position = i
    BY <1>4 DEF Positions
  <2>3. f \in Surjection(S, T)
    BY <2>1, <2>2 DEF Surjection
  <2>4. f \in Injection(S, T)
    <3> HIDE DEF T, f, n
    <3>1. Cardinality(S) = Cardinality(T)
      BY <1>2 DEF n
    <3> QED
      BY <1>1, <2>3, <3>1, FS_SurjSameCardinalityImpliesInj
  <2>5. \A x, y \in S : f[x] = f[y] => x = y
    BY <2>4 DEF Injection, IsInjective
  <2>6. \A x \in S : t[x].position < n
    BY <1>1, <2>1
  <2> QED
    BY <2>5, <2>6
<1>5. ASSUME \A x \in S : t[x].position < n,
             \A x, y \in S : t[x].position = t[y].position => x = y
      PROVE  Positions(t, S) = T
  <2>1. \A x \in S : t[x].position \in T
    BY <1>1, <1>3, <1>5
  <2>2. f \in Injection(S, T)
    BY <1>5, <2>1 DEF Injection, IsInjective
  <2>3. f \in Surjection(S, T)
    <3> HIDE DEF T, f, n
    <3>1. Cardinality(S) = Cardinality(T)
      BY <1>2 DEF n
    <3> QED
      BY <1>1, <1>2, <2>2, <3>1, FS_Injection
  <2>4. \A i \in T : \E x \in S : f[x] = i
    BY <2>3 DEF Surjection
  <2> QED
    BY <2>1, <2>4 DEF Positions
<1> QED
  BY <1>4, <1>5

\* In a numbering, i pages are before the place i.
LEMMA PlacesBefore ==
  ASSUME NEW t \in Table, NEW S \in SUBSET Pages, Positions(t, S) = 0 .. Cardinality(S) - 1,
         NEW i \in Nat, i <= Cardinality(S)
  PROVE  Cardinality({x \in S : t[x].position < i}) = i
<1> DEFINE B == {x \in S : t[x].position < i}
           T == 0 .. i - 1
           f == [x \in B |-> t[x].position]
<1>1. /\ \A x \in S : t[x].position \in Nat
      /\ \A x, y \in S : t[x].position = t[y].position => x = y
  BY Numbering, TableIs
<1>2. IsFiniteSet(S) /\ IsFiniteSet(B) /\ Cardinality(S) \in Nat
  BY PagesAssumption, FS_Subset, FS_CardinalityType
<1>3. IsFiniteSet(T) /\ Cardinality(T) = i
  BY FS_Interval
<1>4. \A x \in B : t[x].position \in T
  BY <1>1
<1>5. \A k \in T : \E x \in B : t[x].position = k
  <2> TAKE k \in T
  <2>1. k \in 0 .. Cardinality(S) - 1 /\ k < i
    BY <1>2
  <2>2. PICK x \in S : t[x].position = k
    BY <2>1 DEF Positions
  <2> QED
    BY <2>1, <2>2
<1>6. f \in Bijection(B, T)
  BY <1>1, <1>4, <1>5 DEF Bijection, Injection, Surjection, IsInjective
<1> HIDE DEF B, T, f
<1>7. Cardinality(B) = Cardinality(T)
  BY <1>2, <1>3, <1>6, FS_Bijection DEF ExistsBijection
<1> QED
  BY <1>3, <1>7 DEF B

\* After 0 .. k-1 comes k.
LEMMA NextPositionOfInterval ==
  ASSUME NEW k \in Nat
  PROVE  NextPosition(0 .. k - 1) = k
<1>1. CASE k = 0
  BY <1>1 DEF NextPosition
<1>2. CASE k # 0
  <2> DEFINE M == CHOOSE m \in 0 .. k - 1 : \A p \in 0 .. k - 1 : p <= m
  <2>1. k - 1 \in 0 .. k - 1 /\ \A p \in 0 .. k - 1 : p <= k - 1
    BY <1>2
  <2>2. M \in 0 .. k - 1 /\ \A p \in 0 .. k - 1 : p <= M
    BY <2>1
  <2>3. NextPosition(0 .. k - 1) = M + 1
    BY <2>1 DEF NextPosition
  <2> HIDE DEF M
  <2> QED
    BY <1>2, <2>1, <2>2, <2>3
<1> QED
  BY <1>1, <1>2

\* Once the gap is closed, the places of the pages of S number them.
ClosedPlaces(t, rq, cur, S) ==
  /\ \A x \in S : /\ ClosedGap(t, rq, cur, x).position \in Nat
                  /\ ClosedGap(t, rq, cur, x).position < Cardinality(S)
  /\ \A x, y \in S :
       ClosedGap(t, rq, cur, x).position = ClosedGap(t, rq, cur, y).position => x = y

\* Closing a gap leaves a numbering of the pages that remain.
LEMMA ClosedNumbers ==
  ASSUME NEW t \in Table, NEW rq, NEW cur, rq.project \in Projects, rq.page \in Pages,
         t[rq.page] = cur, cur.project = rq.project,
         NEW parent, Dense(t, rq.project, parent),
         NEW S, S = Siblings(t, rq.project, parent) \ {rq.page}
  PROVE  ClosedPlaces(t, rq, cur, S)
<1> DEFINE G == Siblings(t, rq.project, parent)
           n == Cardinality(G)
           k == cur.position
           place(x) == ClosedGap(t, rq, cur, x).position
<1>0. S = G \ {rq.page}
  OBVIOUS
<1>1. /\ G \subseteq Pages /\ IsFiniteSet(G) /\ n \in Nat
      /\ \A x \in G : t[x].position \in Nat /\ t[x].position < n
      /\ \A x, y \in G : t[x].position = t[y].position => x = y
      /\ k \in Nat
  BY GroupIsFinite, Numbering, TableIs DEF Dense
<1>2. \A x \in G : t[x].project = rq.project /\ t[x].parent = parent /\ t[x] \in Row
  BY TableIs
<1>3. CASE parent = cur.parent
  <2>1. rq.page \in G /\ t[rq.page].position = k
    BY <1>3, TableIs
  <2>2. Cardinality(S) = n - 1
    <3> HIDE DEF G
    <3> QED
      BY <1>0, <1>1, <2>1, FS_RemoveElement
  <2>3. ASSUME NEW x \in S
        PROVE  /\ place(x) = IF t[x].position > k THEN t[x].position - 1 ELSE t[x].position
               /\ t[x].position # k
    <3>1. x \in G /\ x # rq.page /\ x \in Pages
      BY <1>1
    <3>2. t[x].position # k
      BY <1>1, <2>1, <3>1
    <3>3. CASE t[x].position > k
      <4>1. ClosedGap(t, rq, cur, x) = [t[x] EXCEPT !.position = @ - 1]
        BY <1>2, <1>3, <3>1, <3>3 DEF ClosedGap
      <4> QED
        BY <1>2, <3>1, <3>2, <3>3, <4>1 DEF Row
    <3>4. CASE ~ (t[x].position > k)
      BY <3>2, <3>4 DEF ClosedGap
    <3> QED
      BY <3>3, <3>4
  <2> HIDE DEF G, place, n, k
  <2>4. \A x \in S : place(x) \in Nat /\ place(x) < n - 1
    BY <1>0, <1>1, <2>1, <2>3
  <2>5. \A x, y \in S : place(x) = place(y) => x = y
    BY <1>0, <1>1, <2>3
  <2> QED
    BY <2>2, <2>4, <2>5 DEF place, ClosedPlaces
<1>4. CASE parent # cur.parent
  <2>1. rq.page \notin G /\ S = G
    BY <1>2, <1>4
  <2>2. \A x \in G : place(x) = t[x].position
    BY <1>2, <1>4 DEF ClosedGap
  <2>3. \A x \in S : place(x) \in Nat /\ place(x) < Cardinality(S)
    BY <1>1, <2>1, <2>2
  <2>4. \A x, y \in S : place(x) = place(y) => x = y
    BY <1>1, <2>1, <2>2
  <2> HIDE DEF G
  <2> QED
    BY <2>3, <2>4 DEF ClosedPlaces
<1> QED
  BY <1>3, <1>4

\* remove leaves every group of siblings numbered.
LEMMA RemovedIsDense ==
  ASSUME NEW t \in Table, NEW u \in Table, NEW rq, NEW cur, rq.project \in Projects,
         rq.page \in Pages, t[rq.page] = cur, cur.project = rq.project,
         \A x \in Pages : u[x] = Removed(t, rq, cur, x),
         NEW parent, Dense(t, rq.project, parent)
  PROVE  Dense(u, rq.project, parent)
<1> DEFINE S == Siblings(t, rq.project, parent) \ {rq.page}
<1>1. \A x \in Pages : t[x].project = rq.project => t[x] \in Row
  BY TableIs
<1>2. \A x \in Pages \ {rq.page} :
         /\ u[x].project = t[x].project /\ u[x].parent = t[x].parent
         /\ u[x].position = ClosedGap(t, rq, cur, x).position
  BY <1>1 DEF Removed, ClosedGap, Row
<1>3. u[rq.page].project # rq.project
  BY RowIs DEF Removed
<1>4. Siblings(u, rq.project, parent) = S
  <2>1. /\ Siblings(t, rq.project, parent)
             = {x \in Pages : t[x].project = rq.project /\ t[x].parent = parent}
        /\ Siblings(u, rq.project, parent)
             = {x \in Pages : u[x].project = rq.project /\ u[x].parent = parent}
    BY TableIs
  <2> QED
    BY <1>2, <1>3, <2>1
<1>5. S \in SUBSET Pages
  BY DEF Siblings
<1>6. /\ \A x \in S : u[x].position < Cardinality(S)
      /\ \A x, y \in S : u[x].position = u[y].position => x = y
  <2>1. /\ \A x \in S : ClosedGap(t, rq, cur, x).position < Cardinality(S)
        /\ \A x, y \in S :
             ClosedGap(t, rq, cur, x).position = ClosedGap(t, rq, cur, y).position => x = y
    <3>1. ClosedPlaces(t, rq, cur, S)
      BY ClosedNumbers
    <3> QED
      BY <3>1 DEF ClosedPlaces
  <2>2. \A x \in S : u[x].position = ClosedGap(t, rq, cur, x).position
    BY <1>2, <1>5
  <2> HIDE DEF S
  <2> QED
    BY <2>1, <2>2
<1> HIDE DEF S
<1>7. Positions(u, S) = 0 .. Cardinality(S) - 1
  BY <1>5, <1>6, Numbering
<1> QED
  BY <1>4, <1>7 DEF Dense

\* create does.
LEMMA InsertedIsDense ==
  ASSUME NEW t \in Table, NEW u \in Table, NEW rq, NEW wk, rq.project \in Projects,
         NEW n \in Pages, Inserted(t, rq, wk, n), u = Over(t, wk),
         NEW parent, Dense(t, rq.project, parent), Dense(t, rq.project, rq.parent)
  PROVE  /\ Dense(u, rq.project, parent)
         /\ u[n].position = Cardinality(Siblings(t, rq.project, rq.parent))
         /\ Siblings(u, rq.project, rq.parent) = Siblings(t, rq.project, rq.parent) \cup {n}
         /\ n \notin Siblings(t, rq.project, rq.parent)
<1> DEFINE S == Siblings(t, rq.project, parent)
           R == Siblings(t, rq.project, rq.parent)
<1>1. /\ \A x \in Pages \ {n} : u[x] = t[x]
      /\ u[n].project = rq.project /\ u[n].parent = rq.parent
      /\ u[n].position = NextPosition(Positions(t, R))
      /\ t[n].project # rq.project
  BY RowIs DEF Inserted, Over
<1>2. u[n].position = Cardinality(R)
  <2>1. Cardinality(R) \in Nat /\ Positions(t, R) = 0 .. Cardinality(R) - 1
    BY GroupIsFinite DEF Dense
  <2> HIDE DEF R
  <2> QED
    BY <1>1, <2>1, NextPositionOfInterval
<1>3. /\ Siblings(t, rq.project, parent)
           = {x \in Pages : t[x].project = rq.project /\ t[x].parent = parent}
      /\ Siblings(u, rq.project, parent)
           = {x \in Pages : u[x].project = rq.project /\ u[x].parent = parent}
      /\ Siblings(t, rq.project, rq.parent)
           = {x \in Pages : t[x].project = rq.project /\ t[x].parent = rq.parent}
      /\ Siblings(u, rq.project, rq.parent)
           = {x \in Pages : u[x].project = rq.project /\ u[x].parent = rq.parent}
  BY TableIs
<1>4. Siblings(u, rq.project, rq.parent) = R \cup {n} /\ n \notin R
  BY <1>1, <1>3
<1>5. CASE parent # rq.parent
  <2>1. Siblings(u, rq.project, parent) = S
    BY <1>1, <1>3, <1>5
  <2>2. \A x \in S : u[x].position = t[x].position
    BY <1>1, <1>3
  <2>3. Positions(u, S) = Positions(t, S)
    BY <2>2 DEF Positions
  <2> QED
    BY <1>2, <1>4, <2>1, <2>3 DEF Dense
<1>6. CASE parent = rq.parent
  <2>1. /\ IsFiniteSet(R) /\ Cardinality(R) \in Nat /\ R \in SUBSET Pages
        /\ \A x \in R : t[x].position < Cardinality(R) /\ t[x].position \in Nat
        /\ \A x, y \in R : t[x].position = t[y].position => x = y
    BY GroupIsFinite, Numbering, TableIs DEF Dense
  <2>2. \A x \in R : u[x].position = t[x].position
    BY <1>1, <1>3
  <2> HIDE DEF R
  <2>3. Cardinality(R \cup {n}) = Cardinality(R) + 1
    BY <1>4, <2>1, FS_AddElement
  <2>4. /\ \A x \in R \cup {n} : u[x].position < Cardinality(R \cup {n})
        /\ \A x, y \in R \cup {n} : u[x].position = u[y].position => x = y
    BY <1>2, <2>1, <2>2, <2>3
  <2>5. Positions(u, R \cup {n}) = 0 .. Cardinality(R \cup {n}) - 1
    BY <2>1, <2>4, Numbering
  <2> QED
    BY <1>2, <1>4, <1>6, <2>5 DEF Dense, R
<1> QED
  BY <1>5, <1>6

\* What is closed, and what is open, are rows of the same page.
LEMMA GapRows ==
  ASSUME NEW t \in Table, NEW rq, NEW cur, rq.project \in Projects, NEW x \in Pages
  PROVE  /\ ClosedGap(t, rq, cur, x).project = t[x].project
         /\ ClosedGap(t, rq, cur, x).parent = t[x].parent
         /\ OpenedGap(t, rq, cur, x).project = t[x].project
         /\ OpenedGap(t, rq, cur, x).parent = t[x].parent
         /\ OpenedGap(t, rq, cur, x).position =
              IF /\ x # rq.page /\ t[x].project = rq.project /\ t[x].parent = rq.parent
                 /\ ClosedGap(t, rq, cur, x).position >= rq.index
              THEN ClosedGap(t, rq, cur, x).position + 1
              ELSE ClosedGap(t, rq, cur, x).position
<1>1. t[x].project = rq.project => t[x] \in Row
  BY TableIs
<1>2. /\ ClosedGap(t, rq, cur, x).project = t[x].project
      /\ ClosedGap(t, rq, cur, x).parent = t[x].parent
      /\ t[x].project = rq.project =>
           ClosedGap(t, rq, cur, x) \in [project : Projects, parent : Pages \cup {None},
                                         position : Int]
  BY <1>1 DEF ClosedGap, Row
<1> QED
  BY <1>2 DEF OpenedGap

\* ... in which the pages of other Projects and groups stand as they stood.
LEMMA MovedRows ==
  ASSUME NEW t \in Table, NEW rq, NEW cur, rq.project \in Projects, rq.page \in Pages,
         t[rq.page] = cur, cur.project = rq.project,
         NEW u, \A x \in Pages : u[x] = Moved(t, rq, cur, x)
  PROVE  /\ u[rq.page].project = rq.project /\ u[rq.page].parent = rq.parent
         /\ u[rq.page].position = rq.index
         /\ \A x \in Pages \ {rq.page} :
              /\ u[x].project = t[x].project /\ u[x].parent = t[x].parent
              /\ u[x].position =
                   IF /\ t[x].project = rq.project /\ t[x].parent = rq.parent
                      /\ ClosedGap(t, rq, cur, x).position >= rq.index
                   THEN ClosedGap(t, rq, cur, x).position + 1
                   ELSE ClosedGap(t, rq, cur, x).position
<1>1. t[rq.page] \in Row
  BY TableIs
<1>2. u[rq.page] = [t[rq.page] EXCEPT !.parent = rq.parent, !.position = rq.index]
  BY DEF Moved
<1>3. /\ u[rq.page].project = rq.project /\ u[rq.page].parent = rq.parent
      /\ u[rq.page].position = rq.index
  BY <1>1, <1>2 DEF Row
<1>4. ASSUME NEW x \in Pages \ {rq.page}
      PROVE  u[x] = OpenedGap(t, rq, cur, x)
  BY DEF Moved
<1> QED
  BY <1>3, <1>4, GapRows

\* move leaves every group of siblings numbered.
LEMMA MovedIsDense ==
  ASSUME NEW t \in Table, NEW u \in Table, NEW rq, NEW cur, rq.project \in Projects,
         rq.page \in Pages, t[rq.page] = cur, cur.project = rq.project,
         rq.index \in Nat, rq.index <= Cardinality(Others(t, rq)),
         \A x \in Pages : u[x] = Moved(t, rq, cur, x),
         NEW parent, Dense(t, rq.project, parent)
  PROVE  Dense(u, rq.project, parent)
<1> DEFINE S == Siblings(t, rq.project, parent) \ {rq.page}
           place(x) == ClosedGap(t, rq, cur, x).position
<1>1. /\ u[rq.page].project = rq.project /\ u[rq.page].parent = rq.parent
      /\ u[rq.page].position = rq.index
      /\ \A x \in Pages \ {rq.page} :
           /\ u[x].project = t[x].project /\ u[x].parent = t[x].parent
           /\ u[x].position = IF /\ t[x].project = rq.project /\ t[x].parent = rq.parent
                                 /\ place(x) >= rq.index
                              THEN place(x) + 1
                              ELSE place(x)
  BY MovedRows
<1>2. /\ Siblings(t, rq.project, parent)
           = {x \in Pages : t[x].project = rq.project /\ t[x].parent = parent}
      /\ Siblings(u, rq.project, parent)
           = {x \in Pages : u[x].project = rq.project /\ u[x].parent = parent}
  BY TableIs
<1>3. \A x \in S : x \in Pages \ {rq.page} /\ t[x].project = rq.project /\ t[x].parent = parent
  BY <1>2
<1>4. /\ \A x \in S : place(x) \in Nat /\ place(x) < Cardinality(S)
      /\ \A x, y \in S : place(x) = place(y) => x = y
  <2>1. ClosedPlaces(t, rq, cur, S)
    BY ClosedNumbers
  <2> QED
    BY <2>1 DEF ClosedPlaces
<1>5. S \in SUBSET Pages /\ IsFiniteSet(S) /\ Cardinality(S) \in Nat
  BY PagesAssumption, FS_Subset, FS_CardinalityType DEF Siblings
<1>6. CASE parent # rq.parent
  <2>1. Siblings(u, rq.project, parent) = S
    BY <1>1, <1>2, <1>6
  <2>2. \A x \in S : u[x].position = place(x)
    BY <1>1, <1>3, <1>6
  <2> HIDE DEF S, place
  <2>3. Positions(u, S) = 0 .. Cardinality(S) - 1
    BY <1>4, <1>5, <2>2, Numbering
  <2> QED
    BY <2>1, <2>3 DEF Dense
<1>7. CASE parent = rq.parent
  <2>1. Siblings(u, rq.project, parent) = S \cup {rq.page}
    BY <1>1, <1>2, <1>7
  <2>2. \A x \in S : u[x].position = IF place(x) >= rq.index THEN place(x) + 1 ELSE place(x)
    BY <1>1, <1>3, <1>7
  <2>3. rq.index <= Cardinality(S) /\ rq.page \notin S
    BY <1>7 DEF Others
  <2> HIDE DEF S, place
  <2>4. Cardinality(S \cup {rq.page}) = Cardinality(S) + 1
    BY <1>5, <2>3, FS_AddElement
  <2>5. \A x \in S \cup {rq.page} : u[x].position < Cardinality(S \cup {rq.page})
    BY <1>1, <1>4, <1>5, <2>2, <2>3, <2>4
  <2>6. \A x, y \in S \cup {rq.page} : u[x].position = u[y].position => x = y
    <3>1. \A x, y \in S : u[x].position = u[y].position => x = y
      BY <1>4, <2>2
    <3>2. \A x \in S : u[x].position # u[rq.page].position
      BY <1>1, <1>4, <2>2
    <3> QED
      BY <3>1, <3>2
  <2>7. Positions(u, S \cup {rq.page}) = 0 .. Cardinality(S \cup {rq.page}) - 1
    <3>1. S \cup {rq.page} \in SUBSET Pages
      BY <1>5
    <3> QED
      BY <2>5, <2>6, <3>1, Numbering
  <2> QED
    BY <2>1, <2>7 DEF Dense
<1> QED
  BY <1>6, <1>7

\* ... and the other pages in the order in which they were.
LEMMA OrderStays ==
  ASSUME NEW t \in Table, NEW rq, NEW cur, rq.project \in Projects, rq.page \in Pages,
         t[rq.page] = cur, cur.project = rq.project, rq.index \in Nat,
         NEW u, \/ \A x \in Pages : u[x] = Moved(t, rq, cur, x)
                \/ \A x \in Pages : u[x] = Removed(t, rq, cur, x),
         \A parent \in Pages \cup {None} : Dense(t, rq.project, parent),
         NEW p \in Pages \ {rq.page}, NEW q \in Pages \ {rq.page},
         t[p] # NoPage, t[q] # NoPage
  PROVE  /\ u[p].project = t[p].project /\ u[p].parent = t[p].parent
         /\ Before(u, p, q) <=> Before(t, p, q)
<1> DEFINE place(x) == ClosedGap(t, rq, cur, x).position
<1>1. /\ t[p] \in Row /\ t[q] \in Row /\ place(p) \in Int /\ place(q) \in Int
  <2>1. ASSUME NEW x \in Pages, t[x] \in Row PROVE place(x) \in Int
    BY <2>1 DEF ClosedGap, Row
  <2> QED
    BY <2>1, TableIs
<1>2. ASSUME t[p].project = t[q].project, t[p].parent = t[q].parent
      PROVE  place(p) < place(q) <=> t[p].position < t[q].position
  <2>1. CASE t[p].project = rq.project /\ t[p].parent = cur.parent
    <3> DEFINE k == cur.position
    <3>1. \A x, y \in Siblings(t, rq.project, cur.parent) :
             t[x].position = t[y].position => x = y
      <4>1. cur.parent \in Pages \cup {None}
        BY TableIs
      <4>2. Siblings(t, rq.project, cur.parent) \in SUBSET Pages
        BY GroupIsFinite
      <4> QED
        BY <4>1, <4>2, Numbering DEF Dense
    <3>2. {p, q, rq.page} \subseteq Siblings(t, rq.project, cur.parent)
      <4>1. Siblings(t, rq.project, cur.parent)
              = {x \in Pages : t[x].project = rq.project /\ t[x].parent = cur.parent}
        BY TableIs
      <4> QED
        BY <1>2, <2>1, <4>1
    <3>3. t[p].position # k /\ t[q].position # k /\ k \in Nat
      BY <3>1, <3>2, TableIs
    <3>4. ASSUME NEW x \in {p, q}
          PROVE  place(x) = IF t[x].position > k THEN t[x].position - 1 ELSE t[x].position
      <4>1. /\ x # rq.page /\ t[x].project = rq.project /\ t[x].parent = cur.parent
            /\ t[x] \in Row
        BY <1>1, <1>2, <2>1
      <4>2. CASE t[x].position > k
        <5>1. ClosedGap(t, rq, cur, x) = [t[x] EXCEPT !.position = @ - 1]
          BY <4>1, <4>2 DEF ClosedGap
        <5> QED
          BY <4>1, <4>2, <5>1 DEF Row
      <4>3. CASE ~ (t[x].position > k)
        BY <4>3 DEF ClosedGap
      <4> QED
        BY <4>2, <4>3
    <3>5. t[p].position \in Nat /\ t[q].position \in Nat
      BY TableIs
    <3> HIDE DEF place, k
    <3> QED
      BY <3>3, <3>4, <3>5
  <2>2. CASE ~ (t[p].project = rq.project /\ t[p].parent = cur.parent)
    <3>1. place(p) = t[p].position /\ place(q) = t[q].position
      BY <1>2, <2>2 DEF ClosedGap
    <3> QED
      BY <3>1
  <2> QED
    BY <2>1, <2>2
<1> HIDE DEF place
<1>3. CASE \A x \in Pages : u[x] = Moved(t, rq, cur, x)
  <2>1. \A x \in {p, q} :
          /\ u[x].project = t[x].project /\ u[x].parent = t[x].parent
          /\ u[x].position = IF /\ t[x].project = rq.project /\ t[x].parent = rq.parent
                                /\ place(x) >= rq.index
                             THEN place(x) + 1
                             ELSE place(x)
    BY <1>3, MovedRows DEF place
  <2> QED
    BY <1>1, <1>2, <2>1 DEF Before
<1>4. CASE \A x \in Pages : u[x] = Removed(t, rq, cur, x)
  <2>1. \A x \in {p, q} : u[x] = ClosedGap(t, rq, cur, x)
    BY <1>4 DEF Removed
  <2>2. \A x \in {p, q} : /\ u[x].project = t[x].project /\ u[x].parent = t[x].parent
                          /\ u[x].position = place(x)
    BY <2>1, GapRows DEF place
  <2> QED
    BY <1>2, <2>2 DEF Before
<1> QED
  BY <1>3, <1>4

-----------------------------------------------------------------------------
(* What is below a page, and how high it is.                               *)

\* A nonempty set of naturals has a least element.
LEMMA LeastExists ==
  ASSUME NEW S \in SUBSET Nat, S # {}
  PROVE  \E m \in S : \A n \in S : m <= n
<1> DEFINE Less == {e \in Nat \X Nat : e[1] < e[2]}
<1>1. IsWellFoundedOn(Less, Nat)
  BY NatLessThanWellFounded DEF OpToRel
<1>2. PICK m \in S : \A n \in S : ~ (<<n, m>> \in Less)
  <2> HIDE DEF Less
  <2> QED
    BY <1>1, WFMin
<1>3. \A n \in S : ~ (n < m)
  BY <1>2
<1> QED
  BY <1>3

\* What is below p is closed, and in whatever else is closed and has p; nothing of it
\* but p hangs on a page that is not in it.
LEMMA BelowIs ==
  ASSUME NEW t \in Table, NEW j \in Projects, NEW p \in Pages, t[p].project = j
  PROVE  /\ p \in Below(t, j, p) /\ Below(t, j, p) \subseteq Pages
         /\ Closed(t, j, Below(t, j, p))
         /\ \A C \in SUBSET Pages : p \in C /\ Closed(t, j, C) => Below(t, j, p) \subseteq C
         /\ \A x \in Below(t, j, p) : t[x].project = j
         /\ \A x \in Below(t, j, p) : x # p => t[x].parent \in Below(t, j, p)
<1> DEFINE D == Below(t, j, p)
<1>1. /\ p \in D /\ D \subseteq Pages
      /\ \A C \in SUBSET Pages : p \in C /\ Closed(t, j, C) => D \subseteq C
  BY DEF Below
<1>2. Closed(t, j, D)
  <2> SUFFICES ASSUME NEW x \in Pages, t[x].project = j, t[x].parent \in D,
                      NEW C \in SUBSET Pages, p \in C, Closed(t, j, C)
               PROVE  x \in C
    BY DEF Closed, Below
  <2> QED
    BY <1>1 DEF Closed
<1> HIDE DEF D
<1>3. \A x \in D : t[x].project = j
  <2> DEFINE C == {x \in Pages : t[x].project = j}
  <2>1. p \in C /\ Closed(t, j, C) /\ C \in SUBSET Pages
    BY DEF Closed
  <2> QED
    BY <1>1, <2>1
<1>4. ASSUME NEW x \in D, x # p, t[x].parent \notin D
      PROVE  FALSE
  <2>1. p \in D \ {x} /\ Closed(t, j, D \ {x}) /\ D \ {x} \in SUBSET Pages
    BY <1>1, <1>2, <1>4 DEF Closed
  <2> QED
    BY <1>1, <2>1
<1> QED
  BY <1>1, <1>2, <1>3, <1>4 DEF D

\* The same over all Projects.
Under(t, p) ==
  {x \in Pages : \A C \in SUBSET Pages :
                   p \in C /\ (\A y \in Pages : t[y].parent \in C => y \in C) => x \in C}

\* The pages under p: p, and what is under its children.
LEMMA UnderIs ==
  ASSUME NEW t \in Table, NEW p \in Pages
  PROVE  /\ p \in Under(t, p) /\ Under(t, p) \subseteq Pages
         /\ \A y \in Pages : t[y].parent \in Under(t, p) => y \in Under(t, p)
         /\ \A y \in Pages : t[y].parent = p => Under(t, y) \subseteq Under(t, p)
         /\ \A x \in Under(t, p) : x # p =>
              \E y \in Pages : t[y].parent = p /\ x \in Under(t, y)
<1> DEFINE Shut(C) == \A y \in Pages : t[y].parent \in C => y \in C
<1>1. ASSUME NEW q \in Pages
      PROVE  /\ q \in Under(t, q) /\ Under(t, q) \subseteq Pages
             /\ \A C \in SUBSET Pages : q \in C /\ Shut(C) => Under(t, q) \subseteq C
  BY DEF Under
<1>2. ASSUME NEW q \in Pages
      PROVE  Shut(Under(t, q))
  <2> SUFFICES ASSUME NEW y \in Pages, t[y].parent \in Under(t, q),
                      NEW C \in SUBSET Pages, q \in C, Shut(C)
               PROVE  y \in C
    BY DEF Under
  <2> QED
    BY <1>1
<1>3. ASSUME NEW y \in Pages, t[y].parent = p
      PROVE  Under(t, y) \subseteq Under(t, p)
  BY <1>1, <1>2, <1>3
<1>4. ASSUME NEW x \in Under(t, p), x # p
      PROVE  \E y \in Pages : t[y].parent = p /\ x \in Under(t, y)
  <2> DEFINE C == {p} \cup {z \in Pages : \E y \in Pages : t[y].parent = p /\ z \in Under(t, y)}
  <2>1. C \in SUBSET Pages /\ p \in C
    OBVIOUS
  <2>2. Shut(C)
    <3> SUFFICES ASSUME NEW z \in Pages, t[z].parent \in C
                 PROVE  z \in C
      OBVIOUS
    <3>1. CASE t[z].parent = p
      BY <1>1, <3>1
    <3>2. CASE t[z].parent # p
      <4>1. PICK y \in Pages : t[y].parent = p /\ t[z].parent \in Under(t, y)
        BY <3>2
      <4>2. z \in Under(t, y)
        BY <1>2, <4>1
      <4> QED
        BY <4>1, <4>2
    <3> QED
      BY <3>1, <3>2
  <2> HIDE DEF C, Shut
  <2>3. x \in C
    BY <1>1, <2>1, <2>2
  <2> QED
    BY <1>4, <2>3 DEF C
<1> QED
  BY <1>1, <1>2, <1>3, <1>4

\* g numbers the levels of all Projects.
AllLevels(g, t) == g \in LevelMaps /\ \A j \in Projects : Levels(g, t, j)

\* A table of forests has levels for the pages of all Projects.
LEMMA AllLevelsExist ==
  ASSUME NEW t \in Table, \A k \in Projects : Forest(t, k)
  PROVE  \E g : AllLevels(g, t)
<1> DEFINE m(k) == CHOOSE l \in LevelMaps : Levels(l, t, k)
           g == [x \in Pages |-> IF t[x].project \in Projects THEN m(t[x].project)[x] ELSE 0]
<1>1. \A k \in Projects : m(k) \in LevelMaps /\ Levels(m(k), t, k)
  BY DEF Forest
<1> HIDE DEF m
<1>2. g \in LevelMaps
  BY <1>1 DEF LevelMaps
<1>3. \A k \in Projects : Levels(g, t, k)
  BY <1>1, TableIs DEF Levels
<1> QED
  BY <1>2, <1>3 DEF AllLevels

\* A page is one level below its parent.
LEMMA LevelsOfChildren ==
  ASSUME NEW t \in Table, NEW g, AllLevels(g, t), NEW x \in Pages, t[x].parent \in Pages
  PROVE  /\ g[x] \in 1 .. MaxDepth /\ g[t[x].parent] \in 1 .. MaxDepth
         /\ g[x] = g[t[x].parent] + 1
<1>1. t[x].project \in Projects
  BY TableIs, RowIs
<1>2. t[x].parent # None
  BY RowIs
<1>3. Levels(g, t, t[x].project)
  BY <1>1 DEF AllLevels
<1> QED
  BY <1>2, <1>3 DEF Levels

\* The equation that height is defined by.
Heights(t, h) ==
  h = [level \in SUBSET Pages |->
         IF ChildrenOf(t, level) = {} THEN 1 ELSE 1 + h[ChildrenOf(t, level)]]

\* n is more than the levels that anything is below a page of S.
Covers(g, t, n, S) == \A s \in S : \A x \in Under(t, s) : x # s => g[x] < g[s] + n

\* There is a least number of levels that covers all that is under S.
LEMMA CoversExist ==
  ASSUME NEW t \in Table, NEW g, AllLevels(g, t), NEW S \in SUBSET Pages
  PROVE  \E n \in Nat \ {0} :
           Covers(g, t, n, S) /\ \A m \in Nat \ {0} : Covers(g, t, m, S) => n <= m
<1> DEFINE N == {n \in Nat \ {0} : Covers(g, t, n, S)}
<1>1. MaxDepth \in N
  <2> SUFFICES ASSUME NEW s \in S, NEW x \in Under(t, s), x # s
               PROVE  g[x] < g[s] + MaxDepth
    BY MaxDepthAssumption DEF Covers
  <2>1. \E y \in Pages : t[y].parent = s /\ x \in Under(t, y)
    BY UnderIs
  <2>2. g[s] \in 1 .. MaxDepth
    BY <2>1, LevelsOfChildren
  <2>3. g[x] \in 1 .. MaxDepth
    <3> DEFINE C == {s} \cup {z \in Pages : g[z] \in 1 .. MaxDepth}
    <3>1. \A z \in Pages : t[z].parent \in C => z \in C
      BY LevelsOfChildren
    <3>2. C \in SUBSET Pages /\ s \in C
      OBVIOUS
    <3>3. x \in C
      <4> HIDE DEF C
      <4> QED
        BY <3>1, <3>2 DEF Under
    <3> QED
      BY <3>3
  <2> QED
    BY <2>2, <2>3, MaxDepthAssumption
<1>2. N \in SUBSET Nat /\ N # {}
  BY <1>1
<1>3. PICK n \in N : \A m \in N : n <= m
  <2> HIDE DEF N
  <2> QED
    BY <1>2, LeastExists
<1> QED
  BY <1>3

\* Without cycles, the equation has a solution.
LEMMA HeightsExist ==
  ASSUME NEW t \in Table, NEW g, AllLevels(g, t)
  PROVE  \E h : Heights(t, h)
<1> DEFINE Least(n, S) == /\ n \in Nat \ {0} /\ Covers(g, t, n, S)
                          /\ \A m \in Nat \ {0} : Covers(g, t, m, S) => n <= m
           h == [S \in SUBSET Pages |-> CHOOSE n : Least(n, S)]
<1>1. \A S \in SUBSET Pages : Least(h[S], S)
  <2> TAKE S \in SUBSET Pages
  <2>1. \E n : Least(n, S)
    BY CoversExist
  <2> HIDE DEF Least
  <2> QED
    BY <2>1
<1>2. g \in [Pages -> Nat]
  BY DEF AllLevels, LevelMaps
<1> HIDE DEF h
<1>3. ASSUME NEW S \in SUBSET Pages, ChildrenOf(t, S) = {}
      PROVE  h[S] = 1
  <2>1. Covers(g, t, 1, S)
    <3> SUFFICES ASSUME NEW s \in S, NEW x \in Under(t, s), x # s PROVE FALSE
      BY DEF Covers
    <3>1. \E y \in Pages : t[y].parent = s
      BY UnderIs
    <3> QED
      BY <1>3, <3>1 DEF ChildrenOf
  <2> QED
    BY <1>1, <2>1
<1>4. ASSUME NEW S \in SUBSET Pages, ChildrenOf(t, S) # {}
      PROVE  h[S] = 1 + h[ChildrenOf(t, S)]
  <2> DEFINE T == ChildrenOf(t, S)
             n == h[T]
  <2>1. T \in SUBSET Pages /\ \A y \in T : t[y].parent \in S
    BY DEF ChildrenOf
  <2>2. \A y \in T : g[y] = g[t[y].parent] + 1
    BY <2>1, LevelsOfChildren
  <2>3. Least(n, T)
    BY <1>1, <2>1
  <2> HIDE DEF T, n
  <2>4. Covers(g, t, n + 1, S)
    <3> SUFFICES ASSUME NEW s \in S, NEW x \in Under(t, s), x # s
                 PROVE  g[x] < g[s] + (n + 1)
      BY DEF Covers
    <3>1. PICK y \in Pages : t[y].parent = s /\ x \in Under(t, y)
      BY UnderIs
    <3>2. y \in T
      BY <3>1 DEF T, ChildrenOf
    <3>3. g[y] = g[s] + 1 /\ g[y] \in Nat /\ g[s] \in Nat
      BY <1>2, <2>2, <3>1, <3>2
    <3>4. x = y \/ g[x] < g[y] + n
      BY <2>3, <3>1, <3>2 DEF Covers
    <3>5. g[x] \in Nat
      BY <1>2, UnderIs
    <3> QED
      BY <2>3, <3>3, <3>4, <3>5
  <2>5. ASSUME NEW m \in Nat \ {0}, Covers(g, t, m, S)
        PROVE  n + 1 <= m
    <3>1. PICK z \in T : TRUE
      BY <1>4 DEF T
    <3>2. m > 1
      <4>1. z \in Under(t, t[z].parent) /\ z # t[z].parent
        BY <2>1, <2>2, <3>1, UnderIs, <1>2
      <4>2. g[z] < g[t[z].parent] + m
        BY <2>1, <2>5, <3>1, <4>1 DEF Covers
      <4> QED
        BY <1>2, <2>1, <2>2, <3>1, <4>2
    <3>3. Covers(g, t, m - 1, T)
      <4> SUFFICES ASSUME NEW y \in T, NEW x \in Under(t, y), x # y
                   PROVE  g[x] < g[y] + (m - 1)
        BY DEF Covers
      <4>1. y \in Pages /\ t[y].parent \in S /\ t[y].parent \in Pages /\ x \in Pages
        BY <2>1, UnderIs
      <4>2. x \in Under(t, t[y].parent)
        BY <4>1, UnderIs
      <4>3. x # t[y].parent
        <5>1. g[x] > g[t[y].parent]
          <6> DEFINE C == {q \in Pages : g[q] >= g[y]}
          <6>1. \A q \in Pages : t[q].parent \in C => q \in C
            BY <1>2, <4>1, LevelsOfChildren
          <6>2. y \in C /\ C \in SUBSET Pages
            BY <1>2, <4>1
          <6>3. x \in C
            <7> HIDE DEF C
            <7> QED
              BY <6>1, <6>2 DEF Under
          <6> QED
            BY <1>2, <2>2, <4>1, <6>3
        <5> QED
          BY <1>2, <4>1, <5>1
      <4>4. g[x] < g[t[y].parent] + m
        BY <2>5, <4>1, <4>2, <4>3 DEF Covers
      <4> QED
        BY <1>2, <2>2, <4>1, <4>4
    <3>4. n <= m - 1
      BY <2>3, <3>2, <3>3
    <3> QED
      BY <2>3, <3>4
  <2>6. Least(h[S], S) /\ n + 1 \in Nat \ {0}
    BY <1>1, <2>3
  <2>7. h[S] <= n + 1 /\ n + 1 <= h[S]
    BY <2>4, <2>5, <2>6
  <2> QED
    BY <2>3, <2>6, <2>7 DEF n, T
<1>5. h = [S \in SUBSET Pages |->
             IF ChildrenOf(t, S) = {} THEN 1 ELSE 1 + h[ChildrenOf(t, S)]]
  <2>1. h = [S \in SUBSET Pages |-> h[S]]
    BY DEF h
  <2> QED
    BY <1>3, <1>4, <2>1
<1> QED
  BY <1>5 DEF Heights

\* A nonempty bounded set of naturals has a maximum.
LEMMA MaximumExists ==
  ASSUME NEW P \in SUBSET Nat, P # {}, NEW n \in Nat, \A i \in P : i <= n
  PROVE  \E m \in P : \A i \in P : i <= m
<1> DEFINE Q == {k \in Nat : \E i \in P : i + k = n}
<1>1. Q \in SUBSET Nat /\ Q # {}
  <2>1. PICK i \in P : TRUE
    OBVIOUS
  <2>2. n - i \in Q
    BY <2>1
  <2> QED
    BY <2>2
<1>2. PICK k \in Q : \A l \in Q : k <= l
  <2> HIDE DEF Q
  <2> QED
    BY <1>1, LeastExists
<1>3. PICK m \in P : m + k = n
  BY <1>2
<1>4. \A i \in P : i <= m
  <2> TAKE i \in P
  <2>1. n - i \in Q
    OBVIOUS
  <2>2. k <= n - i
    BY <1>2, <2>1
  <2> QED
    BY <1>2, <1>3, <2>2
<1> QED
  BY <1>4

\* HeightOf gives what solves the equation.
LEMMA HeightIs ==
  ASSUME NEW t, NEW g, Heights(t, g), NEW S \in SUBSET Pages
  PROVE  \E h : Heights(t, h) /\ HeightOf(t, S) = h[S]
<1> DEFINE h == CHOOSE h : h = [level \in SUBSET Pages |->
                  IF ChildrenOf(t, level) = {} THEN 1 ELSE 1 + h[ChildrenOf(t, level)]]
<1>1. Heights(t, h)
  BY DEF Heights
<1>2. HeightOf(t, S) = h[S]
  BY DEF HeightOf
<1> QED
  BY <1>1, <1>2

\* A solution is a number everywhere: levels below levels come to an end.
LEMMA HeightsAreNumbers ==
  ASSUME NEW t \in Table, NEW g, AllLevels(g, t), NEW h, Heights(t, h)
  PROVE  \A S \in SUBSET Pages : h[S] \in Nat \ {0}
<1> DEFINE Bad(S) == S \in SUBSET Pages /\ h[S] \notin Nat \ {0}
           Over1(n, S) == \A x \in S : \A y \in Pages : t[y].parent = x => n <= g[x]
           N == {n \in Nat : \E S : Bad(S) /\ Over1(n, S)}
<1>1. g \in [Pages -> Nat]
  BY DEF AllLevels, LevelMaps
<1>2. ASSUME NEW S, Bad(S)
      PROVE  /\ Bad(ChildrenOf(t, S)) /\ ChildrenOf(t, S) # {}
  <2>1. h[S] = IF ChildrenOf(t, S) = {} THEN 1 ELSE 1 + h[ChildrenOf(t, S)]
    BY <1>2 DEF Heights
  <2>2. ChildrenOf(t, S) \in SUBSET Pages
    BY DEF ChildrenOf
  <2> QED
    BY <1>2, <2>1, <2>2
<1>3. \A n \in N : n <= MaxDepth
  <2> SUFFICES ASSUME NEW n \in Nat, NEW S, Bad(S), Over1(n, S)
               PROVE  n <= MaxDepth
    OBVIOUS
  <2>1. PICK y \in Pages : t[y].parent \in S
    BY <1>2 DEF ChildrenOf
  <2>2. t[y].parent \in Pages /\ n <= g[t[y].parent]
    BY <2>1
  <2> QED
    BY <2>2, LevelsOfChildren, MaxDepthAssumption
<1>4. ASSUME NEW n \in N
      PROVE  n + 1 \in N
  <2>1. PICK S : Bad(S) /\ Over1(n, S)
    OBVIOUS
  <2> DEFINE T == ChildrenOf(t, S)
  <2>2. Bad(T)
    BY <1>2, <2>1
  <2>3. Over1(n + 1, T)
    <3> SUFFICES ASSUME NEW x \in T, NEW y \in Pages, t[y].parent = x
                 PROVE  n + 1 <= g[x]
      OBVIOUS
    <3>1. x \in Pages /\ t[x].parent \in S /\ t[x].parent \in Pages
      BY <2>1 DEF ChildrenOf
    <3>2. n <= g[t[x].parent] /\ g[x] = g[t[x].parent] + 1
      BY <2>1, <3>1, LevelsOfChildren
    <3> QED
      BY <1>1, <3>1, <3>2
  <2> QED
    BY <2>2, <2>3
<1>5. ASSUME NEW S, Bad(S)
      PROVE  0 \in N
  BY <1>1, <1>5
<1> HIDE DEF N
<1>6. N \subseteq Nat
  BY DEF N
<1>7. N = {}
  <2> SUFFICES ASSUME N # {} PROVE FALSE
    OBVIOUS
  <2>1. PICK m \in N : \A n \in N : n <= m
    BY <1>3, <1>6, MaximumExists, MaxDepthAssumption
  <2> QED
    BY <1>4, <1>6, <2>1
<1> QED
  BY <1>5, <1>7

\* A page has no more levels below it than HeightOf counts.
LEMMA HeightBounds ==
  ASSUME NEW t \in Table, \A k \in Projects : Forest(t, k), NEW j \in Projects,
         NEW p \in Pages, t[p].project = j, NEW level \in LevelMaps, Levels(level, t, j)
  PROVE  /\ HeightOf(t, {p}) \in Nat \ {0}
         /\ \A x \in Below(t, j, p) : level[x] + 1 <= level[p] + HeightOf(t, {p})
<1>1. \E g : AllLevels(g, t)
  BY AllLevelsExist
<1>2. PICK g : AllLevels(g, t)
  BY <1>1
<1>3. PICK h : Heights(t, h) /\ HeightOf(t, {p}) = h[{p}]
  BY <1>2, HeightsExist, HeightIs
<1>4. \A S \in SUBSET Pages : h[S] \in Nat \ {0}
  BY <1>2, <1>3, HeightsAreNumbers
<1> DEFINE C == {x \in Pages : /\ t[x].project = j
                               /\ \E S \in SUBSET Pages : /\ x \in S
                                                          /\ level[x] + h[S] <= level[p] + h[{p}]}
<1>5. level \in [Pages -> Nat]
  BY DEF LevelMaps
<1>6. p \in C /\ C \in SUBSET Pages
  BY <1>4, <1>5
<1>7. Closed(t, j, C)
  <2> SUFFICES ASSUME NEW y \in Pages, t[y].project = j, t[y].parent \in C
               PROVE  y \in C
    BY DEF Closed
  <2> DEFINE x == t[y].parent
  <2>1. PICK S \in SUBSET Pages : x \in S /\ level[x] + h[S] <= level[p] + h[{p}]
    OBVIOUS
  <2> DEFINE T == ChildrenOf(t, S)
  <2>2. T \in SUBSET Pages /\ y \in T
    BY <2>1 DEF ChildrenOf
  <2>3. h[S] = 1 + h[T]
    BY <1>3, <2>1, <2>2 DEF Heights
  <2>4. level[y] = level[x] + 1 /\ x \in Pages
    BY RowIs DEF Levels
  <2>5. level[y] + h[T] <= level[p] + h[{p}]
    <3>1. /\ level[x] \in Nat /\ level[p] \in Nat /\ h[S] \in Nat /\ h[T] \in Nat
          /\ h[{p}] \in Nat
      BY <1>4, <1>5, <2>2, <2>4
    <3> HIDE DEF T, x
    <3> QED
      BY <2>1, <2>3, <2>4, <3>1
  <2> QED
    BY <2>2, <2>5
<1>8. Below(t, j, p) \subseteq C
  <2> HIDE DEF C
  <2> QED
    BY <1>6, <1>7, BelowIs
<1>9. ASSUME NEW x \in C
      PROVE  level[x] + 1 <= level[p] + h[{p}]
  <2>1. PICK S \in SUBSET Pages : level[x] + h[S] <= level[p] + h[{p}]
    OBVIOUS
  <2>2. /\ level[x] \in Nat /\ level[p] \in Nat /\ h[S] \in Nat \ {0} /\ h[{p}] \in Nat
    BY <1>4, <1>5, <1>6
  <2> HIDE DEF C
  <2> QED
    BY <2>1, <2>2
<1> QED
  BY <1>3, <1>4, <1>8, <1>9

-----------------------------------------------------------------------------
(* What commits make of the forest of their Project.                       *)

\* move takes everything below the page along.
LEMMA MovedIsForest ==
  ASSUME NEW t \in Table, NEW u \in Table, NEW rq, NEW cur, NEW w,
         rq.project \in Projects, rq.page \in Pages, rq.kind = "move",
         rq.parent \in Pages \cup {None},
         t[rq.page] = cur, cur.project = rq.project,
         \A x \in Pages : u[x] = Moved(t, rq, cur, x),
         w.depth \in Nat, w.cursor = None, Climbed(t, rq, w), Fits(t, rq, w),
         Forest(t, rq.project)
  PROVE  Forest(u, rq.project)
<1> DEFINE j == rq.project
           p == rq.page
           d == w.depth
           D == Below(t, j, p)
<1>1. PICK level \in LevelMaps : Levels(level, t, j)
  BY DEF Forest
<1>2. /\ p \in D /\ D \subseteq Pages
      /\ \A x \in Pages : t[x].project = j /\ t[x].parent \in D => x \in D
      /\ \A x \in D : t[x].project = j
      /\ \A x \in D : x # p => t[x].parent \in D
      /\ \A C \in SUBSET Pages : p \in C /\ Closed(t, j, C) => D \subseteq C
  BY BelowIs DEF Closed
<1>3. /\ u[p].project = j /\ u[p].parent = rq.parent
      /\ \A x \in Pages \ {p} : u[x].project = t[x].project /\ u[x].parent = t[x].parent
  <2>1. u[rq.page].project = rq.project /\ u[rq.page].parent = rq.parent
    BY MovedRows
  <2>2. ASSUME NEW x \in Pages \ {rq.page}
        PROVE  u[x].project = t[x].project /\ u[x].parent = t[x].parent
    BY MovedRows
  <2> QED
    BY <2>1, <2>2
<1>4. level \in [Pages -> Nat]
  BY DEF LevelMaps
<1>5. \A x \in D : level[x] >= level[p] /\ level[x] + d <= MaxDepth + level[p]
  <2> DEFINE C == {x \in Pages : t[x].project = j /\ level[x] >= level[p]}
  <2>1. p \in C /\ C \in SUBSET Pages
    BY <1>4
  <2>2. Closed(t, j, C)
    <3> SUFFICES ASSUME NEW x \in Pages, t[x].project = j, t[x].parent \in C PROVE x \in C
      BY DEF Closed
    <3>1. t[x].parent \in Pages /\ level[t[x].parent] >= level[p]
      OBVIOUS
    <3>2. level[x] = level[t[x].parent] + 1
      BY <1>1, <3>1, RowIs DEF Levels
    <3>3. level[x] >= level[p]
      BY <1>4, <3>1, <3>2
    <3> QED
      BY <3>3
  <2>3. D \subseteq C
    BY <1>2, <2>1, <2>2
  <2> QED
    BY <1>1, <2>3 DEF Fits
<1>6. PICK A \in SUBSET Pages : /\ p \notin A /\ rq.parent \in A \cup {None}
                                /\ \A a \in A : t[a].project = j /\ t[a].parent \in A \cup {None}
  BY DEF Climbed
<1>7. rq.parent \notin D
  <2>1. p \in Pages \ A /\ Pages \ A \in SUBSET Pages
    BY <1>6
  <2>2. Closed(t, j, Pages \ A)
    BY <1>6, RowIs DEF Closed
  <2>3. D \subseteq Pages \ A
    BY <1>2, <2>1, <2>2
  <2> QED
    BY <1>6, <2>3, RowIs
<1>8. DepthOf(level, rq.parent) + 1 = d
  BY <1>1 DEF Climbed, DepthOf
<1>9. rq.parent # None => t[rq.parent].project = j /\ rq.parent # p /\ rq.parent \in Pages
  BY <1>6
<1> HIDE DEF D
<1> DEFINE new == [x \in Pages |-> IF x \in D THEN (level[x] + d) - level[p] ELSE level[x]]
<1>10. d \in Nat \ {0}
  BY <1>4, <1>8, <1>9 DEF DepthOf
<1>11. new \in LevelMaps
  BY <1>4, <1>5, <1>10 DEF LevelMaps
<1>12. ASSUME NEW x \in Pages, u[x].project = j
       PROVE  /\ new[x] \in 1 .. MaxDepth
              /\ IF u[x].parent = None
                 THEN new[x] = 1
                 ELSE u[u[x].parent].project = j /\ new[x] = new[u[x].parent] + 1
  <2>1. t[x].project = j
    BY <1>3, <1>12
  <2>2. /\ level[x] \in 1 .. MaxDepth
        /\ IF t[x].parent = None
           THEN level[x] = 1
           ELSE t[t[x].parent].project = j /\ level[x] = level[t[x].parent] + 1
    BY <1>1, <2>1 DEF Levels
  <2>3. CASE x = p
    <3>1. new[x] = d /\ new[x] \in 1 .. MaxDepth
      BY <1>2, <1>4, <1>5, <1>10, <2>3, MaxDepthAssumption
    <3>2. CASE rq.parent = None
      BY <1>3, <1>8, <2>3, <3>1, <3>2 DEF DepthOf
    <3>3. CASE rq.parent # None
      <4>1. new[rq.parent] = level[rq.parent]
        BY <1>7, <1>9, <3>3
      <4>2. d = level[rq.parent] + 1
        BY <1>4, <1>8, <1>9, <3>3 DEF DepthOf
      <4> QED
        BY <1>3, <1>9, <2>3, <3>1, <3>3, <4>1, <4>2
    <3> QED
      BY <3>2, <3>3
  <2>4. CASE x \in D /\ x # p
    <3>1. u[x].parent = t[x].parent /\ t[x].parent \in D /\ t[x].parent # None
      BY <1>2, <1>3, <2>4, RowIs
    <3>2. u[u[x].parent].project = j
      BY <1>2, <1>3, <3>1
    <3>3. level[x] = level[t[x].parent] + 1 /\ t[x].parent \in Pages
      BY <1>2, <2>2, <3>1
    <3>4. new[x] = (level[x] + d) - level[p]
      BY <2>4
    <3>5. new[t[x].parent] = (level[t[x].parent] + d) - level[p]
      BY <3>1, <3>3
    <3>6. level[x] \in Nat /\ level[t[x].parent] \in Nat /\ level[p] \in Nat
      BY <1>4, <3>3
    <3>7. level[x] >= level[p] /\ level[x] + d <= MaxDepth + level[p]
      BY <1>5, <2>4
    <3> HIDE DEF new, d, j, p
    <3>8. new[x] = new[t[x].parent] + 1
      BY <1>10, <3>3, <3>4, <3>5, <3>6
    <3>9. new[x] \in 1 .. MaxDepth
      BY <1>10, <3>4, <3>6, <3>7, MaxDepthAssumption
    <3> QED
      BY <3>1, <3>2, <3>8, <3>9
  <2>5. CASE x \notin D
    <3>1. x # p /\ u[x].parent = t[x].parent /\ t[x].parent \notin D
      BY <1>2, <1>3, <2>1, <2>5
    <3>2. new[x] = level[x]
      BY <2>5
    <3>3. CASE t[x].parent = None
      BY <2>2, <3>1, <3>2, <3>3
    <3>4. CASE t[x].parent # None
      <4>1. t[x].parent \in Pages
        BY <3>4, TableIs
      <4>2. new[t[x].parent] = level[t[x].parent] /\ u[t[x].parent].project = j
        BY <1>2, <1>3, <2>2, <3>1, <3>4, <4>1
      <4> QED
        BY <2>2, <3>1, <3>2, <3>4, <4>2
    <3> QED
      BY <3>3, <3>4
  <2> QED
    BY <2>3, <2>4, <2>5
<1> HIDE DEF new
<1>13. Levels(new, u, j)
  BY <1>12 DEF Levels
<1> QED
  BY <1>11, <1>13 DEF Forest

\* create hangs a new page where its walk has counted the levels.
LEMMA InsertedIsForest ==
  ASSUME NEW t \in Table, NEW u \in Table, NEW rq, NEW wk, NEW w,
         rq.project \in Projects, rq.parent \in Pages \cup {None},
         NEW n \in Pages, Inserted(t, rq, wk, n), u = Over(t, wk),
         w.depth \in Nat, w.depth <= MaxDepth, w.cursor = None, Climbed(t, rq, w),
         Forest(t, rq.project)
  PROVE  Forest(u, rq.project)
<1> DEFINE j == rq.project
           d == w.depth
<1>1. PICK level \in LevelMaps : Levels(level, t, j)
  BY DEF Forest
<1>2. /\ \A x \in Pages \ {n} : u[x] = t[x]
      /\ u[n].project = j /\ u[n].parent = rq.parent /\ t[n].project # j
  BY RowIs DEF Inserted, Over
<1>3. DepthOf(level, rq.parent) + 1 = d
  BY <1>1 DEF Climbed, DepthOf
<1>4. rq.parent # None => t[rq.parent].project = j /\ rq.parent \in Pages
  BY DEF Climbed
<1>5. level \in [Pages -> Nat]
  BY DEF LevelMaps
<1> DEFINE new == [level EXCEPT ![n] = d]
<1>6. new \in LevelMaps /\ new[n] = d /\ \A x \in Pages \ {n} : new[x] = level[x]
  BY <1>5 DEF LevelMaps
<1> HIDE DEF new
<1>7. d \in 1 .. MaxDepth
  BY <1>3, <1>4, <1>5, MaxDepthAssumption DEF DepthOf
<1>8. ASSUME NEW x \in Pages, u[x].project = j
      PROVE  /\ new[x] \in 1 .. MaxDepth
             /\ IF u[x].parent = None
                THEN new[x] = 1
                ELSE u[u[x].parent].project = j /\ new[x] = new[u[x].parent] + 1
  <2>1. CASE x = n
    <3>1. CASE rq.parent = None
      BY <1>2, <1>3, <1>6, <1>7, <2>1, <3>1 DEF DepthOf
    <3>2. CASE rq.parent # None
      <4>1. rq.parent # n /\ d = level[rq.parent] + 1
        BY <1>2, <1>3, <1>4, <1>5, <3>2 DEF DepthOf
      <4> QED
        BY <1>2, <1>4, <1>6, <1>7, <2>1, <3>2, <4>1
    <3> QED
      BY <3>1, <3>2
  <2>2. CASE x # n
    <3>1. /\ u[x] = t[x] /\ new[x] = level[x] /\ level[x] \in 1 .. MaxDepth
          /\ IF t[x].parent = None
             THEN level[x] = 1
             ELSE t[t[x].parent].project = j /\ level[x] = level[t[x].parent] + 1
      BY <1>1, <1>2, <1>6, <1>8, <2>2 DEF Levels
    <3>2. CASE t[x].parent = None
      BY <3>1, <3>2
    <3>3. CASE t[x].parent # None
      <4>1. t[x].parent \in Pages \ {n}
        BY <1>2, <3>1, <3>3, TableIs
      <4> QED
        BY <1>2, <1>6, <3>1, <3>3, <4>1
    <3> QED
      BY <3>2, <3>3
  <2> QED
    BY <2>1, <2>2
<1>9. Levels(new, u, j)
  BY <1>8 DEF Levels
<1> QED
  BY <1>6, <1>9 DEF Forest

\* remove takes a page without children.
LEMMA RemovedIsForest ==
  ASSUME NEW t \in Table, NEW u \in Table, NEW rq, NEW cur, rq.project \in Projects,
         \A x \in Pages : u[x] = Removed(t, rq, cur, x), rq.page \in Pages,
         Childless(t, rq), Forest(t, rq.project)
  PROVE  Forest(u, rq.project)
<1>1. PICK level \in LevelMaps : Levels(level, t, rq.project)
  BY DEF Forest
<1>2. /\ \A x \in Pages \ {rq.page} : u[x].project = t[x].project /\ u[x].parent = t[x].parent
      /\ u[rq.page].project # rq.project
  BY GapRows, RowIs DEF Removed
<1>3. Levels(level, u, rq.project)
  BY <1>1, <1>2, TableIs DEF Levels, Childless
<1> QED
  BY <1>3 DEF Forest

-----------------------------------------------------------------------------
(* Steps of one request.                                                   *)

Works == UNION {[S -> Row \cup {NoPage}] : S \in SUBSET Pages}

Walks == [cursor : Pages \cup {None}, depth : Nat]

\* What a request has written, laid over a table, is a table.
LEMMA WorkIs ==
  ASSUME NEW wk \in Works, NEW t \in Table
  PROVE  /\ DOMAIN wk \subseteq Pages /\ \A x \in DOMAIN wk : wk[x] \in Row \cup {NoPage}
         /\ Over(t, wk) \in Table
<1>1. PICK S \in SUBSET Pages : wk \in [S -> Row \cup {NoPage}]
  BY DEF Works
<1>2. DOMAIN wk \subseteq Pages /\ \A x \in DOMAIN wk : wk[x] \in Row \cup {NoPage}
  BY <1>1
<1>3. Over(t, wk) \in Table
  BY <1>2 DEF Over, Table
<1> QED
  BY <1>2, <1>3

\* The type invariant by the names of the sets,
LEMMA TypesAre ==
  TypeOK <=> /\ page \in Table /\ work \in [Requests -> Works] /\ pc \in [Requests -> PCs]
             /\ req \in [Requests -> Request \cup {NoRequest}]
             /\ walk \in [Requests -> Walks]
             /\ current \in [Requests -> Row \cup {NoPage}]
             /\ holder \in [LockRows -> Requests \cup {None}]
             /\ sharers \in [LockRows -> SUBSET Requests]
BY DEF TypeOK, Table, Works, Walks, LocksTypeOK

\* ... and after a step.
LEMMA TypesAreNext ==
  TypeOK' <=> /\ page' \in Table /\ work' \in [Requests -> Works] /\ pc' \in [Requests -> PCs]
              /\ req' \in [Requests -> Request \cup {NoRequest}]
              /\ walk' \in [Requests -> Walks]
              /\ current' \in [Requests -> Row \cup {NoPage}]
              /\ holder' \in [LockRows -> Requests \cup {None}]
              /\ sharers' \in [LockRows -> SUBSET Requests]
BY DEF TypeOK, Table, Works, Walks, LocksTypeOK

\* A request that has written nothing sees the committed pages.
LEMMA EmptyIs ==
  /\ Empty \in Works /\ DOMAIN Empty = {}
  /\ \A t \in Table : Over(t, Empty) = t
<1>1. Empty \in [{} -> Row \cup {NoPage}]
  BY DEF Empty
<1>2. Empty \in Works
  BY <1>1 DEF Works
<1> QED
  BY <1>1, <1>2 DEF Over, Table

\* Where a step only concerns r, and no pages yet, all depends on r.
LEMMA StepOf ==
  ASSUME IInv, NEW r \in Requests, TypeOK', UNCHANGED page,
         \A q \in Requests \ {r} :
           /\ pc'[q] = pc[q] /\ req'[q] = req[q] /\ walk'[q] = walk[q]
           /\ work'[q] = work[q] /\ current'[q] = current[q]
           /\ \A j \in Projects :
                holder[<<"Project", j>>] = q => holder'[<<"Project", j>>] = q
           /\ DOMAIN work'[r] \cap DOMAIN work[q] = {},
         AllGood(r)', HasProject(r)'
  PROVE  IInv'
<1>1. ASSUME NEW q \in Requests
      PROVE  AllGood(q)' /\ HasProject(q)'
  <2>1. CASE q = r
    BY <2>1
  <2>2. CASE q # r
    <3>1. AllGood(q) /\ HasProject(q)
      BY DEF IInv
    <3>2. AllGood(q)'
      BY <2>2, <3>1 DEF AllGood
    <3>3. pc[q] # "idle" => req[q].project \in Projects
      BY <3>1 DEF AllGood, Good, Shape, Request
    <3> QED
      BY <2>2, <3>1, <3>2, <3>3 DEF HasProject
  <2> QED
    BY <2>1, <2>2
<1>2. Disjoint'
  BY DEF IInv, Disjoint
<1>3. \A j \in Projects :
        Forest(page', j) /\ \A parent \in Pages \cup {None} : Dense(page', j, parent)
  BY DEF IInv
<1> QED
  BY <1>1, <1>2, <1>3 DEF IInv

\* A request that is over, or has not begun, knows nothing.
LEMMA IdleIsGood ==
  ASSUME NEW t
  PROVE  Good(t, "idle", NoRequest, NoWalk, Empty, NoPage)
BY DEF Good, Shape, PageRead, Walked, Checked, Written, Writing, WritesOwn, Past

\* What is left of a request that ends.
LEMMA EndIs ==
  ASSUME TypeOK, NEW r \in Requests, End(r)
  PROVE  /\ work' \in [Requests -> Works] /\ pc' \in [Requests -> PCs]
         /\ req' \in [Requests -> Request \cup {NoRequest}]
         /\ walk' \in [Requests -> Walks]
         /\ current' \in [Requests -> Row \cup {NoPage}]
         /\ holder' \in [LockRows -> Requests \cup {None}]
         /\ sharers' \in [LockRows -> SUBSET Requests]
         /\ pc'[r] = "idle" /\ req'[r] = NoRequest /\ walk'[r] = NoWalk /\ work'[r] = Empty
         /\ current'[r] = NoPage
         /\ \A q \in Requests \ {r} :
              /\ pc'[q] = pc[q] /\ req'[q] = req[q] /\ walk'[q] = walk[q]
              /\ work'[q] = work[q] /\ current'[q] = current[q]
              /\ \A j \in Projects :
                   holder[<<"Project", j>>] = q => holder'[<<"Project", j>>] = q
<1>1. /\ work \in [Requests -> Works] /\ pc \in [Requests -> PCs]
      /\ req \in [Requests -> Request \cup {NoRequest}]
      /\ walk \in [Requests -> Walks]
      /\ current \in [Requests -> Row \cup {NoPage}]
      /\ holder \in [LockRows -> Requests \cup {None}]
      /\ sharers \in [LockRows -> SUBSET Requests]
  BY TypesAre
<1>2. "idle" \in PCs /\ NoWalk \in Walks /\ Empty \in Works
  BY EmptyIs DEF PCs, NoWalk, Walks
<1>3. /\ holder' \in [LockRows -> Requests \cup {None}]
      /\ sharers' \in [LockRows -> SUBSET Requests]
      /\ \A q \in Requests \ {r} : \A x \in LockRows : holder[x] = q => holder'[x] = q
  BY <1>1 DEF End, ReleaseLocks
<1>4. \A j \in Projects : <<"Project", j>> \in LockRows
  BY DEF LockRows
<1> QED
  BY <1>1, <1>2, <1>3, <1>4 DEF End, Goto

\* A request that fails changes no page.
LEMMA RollbackInv ==
  ASSUME IInv, NEW r \in Requests, Rollback(r)
  PROVE  IInv'
<1>1. TypeOK /\ End(r) /\ page' = page
  BY DEF Rollback, IInv
<1>2. TypeOK'
  BY <1>1, EndIs, TypesAre, TypesAreNext
<1>3. AllGood(r)' /\ HasProject(r)'
  BY <1>1, EndIs, IdleIsGood DEF AllGood, HasProject
<1>4. DOMAIN work'[r] = {}
  BY <1>1, EndIs, EmptyIs
<1> QED
  BY <1>1, <1>2, <1>3, <1>4, EndIs, StepOf

-----------------------------------------------------------------------------
(* The actions.                                                            *)

\* What is known of a request, taken apart.
LEMMA RequestIs ==
  ASSUME IInv, NEW r \in Requests
  PROVE  /\ page \in Table /\ work \in [Requests -> Works] /\ pc \in [Requests -> PCs]
         /\ req \in [Requests -> Request \cup {NoRequest}]
         /\ walk \in [Requests -> Walks]
         /\ current \in [Requests -> Row \cup {NoPage}]
         /\ holder \in [LockRows -> Requests \cup {None}]
         /\ sharers \in [LockRows -> SUBSET Requests]
         /\ Good(page, pc[r], req[r], walk[r], work[r], current[r])
         /\ HasProject(r)
         /\ pc[r] # "idle" => /\ req[r] \in Request /\ req[r].project \in Projects
                              /\ req[r].kind \in Kinds /\ req[r].parent \in Pages \cup {None}
                              /\ req[r].index \in Nat
                              /\ req[r].kind # "create" => req[r].page \in Pages
         /\ ~ Writing(pc[r], req[r]) => work[r] = Empty
<1>1. TypeOK /\ AllGood(r) /\ HasProject(r)
  BY DEF IInv
<1>2. Shape(pc[r], req[r]) /\ Written(page, pc[r], req[r], work[r], current[r])
  BY <1>1 DEF AllGood, Good
<1> QED
  BY <1>1, <1>2, TypesAre DEF AllGood, Shape, Written, Request

\* A request starts with nothing found out.
LEMMA BeginInv ==
  ASSUME IInv, NEW r \in Requests, Begin(r)
  PROVE  IInv'
<1>1. /\ pc[r] = "idle" /\ pc' = [pc EXCEPT ![r] = "lockProject"]
      /\ UNCHANGED <<page, work, walk, current, holder, sharers>>
  BY DEF Begin, Goto
<1>2. PICK rq \in Request : req' = [req EXCEPT ![r] = rq] /\ (rq.kind # "create" => rq.page \in Pages)
  <2>1. PICK kind \in Kinds, j \in Projects :
          \E p \in IF kind = "create" THEN {None} ELSE Stored,
             parent \in IF kind \in {"create", "move"} THEN Stored \cup {None} ELSE {None},
             i \in IF kind = "move" THEN 0 .. Cardinality(Stored) ELSE {0} :
            req' = [req EXCEPT ![r] = [kind |-> kind, project |-> j, page |-> p,
                                       parent |-> parent, index |-> i]]
    BY DEF Begin
  <2>2. PICK p \in IF kind = "create" THEN {None} ELSE Stored,
             parent \in IF kind \in {"create", "move"} THEN Stored \cup {None} ELSE {None},
             i \in IF kind = "move" THEN 0 .. Cardinality(Stored) ELSE {0} :
            req' = [req EXCEPT ![r] = [kind |-> kind, project |-> j, page |-> p,
                                       parent |-> parent, index |-> i]]
    BY <2>1
  <2>3. /\ p \in Pages \cup {None} /\ (kind # "create" => p \in Pages)
        /\ parent \in Pages \cup {None} /\ i \in Nat
    BY <2>2 DEF Stored
  <2>4. [kind |-> kind, project |-> j, page |-> p, parent |-> parent, index |-> i] \in Request
    BY <2>3 DEF Request
  <2> QED
    BY <2>2, <2>3, <2>4
<1>3. pc'[r] = "lockProject" /\ req'[r] = rq /\ work'[r] = Empty
  BY <1>1, <1>2, RequestIs DEF Writing
<1>4. Good(page, "lockProject", rq, walk[r], Empty, current[r])
  BY <1>2 DEF Good, Shape, PageRead, Walked, Checked, Written, Writing, WritesOwn, Past
<1>5. AllGood(r)' /\ HasProject(r)'
  BY <1>1, <1>3, <1>4 DEF AllGood, HasProject
<1>6. TypeOK'
  <2>1. "lockProject" \in PCs
    BY DEF PCs
  <2> QED
    BY <1>1, <1>2, <2>1, RequestIs, TypesAreNext
<1>7. \A q \in Requests \ {r} : pc'[q] = pc[q] /\ req'[q] = req[q]
  BY <1>1, <1>2, RequestIs
<1> QED
  BY <1>1, <1>3, <1>5, <1>6, <1>7, EmptyIs, StepOf

\* A walk that is to begin has passed nothing.
LEMMA ClimbStarts ==
  ASSUME NEW t, NEW rq, rq.parent \in Pages \cup {None}
  PROVE  Climbed(t, rq, [cursor |-> rq.parent, depth |-> 1])
<1> DEFINE w == [cursor |-> rq.parent, depth |-> 1]
<1>1. \E A \in SUBSET Pages :
        /\ rq.kind = "move" => rq.page \notin A
        /\ rq.parent \in A \cup {w.cursor}
        /\ \A a \in A : t[a].project = rq.project /\ t[a].parent \in A \cup {w.cursor}
  <2>1. {} \in SUBSET Pages /\ rq.parent \in {} \cup {w.cursor}
    OBVIOUS
  <2> QED
    BY <2>1
<1>2. ASSUME NEW level \in LevelMaps
      PROVE  DepthOf(level, rq.parent) + 1 = w.depth + DepthOf(level, w.cursor)
  BY DEF DepthOf, LevelMaps
<1> QED
  BY <1>1, <1>2 DEF Climbed

\* The request has the Project row, and the pages are nobody else's.
LEMMA LockProjectInv ==
  ASSUME IInv, NEW r \in Requests, LockProject(r)
  PROVE  IInv'
<1> DEFINE rq == req[r]
           w == [cursor |-> rq.parent, depth |-> 1]
           next == IF rq.kind = "create" THEN "walk" ELSE "lockPage"
<1>1. /\ pc[r] = "lockProject" /\ pc' = [pc EXCEPT ![r] = next]
      /\ walk' = [walk EXCEPT ![r] = w]
      /\ UNCHANGED <<page, work, req, current, sharers>>
      /\ CanForUpdate(r, <<"Project", rq.project>>)
      /\ holder' = [x \in DOMAIN holder |-> IF x = <<"Project", rq.project>> THEN r ELSE holder[x]]
  BY DEF LockProject, Goto, StartWalk, ForUpdate
<1>2. /\ rq \in Request /\ rq.project \in Projects /\ rq.parent \in Pages \cup {None}
      /\ rq.kind # "create" => rq.page \in Pages
      /\ work[r] = Empty /\ page \in Table
  BY <1>1, RequestIs DEF Writing
<1>3. w \in Walks /\ next \in PCs
  BY <1>2 DEF Walks, PCs
<1>4. Good(page, next, rq, w, Empty, current[r])
  <2>1. Climbed(page, rq, w)
    BY <1>2, ClimbStarts
  <2>2. CASE rq.kind = "create"
    BY <1>2, <2>1, <2>2, MaxDepthAssumption
       DEF Good, Shape, PageRead, Walked, Checked, Written, Writing, WritesOwn, Past
  <2>3. CASE rq.kind # "create"
    BY <1>2, <2>3
       DEF Good, Shape, PageRead, Walked, Checked, Written, Writing, WritesOwn, Past
  <2> QED
    BY <2>2, <2>3
<1>5. /\ pc'[r] = next /\ walk'[r] = w /\ work'[r] = Empty /\ req'[r] = rq
      /\ \A q \in Requests \ {r} : pc'[q] = pc[q] /\ walk'[q] = walk[q]
  BY <1>1, <1>2, RequestIs
<1> HIDE DEF next, w
<1>6. \A j \in Projects : <<"Project", j>> \in LockRows
  BY DEF LockRows
<1>7. holder'[<<"Project", rq.project>>] = r /\ holder' \in [LockRows -> Requests \cup {None}]
  BY <1>1, <1>2, <1>6, RequestIs
<1>8. ASSUME NEW q \in Requests \ {r}, NEW j \in Projects, holder[<<"Project", j>>] = q
      PROVE  holder'[<<"Project", j>>] = q
  BY <1>1, <1>6, <1>8, RequestIs, WikiNoneAssumption DEF CanForUpdate
<1>9. AllGood(r)' /\ HasProject(r)'
  BY <1>1, <1>4, <1>5, <1>7 DEF AllGood, HasProject
<1>10. TypeOK'
  BY <1>1, <1>3, <1>7, RequestIs, TypesAreNext
<1> QED
  BY <1>1, <1>5, <1>8, <1>9, <1>10, EmptyIs, StepOf

\* A statement that only reads takes the request to the next one.
LEMMA GoOnInv ==
  ASSUME IInv, NEW r \in Requests, pc[r] \notin {"idle", "lockProject"}, NEW next \in PCs,
         Goto(r, next), UNCHANGED <<page, work, req, walk, current, holder, sharers>>,
         Good(page, next, req[r], walk[r], work[r], current[r])
  PROVE  IInv'
<1>1. pc'[r] = next /\ \A q \in Requests \ {r} : pc'[q] = pc[q]
  BY RequestIs DEF Goto
<1>2. AllGood(r)' /\ HasProject(r)'
  BY <1>1, RequestIs DEF AllGood, HasProject
<1>3. TypeOK'
  BY RequestIs, TypesAreNext DEF Goto
<1>4. \A q \in Requests \ {r} : DOMAIN work[r] \cap DOMAIN work[q] = {}
  BY DEF IInv, Disjoint
<1> QED
  BY <1>1, <1>2, <1>3, <1>4, StepOf

\* Two requests that have their Projects do not have the same.
LEMMA ProjectsDiffer ==
  ASSUME IInv, NEW r \in Requests, NEW q \in Requests, r # q,
         pc[r] \notin {"idle", "lockProject"}, pc[q] \notin {"idle", "lockProject"}
  PROVE  req[r].project # req[q].project
BY DEF IInv, HasProject

\* What another request has written is not of the Project of r.
LEMMA OthersWriteElsewhere ==
  ASSUME IInv, NEW r \in Requests, pc[r] \notin {"idle", "lockProject"},
         NEW q \in Requests \ {r}, NEW x \in DOMAIN work[q]
  PROVE  page[x].project # req[r].project
<1>1. Writing(pc[q], req[q]) /\ req[r].project \in Projects
  BY RequestIs, EmptyIs
<1>2. pc[q] \in Past
  BY <1>1, RequestIs DEF Writing, Past, PCs
<1>3. req[q].project # req[r].project
  BY <1>2, ProjectsDiffer DEF Past
<1>4. Good(page, pc[q], req[q], walk[q], work[q], current[q])
  BY RequestIs
<1>5. CASE req[q].kind # "create"
  BY <1>2, <1>3, <1>4, <1>5 DEF Good, WritesOwn
<1>6. CASE req[q].kind = "create"
  <2>1. pc[q] = "commit"
    BY <1>1, <1>4, <1>6 DEF Good, Shape, Writing
  <2>2. PICK n \in Pages : Inserted(page, req[q], work[q], n)
    BY <1>4, <1>6, <2>1 DEF Good, Written
  <2>3. page[x] = NoPage
    BY <2>2 DEF Inserted
  <2> QED
    BY <1>1, <2>3, RowIs
<1> QED
  BY <1>5, <1>6

\* A statement that writes rows takes the request to the next one.
LEMMA WriteInv ==
  ASSUME IInv, NEW r \in Requests, pc[r] \in Past, NEW next \in PCs \ {"idle", "lockProject"},
         NEW rows \in Works, Write(r, rows), Goto(r, next),
         UNCHANGED <<page, req, walk, current, holder, sharers>>,
         \A q \in Requests \ {r} : DOMAIN rows \cap DOMAIN work[q] = {},
         \A wk \in Works :
           /\ DOMAIN wk = DOMAIN work[r] \cup DOMAIN rows
           /\ \A x \in Pages : Over(page, wk)[x] = IF x \in DOMAIN rows THEN rows[x] ELSE Seen(r)[x]
           /\ \A x \in DOMAIN rows : wk[x] = rows[x]
           => Good(page, next, req[r], walk[r], wk, current[r])
  PROVE  IInv'
<1> DEFINE wk == [p \in DOMAIN work[r] \cup DOMAIN rows |->
                    IF p \in DOMAIN rows THEN rows[p] ELSE work[r][p]]
<1>1. /\ page \in Table /\ work \in [Requests -> Works] /\ work[r] \in Works
      /\ DOMAIN work[r] \subseteq Pages /\ DOMAIN rows \subseteq Pages
      /\ \A x \in DOMAIN work[r] : work[r][x] \in Row \cup {NoPage}
      /\ \A x \in DOMAIN rows : rows[x] \in Row \cup {NoPage}
  BY RequestIs, WorkIs
<1>2. wk \in Works
  <2>1. DOMAIN work[r] \cup DOMAIN rows \in SUBSET Pages
    BY <1>1
  <2>2. wk \in [DOMAIN work[r] \cup DOMAIN rows -> Row \cup {NoPage}]
    BY <1>1
  <2> QED
    BY <2>1, <2>2 DEF Works
<1>3. work' = [work EXCEPT ![r] = wk]
  BY DEF Write
<1>4. /\ DOMAIN wk = DOMAIN work[r] \cup DOMAIN rows
      /\ \A x \in DOMAIN rows : wk[x] = rows[x]
      /\ \A x \in Pages : Over(page, wk)[x] = IF x \in DOMAIN rows THEN rows[x] ELSE Seen(r)[x]
  BY <1>1 DEF Over, Seen
<1> HIDE DEF wk
<1>5. Good(page, next, req[r], walk[r], wk, current[r])
  BY <1>2, <1>4
<1>6. /\ pc'[r] = next /\ work'[r] = wk
      /\ \A q \in Requests \ {r} : pc'[q] = pc[q] /\ work'[q] = work[q]
  BY <1>1, <1>3, RequestIs DEF Goto
<1>7. AllGood(r)' /\ HasProject(r)'
  <2>1. AllGood(r)'
    BY <1>5, <1>6 DEF AllGood
  <2> QED
    BY <2>1, <1>6, RequestIs DEF HasProject, Past
<1>8. TypeOK'
  BY <1>2, <1>3, RequestIs, TypesAreNext DEF Goto
<1>9. \A q \in Requests \ {r} : DOMAIN work'[r] \cap DOMAIN work[q] = {}
  BY <1>4, <1>6 DEF IInv, Disjoint
<1> QED
  BY <1>6, <1>7, <1>8, <1>9, StepOf

\* The row that is read is the committed one, and stays so.
LEMMA LockPageInv ==
  ASSUME IInv, NEW r \in Requests, LockPage(r)
  PROVE  IInv'
<1> DEFINE rq == req[r]
           p == rq.page
           next == FirstCheck(rq.kind)
<1>1. /\ pc[r] = "lockPage" /\ CanForUpdate(r, <<"Page", p>>)
      /\ \/ Rollback(r)
         \/ /\ p \in Stored /\ page[p].project = rq.project /\ rq.parent # p
            /\ ForUpdate(r, {<<"Page", p>>})
            /\ current' = [current EXCEPT ![r] = page[p]]
            /\ Goto(r, next)
            /\ UNCHANGED <<page, work, req, walk, sharers>>
  BY DEF LockPage
<1>2. CASE Rollback(r)
  BY <1>2, RollbackInv
<1>3. CASE /\ p \in Stored /\ page[p].project = rq.project /\ rq.parent # p
           /\ ForUpdate(r, {<<"Page", p>>})
           /\ current' = [current EXCEPT ![r] = page[p]]
           /\ Goto(r, next)
           /\ UNCHANGED <<page, work, req, walk, sharers>>
  <2>1. /\ rq \in Request /\ rq.project \in Projects /\ rq.parent \in Pages \cup {None}
        /\ rq.kind # "create" /\ rq.kind \in Kinds /\ p \in Pages
        /\ work[r] = Empty /\ page \in Table
        /\ walk[r] = [cursor |-> rq.parent, depth |-> 1]
    BY <1>1, RequestIs DEF Writing, Good, Shape, Walked
  <2>2. /\ next \in {"edit", "children", "walk"}
        /\ next = "edit" => rq.kind = "update"
        /\ next = "children" => rq.kind = "remove"
        /\ next = "walk" => rq.kind = "move"
    BY <2>1 DEF FirstCheck, Kinds
  <2>3. Climbed(page, rq, walk[r])
    BY <2>1, ClimbStarts
  <2> HIDE DEF next
  <2>4. Good(page, next, rq, walk[r], Empty, page[p])
    <3>1. Shape(next, rq) /\ PageRead(page, next, rq, page[p])
      BY <1>3, <2>1, <2>2 DEF Shape, PageRead
    <3>2. Walked(page, next, rq, walk[r]) /\ Checked(page, next, rq, walk[r])
      BY <2>1, <2>2, <2>3 DEF Walked, Checked
    <3>3. Written(page, next, rq, Empty, page[p]) /\ WritesOwn(page, next, rq, Empty)
      BY <2>2, EmptyIs DEF Written, Writing, WritesOwn
    <3> QED
      BY <3>1, <3>2, <3>3 DEF Good
  <2>5. next \in PCs /\ page[p] \in Row \cup {NoPage}
    BY <2>1, <2>2 DEF PCs, Table
  <2>6. /\ pc'[r] = next /\ current'[r] = page[p]
        /\ \A q \in Requests \ {r} : pc'[q] = pc[q] /\ current'[q] = current[q]
    BY <1>3, RequestIs DEF Goto
  <2>7. /\ holder' \in [LockRows -> Requests \cup {None}]
        /\ \A j \in Projects : holder'[<<"Project", j>>] = holder[<<"Project", j>>]
    BY <1>3, RequestIs DEF ForUpdate, LockRows
  <2>8. TypeOK'
    BY <1>3, <2>5, <2>7, RequestIs, TypesAreNext DEF Goto
  <2>9. AllGood(r)'
    BY <1>3, <2>1, <2>4, <2>6 DEF AllGood
  <2>10. HasProject(r)'
    BY <1>1, <1>3, <2>1, <2>7, RequestIs DEF HasProject
  <2>11. \A q \in Requests \ {r} : DOMAIN work'[r] \cap DOMAIN work[q] = {}
    BY <1>3, <2>1, EmptyIs
  <2> QED
    BY <1>3, <2>6, <2>7, <2>8, <2>9, <2>10, <2>11, StepOf
<1> QED
  BY <1>1, <1>2, <1>3

\* The walk has come one ancestor higher, and has not met the page.
LEMMA AscendInv ==
  ASSUME IInv, NEW r \in Requests, Ascend(r)
  PROVE  IInv'
<1> DEFINE rq == req[r]
           c == walk[r].cursor
           d == walk[r].depth + 1
           w == [cursor |-> page[c].parent, depth |-> d]
<1>1. /\ pc[r] = "walk" /\ c # None
      /\ \/ Rollback(r)
         \/ /\ c \in Stored /\ page[c].project = rq.project
            /\ IF rq.kind = "create" THEN d <= MaxDepth ELSE c # rq.page
            /\ walk' = [walk EXCEPT ![r] = w]
            /\ UNCHANGED <<page, work, pc, req, current, holder, sharers>>
  BY DEF Ascend
<1>2. CASE Rollback(r)
  BY <1>2, RollbackInv
<1>3. CASE /\ c \in Stored /\ page[c].project = rq.project
           /\ IF rq.kind = "create" THEN d <= MaxDepth ELSE c # rq.page
           /\ walk' = [walk EXCEPT ![r] = w]
           /\ UNCHANGED <<page, work, pc, req, current, holder, sharers>>
  <2>1. /\ rq \in Request /\ rq.project \in Projects /\ rq.parent \in Pages \cup {None}
        /\ rq.kind \in {"create", "move"} /\ c \in Pages
        /\ work[r] = Empty /\ page \in Table /\ walk[r].depth \in Nat
        /\ page[c].parent \in Pages \cup {None}
        /\ Good(page, "walk", rq, walk[r], work[r], current[r])
    BY <1>1, <1>3, RequestIs, TableIs DEF Writing, Good, Shape, Walks, Stored
  <2>2. Climbed(page, rq, walk[r])
    BY <2>1 DEF Good, Walked, Past, PCs
  <2>3. Climbed(page, rq, w)
    <3>1. PICK A \in SUBSET Pages :
            /\ rq.kind = "move" => rq.page \notin A
            /\ rq.parent \in A \cup {c}
            /\ \A a \in A : page[a].project = rq.project /\ page[a].parent \in A \cup {c}
      BY <2>2 DEF Climbed
    <3>2. /\ A \cup {c} \in SUBSET Pages
          /\ rq.kind = "move" => rq.page \notin A \cup {c}
          /\ rq.parent \in (A \cup {c}) \cup {w.cursor}
          /\ \A a \in A \cup {c} :
               page[a].project = rq.project /\ page[a].parent \in (A \cup {c}) \cup {w.cursor}
      BY <1>3, <2>1, <3>1
    <3>3. ASSUME NEW level \in LevelMaps, Levels(level, page, rq.project)
          PROVE  DepthOf(level, rq.parent) + 1 = w.depth + DepthOf(level, w.cursor)
      <4>1. DepthOf(level, rq.parent) + 1 = walk[r].depth + DepthOf(level, c)
        BY <2>2, <3>3 DEF Climbed
      <4>2. DepthOf(level, c) = level[c] /\ level[c] \in Nat
        BY <1>1, <2>1 DEF DepthOf, LevelMaps
      <4>3. level[c] = 1 + DepthOf(level, page[c].parent)
        <5>1. IF page[c].parent = None THEN level[c] = 1
              ELSE level[c] = level[page[c].parent] + 1
          BY <1>3, <2>1, <3>3 DEF Levels
        <5> QED
          BY <2>1, <4>2, <5>1 DEF DepthOf, LevelMaps
      <4>4. DepthOf(level, page[c].parent) \in Nat
        BY <2>1 DEF DepthOf, LevelMaps
      <4> QED
        BY <2>1, <4>1, <4>2, <4>3, <4>4
    <3> HIDE DEF w, c
    <3>4. \E B \in SUBSET Pages :
            /\ rq.kind = "move" => rq.page \notin B
            /\ rq.parent \in B \cup {w.cursor}
            /\ \A a \in B : page[a].project = rq.project /\ page[a].parent \in B \cup {w.cursor}
      BY <3>2
    <3> QED
      BY <3>3, <3>4 DEF Climbed
  <2>4. w \in Walks /\ (rq.kind = "create" => w.depth <= MaxDepth)
    BY <1>3, <2>1 DEF Walks
  <2> HIDE DEF w
  <2>5. Good(page, "walk", rq, w, work[r], current[r])
    BY <2>1, <2>3, <2>4 DEF Good, Walked, Checked
  <2>6. walk'[r] = w /\ \A q \in Requests \ {r} : walk'[q] = walk[q]
    BY <1>3, RequestIs
  <2>7. AllGood(r)' /\ HasProject(r)'
    <3>1. AllGood(r)'
      BY <1>1, <1>3, <2>5, <2>6 DEF AllGood
    <3> QED
      BY <1>3, <3>1, RequestIs DEF HasProject
  <2>8. TypeOK'
    BY <1>3, <2>4, RequestIs, TypesAreNext
  <2>9. \A q \in Requests \ {r} : DOMAIN work'[r] \cap DOMAIN work[q] = {}
    BY <1>3, <2>1, EmptyIs
  <2> QED
    BY <1>3, <2>6, <2>7, <2>8, <2>9, StepOf
<1> QED
  BY <1>1, <1>2, <1>3

\* The walk has ended at a root: the new parent is not below the page.
LEMMA ReachRootInv ==
  ASSUME IInv, NEW r \in Requests, ReachRoot(r)
  PROVE  IInv'
<1> DEFINE next == IF req[r].kind = "create" THEN "insert" ELSE "height"
<1>1. /\ pc[r] = "walk" /\ walk[r].cursor = None /\ Goto(r, next)
      /\ UNCHANGED <<page, work, req, walk, current, holder, sharers>>
  BY DEF ReachRoot
<1>2. Good(page, "walk", req[r], walk[r], work[r], current[r]) /\ work[r] = Empty
  BY <1>1, RequestIs DEF Writing
<1>3. Good(page, next, req[r], walk[r], work[r], current[r])
  <2>1. req[r].kind \in {"create", "move"}
    BY <1>2 DEF Good, Shape
  <2>2. Climbed(page, req[r], walk[r]) /\ (req[r].kind = "create" => walk[r].depth <= MaxDepth)
    BY <1>2, <2>1 DEF Good, Walked, Past, PCs
  <2>3. Shape(next, req[r]) /\ PageRead(page, next, req[r], current[r])
    BY <1>2, <2>1 DEF Good, Shape, PageRead, Past, PCs
  <2>4. Walked(page, next, req[r], walk[r]) /\ Checked(page, next, req[r], walk[r])
    BY <1>1, <2>1, <2>2 DEF Walked, Checked
  <2>5. Written(page, next, req[r], work[r], current[r]) /\ WritesOwn(page, next, req[r], work[r])
    BY <1>2, EmptyIs DEF Written, Writing, WritesOwn
  <2> QED
    BY <2>3, <2>4, <2>5 DEF Good
<1>4. next \in PCs
  BY DEF PCs
<1> QED
  BY <1>1, <1>3, <1>4, GoOnInv

\* A check that lets the request pass, or refuses it.
LEMMA CheckInv ==
  ASSUME IInv, NEW r \in Requests, pc[r] \notin {"idle", "lockProject"},
         NEW allowed, NEW next \in PCs, Check(r, allowed, next),
         allowed => Good(page, next, req[r], walk[r], work[r], current[r])
  PROVE  IInv'
<1>1. CASE allowed
  BY <1>1, GoOnInv DEF Check
<1>2. CASE ~ allowed
  BY <1>2, RollbackInv DEF Check
<1> QED
  BY <1>1, <1>2

\* An edit writes neither parent nor position.
LEMMA EditPageInv ==
  ASSUME IInv, NEW r \in Requests, EditPage(r)
  PROVE  IInv'
<1>1. pc[r] = "edit" /\ Check(r, TRUE, "commit")
  BY DEF EditPage
<1>2. Good(page, "edit", req[r], walk[r], work[r], current[r]) /\ work[r] = Empty
  BY <1>1, RequestIs DEF Writing
<1>3. req[r].kind = "update"
  BY <1>2 DEF Good, Shape
<1>4. Good(page, "commit", req[r], walk[r], work[r], current[r])
  BY <1>2, <1>3, EmptyIs
     DEF Good, Shape, PageRead, Walked, Checked, Written, Writing, WritesOwn, Past, PCs
<1> QED
  BY <1>1, <1>4, CheckInv DEF PCs

\* A page that is removed has no children.
LEMMA CountChildrenInv ==
  ASSUME IInv, NEW r \in Requests, CountChildren(r)
  PROVE  IInv'
<1> DEFINE allowed == ChildrenOf(page, {req[r].page}) = {}
<1>1. pc[r] = "children" /\ Check(r, allowed, "delete")
  BY DEF CountChildren
<1>2. Good(page, "children", req[r], walk[r], work[r], current[r]) /\ work[r] = Empty
  BY <1>1, RequestIs DEF Writing
<1>3. req[r].kind = "remove"
  BY <1>2 DEF Good, Shape
<1>4. allowed => Childless(page, req[r])
  BY DEF ChildrenOf, Childless
<1>5. allowed => Good(page, "delete", req[r], walk[r], work[r], current[r])
  BY <1>2, <1>3, <1>4, EmptyIs
     DEF Good, Shape, PageRead, Walked, Checked, Written, Writing, WritesOwn, Past, PCs
<1> QED
  BY <1>1, <1>5, CheckInv DEF PCs

\* What is below the page fits under its new parent.
LEMMA CheckHeightInv ==
  ASSUME IInv, NEW r \in Requests, CheckHeight(r)
  PROVE  IInv'
<1> DEFINE rq == req[r]
           height == HeightOf(page, {rq.page})
           allowed == walk[r].depth + height - 1 <= MaxDepth
<1>1. pc[r] = "height" /\ Check(r, allowed, "index")
  BY DEF CheckHeight
<1>2. /\ Good(page, "height", rq, walk[r], work[r], current[r]) /\ work[r] = Empty
      /\ page \in Table /\ rq.project \in Projects /\ walk[r].depth \in Nat
  BY <1>1, RequestIs DEF Writing, Walks
<1>3. rq.kind = "move" /\ rq.page \in Pages
  BY <1>2 DEF Good, Shape
<1>4. page[rq.page].project = rq.project
  BY <1>2, <1>3 DEF Good, PageRead, Past, PCs
<1>5. \A k \in Projects : Forest(page, k)
  BY DEF IInv
<1> HIDE DEF rq, height
<1>6. ASSUME allowed
      PROVE  Fits(page, rq, walk[r])
  <2> SUFFICES ASSUME NEW level \in LevelMaps, Levels(level, page, rq.project),
                      NEW x \in Below(page, rq.project, rq.page)
               PROVE  level[x] + walk[r].depth <= MaxDepth + level[rq.page]
    BY DEF Fits
  <2>1. height \in Nat \ {0} /\ level[x] + 1 <= level[rq.page] + height
    BY <1>2, <1>3, <1>4, <1>5, HeightBounds DEF height
  <2>2. level[x] \in Nat /\ level[rq.page] \in Nat
    BY <1>3 DEF LevelMaps, Below
  <2> QED
    BY <1>2, <1>6, <2>1, <2>2, MaxDepthAssumption
<1>7. Fits(page, rq, walk[r]) => Good(page, "index", rq, walk[r], work[r], current[r])
  BY <1>2, <1>3, EmptyIs
     DEF Good, Shape, PageRead, Walked, Checked, Written, Writing, WritesOwn, Past, PCs
<1>8. "index" \in PCs
  BY DEF PCs
<1> HIDE DEF allowed
<1> QED
  BY <1>1, <1>6, <1>7, <1>8, CheckInv DEF rq

\* The index is one of the new siblings' positions, or the next.
LEMMA CheckIndexInv ==
  ASSUME IInv, NEW r \in Requests, CheckIndex(r)
  PROVE  IInv'
<1> DEFINE rq == req[r]
           allowed == rq.index <= Cardinality(Others(page, rq))
           unmoved == current[r].parent = rq.parent /\ current[r].position = rq.index
           next == IF unmoved THEN "commit" ELSE "closeGap"
<1>1. pc[r] = "index" /\ Check(r, allowed, next)
  BY DEF CheckIndex, Others
<1>2. Good(page, "index", rq, walk[r], work[r], current[r]) /\ work[r] = Empty
  BY <1>1, RequestIs DEF Writing
<1>3. rq.kind = "move"
  BY <1>2 DEF Good, Shape
<1>4. next \in {"commit", "closeGap"}
  OBVIOUS
<1> HIDE DEF next
<1>5. ASSUME allowed
      PROVE  Good(page, next, rq, walk[r], work[r], current[r])
  <2>1. Shape(next, rq) /\ PageRead(page, next, rq, current[r])
    BY <1>2, <1>3, <1>4 DEF Good, Shape, PageRead, Past, PCs
  <2>2. Walked(page, next, rq, walk[r]) /\ Checked(page, next, rq, walk[r])
    BY <1>2, <1>3, <1>4, <1>5 DEF Good, Walked, Checked, Past, PCs
  <2>3. Written(page, next, rq, work[r], current[r]) /\ WritesOwn(page, next, rq, work[r])
    BY <1>2, <1>3, <1>4, EmptyIs DEF Written, Writing, WritesOwn
  <2> QED
    BY <2>1, <2>2, <2>3 DEF Good
<1>6. next \in PCs
  BY <1>4 DEF PCs
<1> HIDE DEF allowed
<1> QED
  BY <1>1, <1>5, <1>6, CheckInv

\* Rows of pages are something a request may have written.
LEMMA RowsAreWork ==
  ASSUME NEW S \in SUBSET Pages, NEW f \in [S -> Row \cup {NoPage}]
  PROVE  f \in Works /\ DOMAIN f = S
BY DEF Works

\* A new page is the last child of its parent.
LEMMA InsertPageInv ==
  ASSUME IInv, NEW r \in Requests, InsertPage(r)
  PROVE  IInv'
<1> DEFINE rq == req[r]
           taken == Positions(page, Siblings(page, rq.project, rq.parent))
           row == [project |-> rq.project, parent |-> rq.parent, position |-> NextPosition(taken)]
<1>1. PICK p \in Pages \ Stored :
        /\ \A q \in Requests : p \notin DOMAIN work[q]
        /\ \/ Rollback(r)
           \/ /\ Write(r, [q \in {p} |-> row])
              /\ Goto(r, "commit")
              /\ UNCHANGED <<page, req, walk, current, holder, sharers>>
  BY DEF InsertPage, Positions
<1>2. pc[r] = "insert"
  BY DEF InsertPage
<1>3. CASE Rollback(r)
  BY <1>3, RollbackInv
<1>4. CASE /\ Write(r, [q \in {p} |-> row]) /\ Goto(r, "commit")
           /\ UNCHANGED <<page, req, walk, current, holder, sharers>>
  <2>1. /\ Good(page, "insert", rq, walk[r], work[r], current[r]) /\ work[r] = Empty
        /\ rq.kind = "create" /\ rq \in Request /\ rq.project \in Projects
        /\ rq.parent \in Pages \cup {None} /\ page \in Table
    BY <1>2, RequestIs DEF Writing, Good, Shape
  <2>2. row \in Row
    <3>1. Dense(page, rq.project, rq.parent)
      BY <2>1 DEF IInv
    <3>2. taken = 0 .. Cardinality(Siblings(page, rq.project, rq.parent)) - 1
      BY <3>1 DEF Dense
    <3>3. NextPosition(taken) \in Nat
      <4>1. Cardinality(Siblings(page, rq.project, rq.parent)) \in Nat
        BY <2>1, GroupIsFinite
      <4> QED
        BY <3>2, <4>1, NextPositionOfInterval
    <3> HIDE DEF taken
    <3> QED
      BY <2>1, <3>3 DEF Row
  <2> DEFINE rows == [q \in {p} |-> row]
  <2>3. rows \in Works /\ DOMAIN rows = {p} /\ rows[p] = row
    <3> HIDE DEF row
    <3>1. {p} \in SUBSET Pages /\ rows \in [{p} -> Row \cup {NoPage}]
      BY <2>2
    <3> QED
      BY <3>1, RowsAreWork
  <2>4. page[p] = NoPage
    BY DEF Stored
  <2> HIDE DEF rows
  <2>5. ASSUME NEW wk \in Works, DOMAIN wk = DOMAIN work[r] \cup DOMAIN rows,
               \A x \in DOMAIN rows : wk[x] = rows[x]
        PROVE  Good(page, "commit", rq, walk[r], wk, current[r])
    <3>1. Inserted(page, rq, wk, p)
      <4>1. DOMAIN wk = {p} /\ wk[p] = row
        BY <2>1, <2>3, <2>5, EmptyIs
      <4> QED
        BY <2>4, <4>1 DEF Inserted
    <3>2. Shape("commit", rq) /\ PageRead(page, "commit", rq, current[r])
      BY <2>1 DEF Shape, PageRead
    <3>3. Walked(page, "commit", rq, walk[r]) /\ Checked(page, "commit", rq, walk[r])
      BY <2>1 DEF Good, Walked, Checked, Past, PCs
    <3>4. Written(page, "commit", rq, wk, current[r]) /\ WritesOwn(page, "commit", rq, wk)
      BY <2>1, <3>1 DEF Written, Writing, WritesOwn
    <3> QED
      BY <3>2, <3>3, <3>4 DEF Good
  <2>6. \A q \in Requests \ {r} : DOMAIN rows \cap DOMAIN work[q] = {}
    BY <1>1, <2>3
  <2>7. "insert" \in Past /\ "commit" \in PCs \ {"idle", "lockProject"}
    BY DEF Past, PCs
  <2>8. Write(r, rows)
    BY <1>4 DEF rows
  <2> HIDE DEF rq
  <2> QED
    BY <1>2, <1>4, <2>3, <2>5, <2>6, <2>7, <2>8, WriteInv DEF rq
<1> QED
  BY <1>1, <1>3, <1>4

\* A request that works on a page has read its row.
LEMMA PageIs ==
  ASSUME IInv, NEW r \in Requests, pc[r] \in Past, req[r].kind # "create"
  PROVE  /\ req[r].page \in Pages /\ page[req[r].page] = current[r]
         /\ current[r].project = req[r].project /\ req[r].project \in Projects
         /\ current[r] \in Row
<1>1. /\ PageRead(page, pc[r], req[r], current[r]) /\ page \in Table
      /\ req[r].page \in Pages /\ req[r].project \in Projects
  BY RequestIs DEF Good, Past
<1>2. page[req[r].page] = current[r] /\ current[r].project = req[r].project
  BY <1>1 DEF PageRead
<1> QED
  BY <1>1, <1>2, TableIs

\* The row of a page without children is deleted.
LEMMA DeletePageInv ==
  ASSUME IInv, NEW r \in Requests, DeletePage(r)
  PROVE  IInv'
<1> DEFINE rq == req[r]
           rows == [p \in {rq.page} |-> NoPage]
<1>1. /\ pc[r] = "delete"
      /\ \/ Rollback(r)
         \/ /\ Write(r, rows) /\ Goto(r, "closeGap")
            /\ UNCHANGED <<page, req, walk, current, holder, sharers>>
  BY DEF DeletePage
<1>2. CASE Rollback(r)
  BY <1>2, RollbackInv
<1>3. CASE /\ Write(r, rows) /\ Goto(r, "closeGap")
           /\ UNCHANGED <<page, req, walk, current, holder, sharers>>
  <2>1. /\ Good(page, "delete", rq, walk[r], work[r], current[r]) /\ work[r] = Empty
        /\ rq.kind = "remove" /\ rq \in Request /\ page \in Table
    BY <1>1, RequestIs DEF Writing, Good, Shape
  <2>2. pc[r] \in Past /\ "closeGap" \in PCs \ {"idle", "lockProject"}
    BY <1>1 DEF Past, PCs
  <2>3. rq.page \in Pages /\ page[rq.page].project = rq.project
    BY <2>1, <2>2, PageIs
  <2>4. rows \in Works /\ DOMAIN rows = {rq.page}
    <3>1. {rq.page} \in SUBSET Pages /\ rows \in [{rq.page} -> Row \cup {NoPage}]
      BY <2>3
    <3> QED
      BY <3>1, RowsAreWork
  <2>5. ASSUME NEW wk \in Works, DOMAIN wk = DOMAIN work[r] \cup DOMAIN rows,
               \A x \in DOMAIN rows : wk[x] = rows[x]
        PROVE  Good(page, "closeGap", rq, walk[r], wk, current[r])
    <3>1. wk = [p \in {rq.page} |-> NoPage] /\ DOMAIN wk = {rq.page}
      <4>1. DOMAIN wk = {rq.page} /\ wk[rq.page] = NoPage
        BY <2>1, <2>4, <2>5, EmptyIs
      <4>2. wk = [x \in DOMAIN wk |-> wk[x]]
        BY DEF Works
      <4> QED
        BY <4>1, <4>2
    <3>2. Shape("closeGap", rq) /\ PageRead(page, "closeGap", rq, current[r])
      BY <2>1 DEF Good, Shape, PageRead, Past, PCs
    <3>3. Walked(page, "closeGap", rq, walk[r]) /\ Checked(page, "closeGap", rq, walk[r])
      BY <2>1 DEF Good, Walked, Checked
    <3>4. /\ Written(page, "closeGap", rq, wk, current[r])
          /\ WritesOwn(page, "closeGap", rq, wk)
      BY <2>1, <2>3, <3>1 DEF Written, Writing, WritesOwn
    <3> QED
      BY <3>2, <3>3, <3>4 DEF Good
  <2>6. \A q \in Requests \ {r} : DOMAIN rows \cap DOMAIN work[q] = {}
    BY <2>2, <2>3, <2>4, OthersWriteElsewhere DEF Past
  <2> HIDE DEF rows, rq
  <2> QED
    BY <1>3, <2>2, <2>4, <2>5, <2>6, WriteInv DEF rq
<1> QED
  BY <1>1, <1>2, <1>3

\* The siblings the page leaves are moved up.
LEMMA CloseGapInv ==
  ASSUME IInv, NEW r \in Requests, CloseGap(r)
  PROVE  IInv'
<1> DEFINE rq == req[r]
           cur == current[r]
           behind == {p \in Siblings(Seen(r), rq.project, cur.parent) :
                        Seen(r)[p].position > cur.position}
           rows == [p \in behind |-> [Seen(r)[p] EXCEPT !.position = @ - 1]]
           next == IF rq.kind = "move" THEN "openGap" ELSE "commit"
<1>1. /\ pc[r] = "closeGap" /\ Write(r, rows) /\ Goto(r, next)
      /\ UNCHANGED <<page, req, walk, current, holder, sharers>>
  BY DEF CloseGap
<1>2. /\ Good(page, "closeGap", rq, walk[r], work[r], cur) /\ page \in Table
      /\ work[r] \in Works
      /\ rq \in Request /\ rq.kind \in {"remove", "move"} /\ rq.parent \in Pages \cup {None}
  BY <1>1, RequestIs DEF Good, Shape
<1>3. pc[r] \in Past /\ next \in PCs \ {"idle", "lockProject"}
  BY <1>1 DEF Past, PCs
<1>4. /\ rq.page \in Pages /\ page[rq.page] = cur /\ cur.project = rq.project
      /\ rq.project \in Projects /\ cur \in Row
  BY <1>2, <1>3, PageIs
<1>5. /\ rq.kind = "move" => work[r] = Empty
      /\ rq.kind = "remove" => work[r] = [p \in {rq.page} |-> NoPage]
  BY <1>2 DEF Good, Written, Writing
<1>6. /\ Seen(r) \in Table /\ DOMAIN work[r] \subseteq {rq.page}
      /\ \A x \in Pages : x # rq.page => Seen(r)[x] = page[x]
      /\ rq.kind = "move" => Seen(r)[rq.page] = page[rq.page]
      /\ rq.kind = "remove" => Seen(r)[rq.page] = NoPage
  <2>1. Seen(r) = Over(page, work[r]) /\ DOMAIN work[r] \subseteq {rq.page}
    BY <1>2, <1>5, EmptyIs DEF Seen, Over
  <2>2. \A x \in Pages : Seen(r)[x] = IF x \in DOMAIN work[r] THEN work[r][x] ELSE page[x]
    BY DEF Seen
  <2> QED
    BY <1>2, <1>4, <1>5, <2>1, <2>2, WorkIs, EmptyIs
<1>7. /\ behind \in SUBSET Pages
      /\ \A x \in Pages : x \in behind <=> /\ x # rq.page /\ page[x].project = rq.project
                                           /\ page[x].parent = cur.parent
                                           /\ page[x].position > cur.position
  <2>1. Siblings(Seen(r), rq.project, cur.parent)
          = {x \in Pages : Seen(r)[x].project = rq.project /\ Seen(r)[x].parent = cur.parent}
    BY <1>4, <1>6, TableIs
  <2>2. rq.page \notin behind
    <3>1. CASE rq.kind = "move"
      BY <1>4, <1>6, <3>1 DEF Row
    <3>2. CASE rq.kind = "remove"
      BY <1>4, <1>6, <2>1, <3>2, RowIs
    <3> QED
      BY <1>2, <3>1, <3>2
  <2> QED
    BY <1>6, <2>1, <2>2
<1> HIDE DEF behind
<1>8. rows \in Works /\ DOMAIN rows = behind
  <2>1. ASSUME NEW x \in behind
        PROVE  [Seen(r)[x] EXCEPT !.position = @ - 1] \in Row
    <3>1. Seen(r)[x] \in Row /\ Seen(r)[x].position > cur.position /\ cur.position \in Nat
      BY <1>2, <1>4, <1>6, <1>7, TableIs, RowIs
    <3> QED
      BY <3>1 DEF Row
  <2>2. rows \in [behind -> Row \cup {NoPage}]
    BY <2>1
  <2> QED
    BY <1>7, <2>2, RowsAreWork
<1>9. ASSUME NEW wk \in Works, DOMAIN wk = DOMAIN work[r] \cup DOMAIN rows,
             \A x \in Pages : Over(page, wk)[x] = IF x \in DOMAIN rows THEN rows[x] ELSE Seen(r)[x]
      PROVE  Good(page, next, rq, walk[r], wk, cur)
  <2>1. ASSUME NEW x \in Pages, x # rq.page
        PROVE  Over(page, wk)[x] = ClosedGap(page, rq, cur, x)
    BY <1>6, <1>7, <1>8, <1>9, <2>1 DEF ClosedGap
  <2>2. Over(page, wk)[rq.page] = Seen(r)[rq.page]
    BY <1>4, <1>7, <1>8, <1>9
  <2>3. WritesOwn(page, next, rq, wk)
    BY <1>4, <1>6, <1>7, <1>8, <1>9 DEF WritesOwn
  <2>4. CASE rq.kind = "move"
    <3>1. \A x \in Pages : Over(page, wk)[x] = ClosedGap(page, rq, cur, x)
      BY <1>6, <2>1, <2>2, <2>4 DEF ClosedGap
    <3>2. next = "openGap"
      BY <2>4
    <3> HIDE DEF next, rows, rq, cur
    <3>3. Shape(next, rq) /\ PageRead(page, next, rq, cur)
      BY <1>2, <2>4, <3>2 DEF Good, Shape, PageRead, Past, PCs
    <3>4. Walked(page, next, rq, walk[r]) /\ Checked(page, next, rq, walk[r])
      BY <1>2, <2>4, <3>2 DEF Good, Walked, Checked, Past, PCs
    <3>5. Written(page, next, rq, wk, cur)
      BY <2>4, <3>1, <3>2 DEF Written, Writing
    <3> QED
      BY <2>3, <3>3, <3>4, <3>5 DEF Good
  <2>5. CASE rq.kind = "remove"
    <3>1. \A x \in Pages : Over(page, wk)[x] = Removed(page, rq, cur, x)
      BY <1>6, <2>1, <2>2, <2>5 DEF Removed
    <3>2. next = "commit"
      BY <2>5
    <3> HIDE DEF next, rows, rq, cur
    <3>3. Shape(next, rq) /\ PageRead(page, next, rq, cur)
      BY <1>2, <2>5, <3>2 DEF Good, Shape, PageRead, Past, PCs
    <3>4. Walked(page, next, rq, walk[r]) /\ Checked(page, next, rq, walk[r])
      BY <1>2, <2>5, <3>2 DEF Good, Walked, Checked, Past, PCs
    <3>5. Written(page, next, rq, wk, cur)
      BY <2>5, <3>1, <3>2 DEF Written, Writing
    <3> QED
      BY <2>3, <3>3, <3>4, <3>5 DEF Good
  <2> QED
    BY <1>2, <2>4, <2>5
<1>10. \A q \in Requests \ {r} : DOMAIN rows \cap DOMAIN work[q] = {}
  BY <1>3, <1>7, <1>8, OthersWriteElsewhere DEF Past
<1> HIDE DEF rows, next, rq, cur
<1> QED
  BY <1>1, <1>3, <1>8, <1>9, <1>10, WriteInv DEF rq, cur

\* The siblings it joins are moved down.
LEMMA OpenGapInv ==
  ASSUME IInv, NEW r \in Requests, OpenGap(r)
  PROVE  IInv'
<1> DEFINE rq == req[r]
           cur == current[r]
           behind == {p \in Siblings(Seen(r), rq.project, rq.parent) \ {rq.page} :
                        Seen(r)[p].position >= rq.index}
           rows == [p \in behind |-> [Seen(r)[p] EXCEPT !.position = @ + 1]]
<1>1. /\ pc[r] = "openGap" /\ Write(r, rows) /\ Goto(r, "place")
      /\ UNCHANGED <<page, req, walk, current, holder, sharers>>
  BY DEF OpenGap
<1>2. /\ Good(page, "openGap", rq, walk[r], work[r], cur) /\ page \in Table
      /\ work[r] \in Works
      /\ rq \in Request /\ rq.kind = "move" /\ rq.parent \in Pages \cup {None}
      /\ \A x \in Pages : Over(page, work[r])[x] = ClosedGap(page, rq, cur, x)
  BY <1>1, RequestIs DEF Good, Shape, Written
<1>3. pc[r] \in Past /\ "place" \in PCs \ {"idle", "lockProject"}
  BY <1>1 DEF Past, PCs
<1>4. /\ rq.page \in Pages /\ page[rq.page] = cur /\ cur.project = rq.project
      /\ rq.project \in Projects /\ cur \in Row
  BY <1>2, <1>3, PageIs
<1>5. /\ Seen(r) \in Table
      /\ \A x \in Pages : Seen(r)[x] = ClosedGap(page, rq, cur, x)
  <2>1. Seen(r) = Over(page, work[r])
    BY DEF Seen, Over
  <2> QED
    BY <1>2, <2>1, WorkIs
<1>6. \A x \in Pages : Seen(r)[x].project = page[x].project /\ Seen(r)[x].parent = page[x].parent
  BY <1>2, <1>4, <1>5, GapRows
<1>7. /\ behind \in SUBSET Pages
      /\ \A x \in Pages : x \in behind <=> /\ x # rq.page /\ page[x].project = rq.project
                                           /\ page[x].parent = rq.parent
                                           /\ Seen(r)[x].position >= rq.index
  <2>1. Siblings(Seen(r), rq.project, rq.parent)
          = {x \in Pages : Seen(r)[x].project = rq.project /\ Seen(r)[x].parent = rq.parent}
    BY <1>4, <1>5, TableIs
  <2> QED
    BY <1>6, <2>1
<1> HIDE DEF behind
<1>8. rows \in Works /\ DOMAIN rows = behind
  <2>1. ASSUME NEW x \in behind
        PROVE  [Seen(r)[x] EXCEPT !.position = @ + 1] \in Row
    <3>1. Seen(r)[x] \in Row
      BY <1>4, <1>5, <1>6, <1>7, TableIs
    <3> QED
      BY <3>1 DEF Row
  <2>2. rows \in [behind -> Row \cup {NoPage}]
    BY <2>1
  <2> QED
    BY <1>7, <2>2, RowsAreWork
<1>9. ASSUME NEW wk \in Works, DOMAIN wk = DOMAIN work[r] \cup DOMAIN rows,
             \A x \in Pages : Over(page, wk)[x] = IF x \in DOMAIN rows THEN rows[x] ELSE Seen(r)[x]
      PROVE  Good(page, "place", rq, walk[r], wk, cur)
  <2>1. ASSUME NEW x \in Pages
        PROVE  Over(page, wk)[x] = OpenedGap(page, rq, cur, x)
    BY <1>5, <1>7, <1>8, <1>9 DEF OpenedGap
  <2>2. WritesOwn(page, "place", rq, wk)
    BY <1>2, <1>7, <1>8, <1>9 DEF Good, WritesOwn, Past, PCs
  <2> HIDE DEF rows, rq, cur
  <2>3. Shape("place", rq) /\ PageRead(page, "place", rq, cur)
    BY <1>2 DEF Good, Shape, PageRead, Past, PCs
  <2>4. Walked(page, "place", rq, walk[r]) /\ Checked(page, "place", rq, walk[r])
    BY <1>2 DEF Good, Walked, Checked, Past, PCs
  <2>5. Written(page, "place", rq, wk, cur)
    BY <2>1 DEF Written, Writing
  <2> QED
    BY <2>2, <2>3, <2>4, <2>5 DEF Good
<1>10. \A q \in Requests \ {r} : DOMAIN rows \cap DOMAIN work[q] = {}
  BY <1>3, <1>7, <1>8, OthersWriteElsewhere DEF Past
<1> HIDE DEF rows, rq, cur
<1> QED
  BY <1>1, <1>3, <1>8, <1>9, <1>10, WriteInv DEF rq, cur

\* The page takes the position between them.
LEMMA PlaceInv ==
  ASSUME IInv, NEW r \in Requests, Place(r)
  PROVE  IInv'
<1> DEFINE rq == req[r]
           cur == current[r]
           row == [Seen(r)[rq.page] EXCEPT !.parent = rq.parent, !.position = rq.index]
           rows == [p \in {rq.page} |->
                      [Seen(r)[p] EXCEPT !.parent = rq.parent, !.position = rq.index]]
<1>1. /\ pc[r] = "place" /\ Write(r, rows) /\ Goto(r, "commit")
      /\ UNCHANGED <<page, req, walk, current, holder, sharers>>
  BY DEF Place
<1>2. /\ Good(page, "place", rq, walk[r], work[r], cur) /\ page \in Table
      /\ work[r] \in Works
      /\ rq \in Request /\ rq.kind = "move" /\ rq.parent \in Pages \cup {None} /\ rq.index \in Nat
      /\ \A x \in Pages : Over(page, work[r])[x] = OpenedGap(page, rq, cur, x)
  BY <1>1, RequestIs DEF Good, Shape, Written
<1>3. pc[r] \in Past /\ "commit" \in PCs \ {"idle", "lockProject"}
  BY <1>1 DEF Past, PCs
<1>4. /\ rq.page \in Pages /\ page[rq.page] = cur /\ cur.project = rq.project
      /\ rq.project \in Projects /\ cur \in Row
  BY <1>2, <1>3, PageIs
<1>5. /\ \A x \in Pages : Seen(r)[x] = OpenedGap(page, rq, cur, x)
      /\ Seen(r)[rq.page] = page[rq.page]
  <2>1. Seen(r) = Over(page, work[r])
    BY DEF Seen, Over
  <2>2. OpenedGap(page, rq, cur, rq.page) = page[rq.page]
    BY DEF OpenedGap, ClosedGap
  <2> QED
    BY <1>2, <1>4, <2>1, <2>2
<1>6. row \in Row
  BY <1>2, <1>4, <1>5 DEF Row
<1>7. rows \in Works /\ DOMAIN rows = {rq.page} /\ rows[rq.page] = row
  <2>1. {rq.page} \in SUBSET Pages /\ rows \in [{rq.page} -> Row \cup {NoPage}]
    BY <1>4, <1>6
  <2> QED
    BY <2>1, RowsAreWork
<1>8. ASSUME NEW wk \in Works, DOMAIN wk = DOMAIN work[r] \cup DOMAIN rows,
             \A x \in Pages : Over(page, wk)[x] = IF x \in DOMAIN rows THEN rows[x] ELSE Seen(r)[x]
      PROVE  Good(page, "commit", rq, walk[r], wk, cur)
  <2>1. ASSUME NEW x \in Pages
        PROVE  Over(page, wk)[x] = Moved(page, rq, cur, x)
    BY <1>5, <1>7, <1>8 DEF Moved
  <2>2. WritesOwn(page, "commit", rq, wk)
    BY <1>2, <1>4, <1>7, <1>8 DEF Good, WritesOwn, Past, PCs
  <2> HIDE DEF rows, rq, cur
  <2>3. Shape("commit", rq) /\ PageRead(page, "commit", rq, cur)
    BY <1>2 DEF Good, Shape, PageRead, Past, PCs
  <2>4. Walked(page, "commit", rq, walk[r]) /\ Checked(page, "commit", rq, walk[r])
    BY <1>2 DEF Good, Walked, Checked, Past, PCs
  <2>5. Written(page, "commit", rq, wk, cur)
    BY <1>2, <2>1 DEF Written, Writing
  <2> QED
    BY <2>2, <2>3, <2>4, <2>5 DEF Good
<1>9. \A q \in Requests \ {r} : DOMAIN rows \cap DOMAIN work[q] = {}
  BY <1>3, <1>4, <1>7, OthersWriteElsewhere DEF Past
<1> HIDE DEF rows, rq, cur, row
<1> QED
  BY <1>1, <1>3, <1>7, <1>8, <1>9, WriteInv DEF rq, cur

\* What a transaction that commits knows.
LEMMA CommitKnows ==
  ASSUME IInv, NEW r \in Requests, pc[r] = "commit"
  PROVE  /\ Good(page, "commit", req[r], walk[r], work[r], current[r])
         /\ page \in Table /\ work[r] \in Works /\ walk[r] \in Walks
         /\ req[r].project \in Projects /\ req[r].kind \in Kinds
         /\ req[r].parent \in Pages \cup {None} /\ req[r].index \in Nat
         /\ req[r].kind # "create" => /\ req[r].page \in Pages /\ page[req[r].page] = current[r]
                                      /\ current[r].project = req[r].project
         /\ Seen(r) = Over(page, work[r]) /\ Seen(r) \in Table
<1>1. "commit" \in Past
  BY DEF Past, PCs
<1>2. Seen(r) = Over(page, work[r])
  BY DEF Seen, Over
<1>3. work[r] \in Works /\ walk[r] \in Walks /\ page \in Table
  BY RequestIs
<1> QED
  BY <1>1, <1>2, <1>3, RequestIs, PageIs, WorkIs

\* What each kind of request commits.
LEMMA CommitIs ==
  ASSUME IInv, NEW r \in Requests, pc[r] = "commit"
  PROVE  \/ Seen(r) = page
         \/ /\ req[r].kind = "create" /\ walk[r].cursor = None /\ walk[r].depth <= MaxDepth
            /\ Climbed(page, req[r], walk[r])
            /\ \E n \in Pages : Inserted(page, req[r], work[r], n)
         \/ /\ req[r].kind = "remove" /\ Childless(page, req[r])
            /\ \A x \in Pages : Seen(r)[x] = Removed(page, req[r], current[r], x)
         \/ /\ req[r].kind = "move" /\ walk[r].cursor = None
            /\ Climbed(page, req[r], walk[r])
            /\ Fits(page, req[r], walk[r]) /\ req[r].index <= Cardinality(Others(page, req[r]))
            /\ \A x \in Pages : Seen(r)[x] = Moved(page, req[r], current[r], x)
<1> DEFINE rq == req[r]
<1>1. /\ Good(page, "commit", rq, walk[r], work[r], current[r]) /\ page \in Table
      /\ rq.kind \in Kinds /\ Seen(r) = Over(page, work[r])
  BY CommitKnows
<1>2. "commit" \in Past
  BY DEF Past, PCs
<1>3. work[r] = Empty => Seen(r) = page
  BY <1>1, EmptyIs
<1> HIDE DEF rq
<1>4. CASE rq.kind = "update"
  BY <1>1, <1>3, <1>4 DEF Good, Written, Writing
<1>5. CASE rq.kind = "create"
  BY <1>1, <1>2, <1>5 DEF Good, Written, Walked, rq
<1>6. CASE rq.kind = "remove"
  BY <1>1, <1>2, <1>6 DEF Good, Written, Checked, rq
<1>7. CASE rq.kind = "move"
  <2>1. /\ walk[r].cursor = None /\ Climbed(page, rq, walk[r])
        /\ Fits(page, rq, walk[r]) /\ rq.index <= Cardinality(Others(page, rq))
    BY <1>1, <1>2, <1>7 DEF Good, Walked, Checked
  <2>2. work[r] = Empty \/ \A x \in Pages : Seen(r)[x] = Moved(page, rq, current[r], x)
    BY <1>1, <1>7 DEF Good, Written
  <2> QED
    BY <1>3, <1>7, <2>1, <2>2 DEF rq
<1> QED
  BY <1>1, <1>4, <1>5, <1>6, <1>7 DEF Kinds

\* It changes its own rows, and no row of another Project.
LEMMA CommitRows ==
  ASSUME IInv, NEW r \in Requests, pc[r] = "commit", NEW x \in Pages, Seen(r)[x] # page[x]
  PROVE  /\ x \in DOMAIN work[r]
         /\ page[x].project \in {req[r].project, None}
         /\ Seen(r)[x].project \in {req[r].project, None}
<1> DEFINE rq == req[r]
<1>1. /\ Good(page, "commit", rq, walk[r], work[r], current[r]) /\ page \in Table
      /\ rq.project \in Projects /\ Seen(r) = Over(page, work[r])
      /\ rq.kind # "create" => /\ rq.page \in Pages /\ page[rq.page] = current[r]
                               /\ current[r].project = rq.project
  BY CommitKnows
<1>2. x \in DOMAIN work[r] /\ Seen(r)[x] = work[r][x]
  BY DEF Seen
<1>3. CASE rq.kind = "create"
  <2>1. PICK n \in Pages : Inserted(page, rq, work[r], n)
    BY <1>3, CommitIs
  <2>2. x = n /\ page[n] = NoPage /\ work[r][n].project = rq.project
    BY <1>2, <2>1 DEF Inserted
  <2> QED
    BY <1>2, <2>2, RowIs
<1>4. CASE rq.kind # "create"
  <2>1. page[x].project = rq.project
    BY <1>1, <1>2, <1>4 DEF Good, WritesOwn, Past, PCs
  <2>2. \/ Seen(r)[x] = Removed(page, rq, current[r], x)
        \/ Seen(r)[x] = Moved(page, rq, current[r], x)
    BY <1>4, CommitIs
  <2>3. Removed(page, rq, current[r], x).project \in {page[x].project, None}
    BY <1>1, GapRows, RowIs DEF Removed
  <2>4. Moved(page, rq, current[r], x).project = page[x].project
    <3>1. CASE x = rq.page
      <4>1. page[x] \in Row
        BY <1>1, <2>1, TableIs
      <4> QED
        BY <3>1, <4>1 DEF Moved, Row
    <3>2. CASE x # rq.page
      BY <1>1, <3>2, GapRows DEF Moved
    <3> QED
      BY <3>1, <3>2
  <2> QED
    BY <1>2, <2>1, <2>2, <2>3, <2>4
<1> QED
  BY <1>2, <1>3, <1>4

\* It leaves other Projects as they are.
LEMMA CommitElsewhere ==
  ASSUME IInv, NEW r \in Requests, pc[r] = "commit", NEW k \in Projects, k # req[r].project
  PROVE  Same(page, Seen(r), k)
BY CommitRows, RowIs DEF Same

\* It leaves its Project a forest, and siblings numbered.
LEMMA CommitInOrder ==
  ASSUME IInv, NEW r \in Requests, pc[r] = "commit"
  PROVE  /\ Forest(Seen(r), req[r].project)
         /\ \A parent \in Pages \cup {None} : Dense(Seen(r), req[r].project, parent)
<1> DEFINE rq == req[r]
           u == Seen(r)
<1>1. /\ page \in Table /\ u \in Table /\ u = Over(page, work[r]) /\ walk[r].depth \in Nat
      /\ rq.project \in Projects /\ rq.parent \in Pages \cup {None} /\ rq.index \in Nat
      /\ rq.kind # "create" => /\ rq.page \in Pages /\ page[rq.page] = current[r]
                               /\ current[r].project = rq.project
  BY CommitKnows DEF Walks
<1>2. Forest(page, rq.project) /\ \A parent \in Pages \cup {None} : Dense(page, rq.project, parent)
  BY <1>1 DEF IInv
<1> HIDE DEF rq, u
<1>3. CASE u = page
  BY <1>2, <1>3 DEF rq, u
<1>4. CASE /\ rq.kind = "create" /\ walk[r].cursor = None /\ walk[r].depth <= MaxDepth
           /\ Climbed(page, rq, walk[r])
           /\ \E n \in Pages : Inserted(page, rq, work[r], n)
  <2>1. PICK n \in Pages : Inserted(page, rq, work[r], n)
    BY <1>4
  <2>2. Forest(u, rq.project)
    BY <1>1, <1>2, <1>4, <2>1, InsertedIsForest
  <2>3. \A parent \in Pages \cup {None} : Dense(u, rq.project, parent)
    BY <1>1, <1>2, <2>1, InsertedIsDense
  <2> QED
    BY <2>2, <2>3 DEF rq, u
<1>5. CASE /\ rq.kind = "remove" /\ Childless(page, rq)
           /\ \A x \in Pages : u[x] = Removed(page, rq, current[r], x)
  <2>1. Forest(u, rq.project)
    BY <1>1, <1>2, <1>5, RemovedIsForest
  <2>2. ASSUME NEW parent \in Pages \cup {None}
        PROVE  Dense(u, rq.project, parent)
    <3>1. /\ page \in Table /\ u \in Table /\ rq.project \in Projects /\ rq.page \in Pages
          /\ page[rq.page] = current[r] /\ current[r].project = rq.project
          /\ \A x \in Pages : u[x] = Removed(page, rq, current[r], x)
          /\ Dense(page, rq.project, parent)
      BY <1>1, <1>2, <1>5
    <3> QED
      BY <3>1, RemovedIsDense
  <2> QED
    BY <2>1, <2>2 DEF rq, u
<1>6. CASE /\ rq.kind = "move" /\ walk[r].cursor = None /\ Climbed(page, rq, walk[r])
           /\ Fits(page, rq, walk[r]) /\ rq.index <= Cardinality(Others(page, rq))
           /\ \A x \in Pages : u[x] = Moved(page, rq, current[r], x)
  <2>1. Forest(u, rq.project)
    BY <1>1, <1>2, <1>6, MovedIsForest
  <2>2. \A parent \in Pages \cup {None} : Dense(u, rq.project, parent)
    BY <1>1, <1>2, <1>6, MovedIsDense
  <2> QED
    BY <2>1, <2>2 DEF rq, u
<1> QED
  BY <1>3, <1>4, <1>5, <1>6, CommitIs DEF rq, u

\* The commit makes a dense forest of the Project's pages again.
LEMMA CommitInv ==
  ASSUME IInv, NEW r \in Requests, Commit(r)
  PROVE  IInv'
<1>1. pc[r] = "commit" /\ page' = Seen(r) /\ End(r) /\ TypeOK
  BY DEF Commit, IInv
<1>2. page \in Table /\ Seen(r) \in Table /\ req[r].project \in Projects
  BY <1>1, CommitKnows
<1>3. TypeOK'
  BY <1>1, <1>2, EndIs, TypesAreNext
<1>4. ASSUME NEW q \in Requests
      PROVE  AllGood(q)' /\ HasProject(q)'
  <2>1. CASE q = r
    BY <1>1, <2>1, EndIs, IdleIsGood DEF AllGood, HasProject
  <2>2. CASE q # r
    <3>1. /\ pc'[q] = pc[q] /\ req'[q] = req[q] /\ walk'[q] = walk[q]
          /\ work'[q] = work[q] /\ current'[q] = current[q]
      BY <1>1, <2>2, EndIs
    <3>2. /\ Good(page, pc[q], req[q], walk[q], work[q], current[q]) /\ pc[q] \in PCs
          /\ work[q] \in Works /\ (pc[q] # "idle" => req[q].project \in Projects)
      BY RequestIs
    <3>3. pc[q] \in Past => Same(page, Seen(r), req[q].project)
      <4>1. ASSUME pc[q] \in Past PROVE req[q].project # req[r].project
        BY <1>1, <2>2, <4>1, ProjectsDiffer DEF Past
      <4> QED
        BY <1>1, <3>2, <4>1, CommitElsewhere DEF Past
    <3>4. DOMAIN work[q] \subseteq Pages
      BY <1>2, <3>2, WorkIs
    <3>5. \A x \in DOMAIN work[q] : page[x] = NoPage => Seen(r)[x] = NoPage
      BY <2>2, <3>4 DEF IInv, Disjoint, Seen
    <3>6. Good(Seen(r), pc[q], req[q], walk[q], work[q], current[q])
      BY <1>2, <3>2, <3>3, <3>4, <3>5, GoodStays
    <3>7. AllGood(q)'
      BY <1>1, <3>1, <3>6 DEF AllGood
    <3>8. HasProject(q)'
      BY <1>1, <2>2, <3>1, <3>2, EndIs, RequestIs DEF HasProject
    <3> QED
      BY <3>7, <3>8
  <2> QED
    BY <2>1, <2>2
<1>5. Disjoint'
  <2>1. \A q \in Requests : DOMAIN work'[q] \subseteq DOMAIN work[q]
    BY <1>1, EndIs, EmptyIs
  <2> QED
    BY <2>1 DEF IInv, Disjoint
<1>6. ASSUME NEW j \in Projects
      PROVE  Forest(page', j) /\ \A parent \in Pages \cup {None} : Dense(page', j, parent)
  <2>1. CASE j = req[r].project
    BY <1>1, <2>1, CommitInOrder
  <2>2. CASE j # req[r].project
    <3>1. Same(page, Seen(r), j)
      BY <1>1, <2>2, CommitElsewhere
    <3>2. Forest(page, j) /\ \A parent \in Pages \cup {None} : Dense(page, j, parent)
      BY DEF IInv
    <3>3. Forest(Seen(r), j)
      BY <1>2, <3>1, <3>2, SameLevels DEF Forest
    <3>4. \A parent \in Pages \cup {None} : Dense(Seen(r), j, parent)
      BY <1>2, <3>1, <3>2, SameSiblings DEF Dense
    <3> QED
      BY <1>1, <3>3, <3>4
  <2> QED
    BY <2>1, <2>2
<1> QED
  BY <1>3, <1>4, <1>5, <1>6 DEF IInv

\* A failure at any statement changes no page.
LEMMA FailInv ==
  ASSUME IInv, NEW r \in Requests, Fail(r)
  PROVE  IInv'
BY RollbackInv DEF Fail

-----------------------------------------------------------------------------
(* The theorems.                                                           *)

\* There are no pages at first.
LEMMA InitInv == Init => IInv
<1> SUFFICES ASSUME Init
             PROVE  IInv
  OBVIOUS
<1>1. TypeOK
  <2>1. NoPage \in Row \cup {NoPage} /\ "idle" \in PCs /\ Empty \in Works /\ NoWalk \in Walks
    BY EmptyIs DEF PCs, Walks, NoWalk
  <2> QED
    BY <2>1, TypesAre DEF Init, LocksInit, Table
<1>2. \A r \in Requests : AllGood(r) /\ HasProject(r)
  BY IdleIsGood DEF Init, AllGood, HasProject
<1>3. Disjoint
  BY EmptyIs DEF Init, Disjoint
<1>4. \A x \in Pages : page[x] = NoPage
  BY DEF Init
<1>5. ASSUME NEW j \in Projects
      PROVE  Forest(page, j) /\ \A parent \in Pages \cup {None} : Dense(page, j, parent)
  <2>1. [x \in Pages |-> 0] \in LevelMaps /\ Levels([x \in Pages |-> 0], page, j)
    BY <1>4, RowIs DEF LevelMaps, Levels
  <2>2. ASSUME NEW parent \in Pages \cup {None} PROVE Dense(page, j, parent)
    <3>1. Siblings(page, j, parent) = {}
      BY <1>4 DEF Siblings
    <3>2. Cardinality(Siblings(page, j, parent)) = 0
      BY <3>1, FS_EmptySet
    <3> QED
      BY <3>1, <3>2 DEF Dense, Positions
  <2> QED
    BY <2>1, <2>2 DEF Forest
<1> QED
  BY <1>1, <1>2, <1>3, <1>5 DEF IInv

\* What nobody writes stays.
LEMMA StutterInv == IInv /\ UNCHANGED vars => IInv'
<1> SUFFICES ASSUME IInv, UNCHANGED vars
             PROVE  IInv'
  OBVIOUS
<1>1. UNCHANGED <<page, work, pc, req, walk, current, holder, sharers>>
  BY DEF vars
<1>2. TypeOK'
  BY <1>1 DEF IInv, TypeOK, LocksTypeOK
<1>3. \A r \in Requests : AllGood(r)' /\ HasProject(r)'
  BY <1>1 DEF IInv, AllGood, HasProject
<1> QED
  BY <1>1, <1>2, <1>3 DEF IInv, Disjoint

\* Every statement of every request keeps the invariant.
LEMMA NextInv == IInv /\ [Next]_vars => IInv'
<1> SUFFICES ASSUME IInv, [Next]_vars
             PROVE  IInv'
  OBVIOUS
<1>1. CASE UNCHANGED vars
  BY <1>1, StutterInv
<1>2. ASSUME NEW r \in Requests, Begin(r) \/ Step(r) \/ Fail(r)
      PROVE  IInv'
  <2>1. CASE Begin(r)
    BY <2>1, BeginInv
  <2>2. CASE LockProject(r)
    BY <2>2, LockProjectInv
  <2>3. CASE LockPage(r)
    BY <2>3, LockPageInv
  <2>4. CASE Ascend(r)
    BY <2>4, AscendInv
  <2>5. CASE ReachRoot(r)
    BY <2>5, ReachRootInv
  <2>6. CASE InsertPage(r)
    BY <2>6, InsertPageInv
  <2>7. CASE EditPage(r)
    BY <2>7, EditPageInv
  <2>8. CASE CountChildren(r)
    BY <2>8, CountChildrenInv
  <2>9. CASE DeletePage(r)
    BY <2>9, DeletePageInv
  <2>10. CASE CheckHeight(r)
    BY <2>10, CheckHeightInv
  <2>11. CASE CheckIndex(r)
    BY <2>11, CheckIndexInv
  <2>12. CASE CloseGap(r)
    BY <2>12, CloseGapInv
  <2>13. CASE OpenGap(r)
    BY <2>13, OpenGapInv
  <2>14. CASE Place(r)
    BY <2>14, PlaceInv
  <2>15. CASE Commit(r)
    BY <2>15, CommitInv
  <2>16. CASE Fail(r)
    BY <2>16, FailInv
  <2> QED
    BY <1>2, <2>1, <2>2, <2>3, <2>4, <2>5, <2>6, <2>7, <2>8, <2>9, <2>10, <2>11, <2>12,
       <2>13, <2>14, <2>15, <2>16 DEF Step
<1> QED
  BY <1>1, <1>2 DEF Next

\* In every reachable state a request that has its Project knows the rows it
\* relies on, its writes are what the statements so far make of the committed
\* table, and the pages of every Project are a numbered forest.
THEOREM Invariance == Spec => []IInv
BY InitInv, NextInv, PTL DEF Spec

\* The variables have their types.
THEOREM TypeCorrect == Spec => []TypeOK
<1>1. IInv => TypeOK
  BY DEF IInv
<1> QED
  BY <1>1, Invariance, PTL

\* The pages below one parent are numbered 0, 1, 2, ... after every commit,
\* though three updates renumber them and no constraint of the database does.
THEOREM SiblingsStayDense == Spec => []SiblingsDense
<1>1. IInv => SiblingsDense
  BY DEF IInv, SiblingsDense, Dense, Positions, Stored
<1> QED
  BY <1>1, Invariance, PTL

\* No move makes a cycle, no page loses its parent, and no page gets deeper than
\* MaxDepth, whatever requests overlap.
THEOREM PagesStayForest == Spec => []PagesFormForest
<1>1. ASSUME IInv
      PROVE  PagesFormForest
  <2>1. page \in Table /\ \A j \in Projects : Forest(page, j)
    BY <1>1, TypesAre DEF IInv
  <2>2. PICK g : AllLevels(g, page)
    BY <2>1, AllLevelsExist
  <2>3. ASSUME NEW p \in Stored
        PROVE  /\ g[p] \in 1 .. MaxDepth
               /\ IF page[p].parent = None
                  THEN g[p] = 1
                  ELSE /\ page[p].parent \in Stored
                       /\ page[page[p].parent].project = page[p].project
                       /\ g[p] = g[page[p].parent] + 1
    <3>1. p \in Pages /\ page[p].project \in Projects
      BY <2>1, TableIs DEF Stored
    <3>2. Levels(g, page, page[p].project)
      BY <2>2, <3>1 DEF AllLevels
    <3>3. page[p].parent # None =>
            page[p].parent \in Pages /\ page[page[p].parent].project = page[p].project
      BY <2>1, <3>1, <3>2, TableIs DEF Levels
    <3> QED
      BY <3>1, <3>2, <3>3, RowIs DEF Levels, Stored
  <2> DEFINE level == [p \in Stored |-> g[p]]
  <2>4. level \in [Stored -> 1 .. MaxDepth]
    BY <2>3
  <2>5. \A p \in Stored :
          IF page[p].parent = None
          THEN level[p] = 1
          ELSE /\ page[p].parent \in Stored
               /\ page[page[p].parent].project = page[p].project
               /\ level[p] = level[page[p].parent] + 1
    BY <2>3
  <2> HIDE DEF level
  <2> QED
    BY <2>4, <2>5 DEF PagesFormForest
<1> QED
  BY <1>1, Invariance, PTL

-----------------------------------------------------------------------------
(* What a commit does to the table, as TakesEffect asks.                   *)

\* Where a page is numbered i among its siblings, i pages are ahead of it.
LEMMA AheadIs ==
  ASSUME NEW u \in Table, NEW p \in Pages, u[p] # NoPage,
         Dense(u, u[p].project, u[p].parent)
  PROVE  Ahead(u, p) = u[p].position
<1> DEFINE S == Siblings(u, u[p].project, u[p].parent)
           i == u[p].position
<1>1. /\ S \in SUBSET Pages /\ p \in S /\ Cardinality(S) \in Nat /\ i \in Nat
      /\ Positions(u, S) = 0 .. Cardinality(S) - 1
  <2>1. u[p].project \in Projects /\ i \in Nat
    BY TableIs
  <2>2. S \in SUBSET Pages /\ p \in S /\ Cardinality(S) \in Nat
    BY <2>1, GroupIsFinite DEF Siblings
  <2> QED
    BY <2>1, <2>2 DEF Dense
<1>2. i <= Cardinality(S)
  BY <1>1, Numbering
<1>3. {q \in Pages : u[q] # NoPage /\ Before(u, q, p)} = {q \in S : u[q].position < i}
  BY DEF Siblings, Before
<1>4. Cardinality({q \in S : u[q].position < i}) = i
  BY <1>1, <1>2, PlacesBefore
<1> QED
  BY <1>3, <1>4 DEF Ahead

\* The commit of a creation does what was asked,
LEMMA CreateTakesEffect ==
  ASSUME IInv, NEW r \in Requests, Commit(r), req[r].kind = "create", Seen(r) # page
  PROVE  TakesEffect(r)
<1> DEFINE rq == req[r]
           u == Seen(r)
<1>1. /\ pc[r] = "commit" /\ page' = u
      /\ page \in Table /\ u \in Table /\ u = Over(page, work[r])
      /\ rq.project \in Projects /\ rq.parent \in Pages \cup {None}
  BY CommitKnows DEF Commit
<1>2. PICK n \in Pages : Inserted(page, rq, work[r], n)
  BY <1>1, CommitIs
<1>3. /\ page[n] = NoPage /\ u[n].project = rq.project /\ u[n].parent = rq.parent /\ u[n] # NoPage
      /\ \A x \in Pages \ {n} : u[x] = page[x]
  BY <1>1, <1>2, RowIs DEF Inserted, Over
<1>4. Stored' \ Stored = {n} /\ Stored \ {n} = Stored /\ Stored \subseteq Pages \ {n}
  BY <1>1, <1>3 DEF Stored
<1>5. /\ u[n].position = Cardinality(Siblings(page, rq.project, rq.parent))
      /\ n \notin Siblings(page, rq.project, rq.parent)
  <2>1. Dense(page, rq.project, rq.parent)
    BY <1>1 DEF IInv
  <2> HIDE DEF rq, u
  <2> QED
    BY <1>1, <1>2, <2>1, InsertedIsDense
<1>6. Dense(u, u[n].project, u[n].parent)
  BY <1>1, <1>3, CommitInOrder
<1>7. Ahead(u, n) = Cardinality(Siblings(page, rq.project, rq.parent) \ {n})
  <2>1. Siblings(page, rq.project, rq.parent) \ {n} = Siblings(page, rq.project, rq.parent)
    BY <1>5
  <2>2. Ahead(u, n) = u[n].position
    BY <1>1, <1>3, <1>6, AheadIs
  <2> QED
    BY <1>5, <2>1, <2>2
<1>8. \A p, q \in Stored : u[p] = page[p] /\ (Before(u, p, q) <=> Before(page, p, q))
  BY <1>3, <1>4 DEF Before
<1> HIDE DEF u
<1> QED
  BY <1>1, <1>3, <1>4, <1>7, <1>8 DEF TakesEffect

\* ... and so does that of a removal or a move.
LEMMA ChangeTakesEffect ==
  ASSUME IInv, NEW r \in Requests, Commit(r), req[r].kind \in {"remove", "move"}, Seen(r) # page
  PROVE  TakesEffect(r)
<1> DEFINE rq == req[r]
           u == Seen(r)
           cur == current[r]
<1>1. /\ pc[r] = "commit" /\ page' = u /\ page \in Table /\ u \in Table
      /\ rq.project \in Projects /\ rq.parent \in Pages \cup {None} /\ rq.index \in Nat
      /\ rq.page \in Pages /\ page[rq.page] = cur /\ cur.project = rq.project
  BY CommitKnows DEF Commit
<1>2. \/ /\ rq.kind = "remove"
         /\ \A x \in Pages : u[x] = Removed(page, rq, cur, x)
      \/ /\ rq.kind = "move"
         /\ \A x \in Pages : u[x] = Moved(page, rq, cur, x)
  BY <1>1, CommitIs
<1>3. \A parent \in Pages \cup {None} : Dense(page, rq.project, parent)
  BY <1>1 DEF IInv
<1>4. ASSUME NEW p \in Stored \ {rq.page}, NEW q \in Stored \ {rq.page}
      PROVE  /\ u[p].project = page[p].project /\ u[p].parent = page[p].parent
             /\ Before(u, p, q) <=> Before(page, p, q)
  <2>1. /\ p \in Pages \ {rq.page} /\ page[p] # NoPage
        /\ q \in Pages \ {rq.page} /\ page[q] # NoPage
    BY DEF Stored
  <2> HIDE DEF rq, u, cur
  <2> QED
    BY <1>1, <1>2, <1>3, <2>1, OrderStays
<1>5. CASE rq.kind = "remove"
  <2>1. u[rq.page] = NoPage
    BY <1>1, <1>2, <1>5 DEF Removed
  <2> HIDE DEF u
  <2> QED
    BY <1>1, <1>4, <1>5, <2>1 DEF TakesEffect
<1>6. CASE rq.kind = "move"
  <2>1. /\ u[rq.page].project = rq.project /\ u[rq.page].parent = rq.parent
        /\ u[rq.page].position = rq.index
    <3>1. \A x \in Pages : u[x] = Moved(page, rq, cur, x)
      BY <1>2, <1>6
    <3>2. u[rq.page] = [page[rq.page] EXCEPT !.parent = rq.parent, !.position = rq.index]
      BY <1>1, <3>1 DEF Moved
    <3>3. page[rq.page] \in Row
      BY <1>1, TableIs
    <3> QED
      BY <1>1, <3>2, <3>3 DEF Row
  <2>2. Ahead(u, rq.page) = rq.index
    <3>1. u[rq.page] # NoPage
      BY <1>1, <2>1, RowIs
    <3>2. Dense(u, u[rq.page].project, u[rq.page].parent)
      BY <1>1, <2>1, CommitInOrder
    <3> QED
      BY <1>1, <2>1, <3>1, <3>2, AheadIs
  <2> HIDE DEF u
  <2> QED
    BY <1>1, <1>4, <1>6, <2>1, <2>2 DEF TakesEffect
<1> QED
  BY <1>5, <1>6

\* Only commits change pages, and they do what was asked: a page appears behind
\* its siblings, or is at the index asked for below the parent asked for, or is
\* gone; all other pages keep their parent and their order.
THEOREM ChangesDoWhatWasAsked == Spec => ChangesTakeEffect
<1>1. ASSUME IInv, [Next]_vars
      PROVE  ChangeStep
  <2> SUFFICES ASSUME page' # page
               PROVE  \E r \in Requests : pc[r] = "commit" /\ pc'[r] = "idle" /\ TakesEffect(r)
    BY DEF ChangeStep
  <2>1. PICK r \in Requests : Begin(r) \/ Step(r) \/ Fail(r)
    BY <1>1 DEF Next, vars
  <2>2. Commit(r)
    BY <2>1 DEF Begin, Step, Fail, Rollback, Check, LockProject, LockPage, Ascend, ReachRoot,
       InsertPage, EditPage, CountChildren, DeletePage, CheckHeight, CheckIndex, CloseGap,
       OpenGap, Place
  <2>3. pc[r] = "commit" /\ page' = Seen(r) /\ pc'[r] = "idle"
    BY <1>1, <2>2, EndIs DEF Commit, IInv
  <2>4. req[r].kind \in {"create", "remove", "move"}
    <3>1. Good(page, "commit", req[r], walk[r], work[r], current[r]) /\ req[r].kind \in Kinds
      BY <1>1, <2>3, CommitKnows
    <3>2. req[r].kind # "update"
      BY <1>1, <2>3, CommitIs
    <3> QED
      BY <3>1, <3>2 DEF Kinds
  <2>5. TakesEffect(r)
    BY <1>1, <2>2, <2>3, <2>4, CreateTakesEffect, ChangeTakesEffect
  <2> QED
    BY <2>3, <2>5
<1>2. IInv /\ [Next]_vars => [ChangeStep]_vars
  BY <1>1
<1> QED
  BY <1>2, Invariance, PTL DEF Spec, ChangesTakeEffect
=============================================================================
