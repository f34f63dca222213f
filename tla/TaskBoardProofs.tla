--------------------------- MODULE TaskBoardProofs ---------------------------
(***************************************************************************)
(* Theorems about TaskBoard, for any sets of projects, Columns, Tasks and  *)
(* requests; first what its operators compute: positions, indexes in a     *)
(* Column, and the orders that create, reposition and remove write.        *)
(***************************************************************************)
EXTENDS BoardRefinement, FiniteSetTheorems, SequenceTheorems, NaturalsInduction, TLAPS

-----------------------------------------------------------------------------
(* The arithmetic of positions.                                            *)

\* A nonempty bounded set of naturals has a maximum.
LEMMA MaximumExists ==
  ASSUME NEW P, P \subseteq Nat, P # {},
         NEW n \in Nat, \A p \in P : p <= n
  PROVE  \E m \in P : \A p \in P : p <= m
<1> DEFINE Bounds == {b \in Nat : \A p \in P : p <= b}
           Less == {e \in Nat \X Nat : e[1] < e[2]}
<1>1. IsWellFoundedOn(Less, Nat)
  BY NatLessThanWellFounded DEF OpToRel
<1>2. PICK u \in Bounds : \A b \in Bounds : ~(<<b, u>> \in Less)
  <2>1. Bounds \subseteq Nat /\ Bounds # {}
    OBVIOUS
  <2> HIDE DEF Bounds, Less
  <2> QED
    BY <1>1, <2>1, WFMin
<1>3. u \in Nat /\ \A p \in P : p <= u
  BY <1>2
<1>4. u \in P
  <2> SUFFICES ASSUME u \notin P PROVE FALSE
    OBVIOUS
  <2>1. \A p \in P : p <= u - 1
    BY <1>3
  <2>2. u - 1 \in Nat
    <3>1. PICK p \in P : p \in Nat
      OBVIOUS
    <3> QED
      BY <1>3, <2>1, <3>1
  <2>3. u - 1 \in Bounds /\ <<u - 1, u>> \in Less
    BY <1>3, <2>1, <2>2
  <2> QED
    BY <1>2, <2>3
<1> QED
  BY <1>3, <1>4

\* So the position after the last one is a natural number above them all.
LEMMA NextPositionAbove ==
  ASSUME NEW P, P \subseteq Nat,
         NEW n \in Nat, \A p \in P : p <= n
  PROVE  /\ NextPosition(P) \in Nat
         /\ \A p \in P : p < NextPosition(P)
<1>1. CASE P = {}
  BY <1>1 DEF NextPosition
<1>2. CASE P # {}
  <2> DEFINE M == CHOOSE m \in P : \A p \in P : p <= m
  <2>1. \E m \in P : \A p \in P : p <= m
    BY <1>2, MaximumExists
  <2>2. M \in P /\ \A p \in P : p <= M
    BY <2>1
  <2>3. NextPosition(P) = M + 1
    BY <1>2 DEF NextPosition
  <2> HIDE DEF M
  <2> QED
    BY <2>2, <2>3
<1> QED
  BY <1>1, <1>2

\* After 0 .. k-1 comes k.
LEMMA NextPositionOfInterval ==
  ASSUME NEW k \in Nat
  PROVE  NextPosition(0 .. k - 1) = k
<1>1. CASE k = 0
  BY <1>1 DEF NextPosition
<1>2. CASE k # 0
  <2> DEFINE M == CHOOSE m \in 0 .. k - 1 : \A p \in 0 .. k - 1 : p <= m
  <2>1. k - 1 \in 0 .. k - 1 /\ \A p \in 0 .. k - 1 : p <= k - 1
    BY <1>2
  <2>2. M \in 0 .. k - 1 /\ \A p \in 0 .. k - 1 : p <= M
    BY <2>1
  <2>3. NextPosition(0 .. k - 1) = M + 1
    BY <2>1 DEF NextPosition
  <2> HIDE DEF M
  <2> QED
    BY <1>2, <2>1, <2>2, <2>3
<1> QED
  BY <1>1, <1>2

-----------------------------------------------------------------------------
(* Columns as numberings.                                                  *)

\* A Column holds finitely many Tasks.
LEMMA InFinite ==
  ASSUME NEW table, NEW c
  PROVE  /\ In(table, c) \subseteq Tasks
         /\ IsFiniteSet(In(table, c))
         /\ Cardinality(In(table, c)) \in Nat
BY TasksAssumption, FS_Subset, FS_CardinalityType DEF In

\* n Tasks with n positions below n, all different, are dense.
LEMMA InjectiveIsDense ==
  ASSUME NEW table, NEW c,
         \A t \in In(table, c) : table[t].pos \in 0 .. Cardinality(In(table, c)) - 1,
         \A t, u \in In(table, c) : table[t].pos = table[u].pos => t = u
  PROVE  Dense(table, c)
<1> DEFINE S == In(table, c)
           n == Cardinality(S)
           T == 0 .. n - 1
           f == [t \in S |-> table[t].pos]
<1>1. IsFiniteSet(S) /\ n \in Nat
  BY InFinite
<1>2. f \in Injection(S, T)
  BY DEF Injection, IsInjective
<1>3. IsFiniteSet(T) /\ Cardinality(T) = n
  BY <1>1, FS_Interval
<1>4. f \in Surjection(S, T)
  <2> HIDE DEF S, T, f, n
  <2>1. Cardinality(S) = Cardinality(T)
    BY <1>3 DEF n
  <2> QED
    BY <1>1, <1>2, <1>3, <2>1, FS_Injection
<1>5. \A p \in T : \E t \in S : f[t] = p
  BY <1>4 DEF Surjection
<1> QED
  BY <1>5 DEF Dense

\* And the other way round: in a dense Column no two Tasks share a position.
LEMMA DenseIsInjective ==
  ASSUME NEW table, NEW c, Dense(table, c)
  PROVE  /\ \A t \in In(table, c) : table[t].pos \in 0 .. Cardinality(In(table, c)) - 1
         /\ \A t, u \in In(table, c) : table[t].pos = table[u].pos => t = u
<1> DEFINE S == In(table, c)
           n == Cardinality(S)
           T == 0 .. n - 1
           f == [t \in S |-> table[t].pos]
<1>1. IsFiniteSet(S) /\ n \in Nat
  BY InFinite
<1>2. \A t \in S : table[t].pos \in T
  BY DEF Dense
<1>3. \A p \in T : \E t \in S : table[t].pos = p
  BY DEF Dense
<1>4. f \in Surjection(S, T)
  BY <1>2, <1>3 DEF Surjection
<1>5. IsFiniteSet(T) /\ Cardinality(T) = n
  BY <1>1, FS_Interval
<1>6. f \in Injection(S, T)
  <2> HIDE DEF S, T, f, n
  <2>1. Cardinality(S) = Cardinality(T)
    BY <1>5 DEF n
  <2> QED
    BY <1>1, <1>4, <2>1, FS_SurjSameCardinalityImpliesInj
<1>7. \A t, u \in S : f[t] = f[u] => t = u
  BY <1>6 DEF Injection, IsInjective
<1> QED
  BY <1>2, <1>7

\* What becomes of the other rows is nothing to a Column.
LEMMA DenseIsLocal ==
  ASSUME NEW a, NEW b, NEW c,
         \A t \in Tasks : a[t].col = c \/ b[t].col = c => a[t] = b[t],
         Dense(a, c)
  PROVE  Dense(b, c)
<1>1. In(a, c) = In(b, c)
  BY DEF In
<1>2. {a[t].pos : t \in In(a, c)} = {b[t].pos : t \in In(b, c)}
  BY <1>1 DEF In
<1> QED
  BY <1>1, <1>2 DEF Dense

\* ORDER BY position gives the Tasks of S different indexes, from 0 up.
LEMMA RankIsAnIndex ==
  ASSUME NEW table, NEW S, IsFiniteSet(S),
         \A t \in S : table[t].pos \in Nat,
         \A t, u \in S : table[t].pos = table[u].pos => t = u
  PROVE  /\ \A t \in S : Rank(table, S, t) \in 0 .. Cardinality(S) - 1
         /\ \A t, u \in S : Rank(table, S, t) = Rank(table, S, u) => t = u
<1> DEFINE Below(t) == {u \in S : table[u].pos < table[t].pos}
<1>1. \A t \in S : IsFiniteSet(Below(t)) /\ Cardinality(Below(t)) \in Nat
  BY FS_Subset, FS_CardinalityType
<1>2. ASSUME NEW t \in S, NEW X, X \subseteq S, t \in X, t \notin Below(t), Below(t) \subseteq X
      PROVE  Cardinality(Below(t)) < Cardinality(X)
  <2> HIDE DEF Below
  <2>1. IsFiniteSet(X) /\ Cardinality(X) \in Nat
    BY <1>2, FS_Subset, FS_CardinalityType
  <2>2. Below(t) \in SUBSET X /\ Below(t) # X
    BY <1>2
  <2>3. Cardinality(Below(t)) <= Cardinality(X) /\ Cardinality(Below(t)) # Cardinality(X)
    BY <2>1, <2>2, FS_Subset
  <2> QED
    BY <1>1, <2>1, <2>3
<1>3. \A t \in S : Rank(table, S, t) \in 0 .. Cardinality(S) - 1
  <2> TAKE t \in S
  <2>1. Cardinality(Below(t)) < Cardinality(S)
    BY <1>2
  <2>2. Cardinality(S) \in Nat
    BY FS_CardinalityType
  <2>3. Rank(table, S, t) = Cardinality(Below(t))
    BY DEF Rank
  <2> HIDE DEF Below
  <2> QED
    BY <1>1, <2>1, <2>2, <2>3
<1>4. ASSUME NEW t \in S, NEW u \in S, table[t].pos < table[u].pos
      PROVE  Rank(table, S, t) < Rank(table, S, u)
  <2>1. t \in Below(u) /\ t \notin Below(t) /\ Below(t) \subseteq Below(u) /\ Below(u) \subseteq S
    BY <1>4
  <2> HIDE DEF Below
  <2>2. Cardinality(Below(t)) < Cardinality(Below(u))
    BY <1>2, <2>1
  <2> QED
    BY <2>2 DEF Rank, Below
<1>5. ASSUME NEW t \in S, NEW u \in S, Rank(table, S, t) = Rank(table, S, u), t # u
      PROVE  FALSE
  <2>1. table[t].pos < table[u].pos \/ table[u].pos < table[t].pos
    BY <1>5
  <2>2. Rank(table, S, t) \in Int /\ Rank(table, S, u) \in Int
    BY <1>3
  <2> QED
    BY <1>4, <1>5, <2>1, <2>2
<1> QED
  BY <1>3, <1>5

-----------------------------------------------------------------------------
(* The orders that the services write are dense again.                     *)

\* The table once the rows of rows are written over it.
Over(table, rows) == [u \in Tasks |-> IF u \in DOMAIN rows THEN rows[u] ELSE table[u]]

\* Rows written over a table make a table.
LEMMA OverIsTable ==
  ASSUME NEW table \in [Tasks -> Row], NEW rows, rows \in [DOMAIN rows -> Row]
  PROVE  Over(table, rows) \in [Tasks -> Row]
BY DEF Over

\* create: one Task more, at the position after the last.
LEMMA AppendIsDense ==
  ASSUME NEW table \in [Tasks -> Row], NEW t \in Tasks, NEW c,
         table[t].col # c, Dense(table, c),
         NEW row, row.col = c, row.pos = NextPosition({table[u].pos : u \in In(table, c)})
  PROVE  /\ row.pos \in Nat
         /\ Dense(Over(table, [u \in {t} |-> row]), c)
<1> DEFINE S == In(table, c)
           n == Cardinality(S)
           new == Over(table, [u \in {t} |-> row])
<1>1. IsFiniteSet(S) /\ n \in Nat
  BY InFinite
<1>2. row.pos = n
  <2>1. {table[u].pos : u \in S} = 0 .. n - 1
    BY DEF Dense
  <2> HIDE DEF S, n
  <2> QED
    BY <1>1, <2>1, NextPositionOfInterval DEF S
<1>3. In(new, c) = S \cup {t} /\ t \notin S
  BY DEF In, Over
<1>4. Cardinality(In(new, c)) = n + 1
  <2> HIDE DEF S, new
  <2> QED
    BY <1>1, <1>3, FS_AddElement DEF n
<1>5. new[t] = row /\ \A u \in S : new[u] = table[u]
  BY DEF Over, In
<1>6. /\ \A u \in S : table[u].pos \in 0 .. n - 1
      /\ \A u, v \in S : table[u].pos = table[v].pos => u = v
  BY DenseIsInjective
<1> HIDE DEF S, n, new
<1>7. \A u \in In(new, c) : new[u].pos \in 0 .. Cardinality(In(new, c)) - 1
  BY <1>1, <1>2, <1>3, <1>4, <1>5, <1>6
<1>8. \A u, v \in In(new, c) : new[u].pos = new[v].pos => u = v
  BY <1>1, <1>2, <1>3, <1>5, <1>6
<1>9. Dense(new, c)
  BY <1>7, <1>8, InjectiveIsDense
<1> QED
  BY <1>1, <1>2, <1>9 DEF new

\* A Column whose Tasks have their indexes as positions.
LEMMA RankedIsDense ==
  ASSUME NEW table \in [Tasks -> Row], NEW new, NEW c, NEW d,
         In(new, c) \subseteq In(table, d), Dense(table, d),
         \A u \in In(new, c) : new[u].pos = Rank(table, In(new, c), u)
  PROVE  Dense(new, c)
<1>1. IsFiniteSet(In(new, c))
  BY InFinite
<1>2. /\ \A u \in In(new, c) : table[u].pos \in Nat
      /\ \A u, v \in In(new, c) : table[u].pos = table[v].pos => u = v
  BY DenseIsInjective, InFinite DEF Row
<1>3. /\ \A u \in In(new, c) : Rank(table, In(new, c), u) \in 0 .. Cardinality(In(new, c)) - 1
      /\ \A u, v \in In(new, c) :
           Rank(table, In(new, c), u) = Rank(table, In(new, c), v) => u = v
  BY <1>1, <1>2, RankIsAnIndex
<1> QED
  BY <1>3, InjectiveIsDense

\* Splicing at index i leaves i free and keeps the Tasks' indexes different.
LEMMA SplicedRanks ==
  ASSUME NEW table \in [Tasks -> Row], NEW c, Dense(table, c), NEW t, NEW i \in Nat,
         i <= Cardinality(In(table, c) \ {t})
  PROVE  /\ \A u \in In(table, c) \ {t} :
              /\ Splice(Rank(table, In(table, c) \ {t}, u), i)
                   \in 0 .. Cardinality(In(table, c) \ {t})
              /\ Splice(Rank(table, In(table, c) \ {t}, u), i) # i
         /\ \A u, v \in In(table, c) \ {t} :
              Splice(Rank(table, In(table, c) \ {t}, u), i)
                = Splice(Rank(table, In(table, c) \ {t}, v), i) => u = v
<1> DEFINE R == In(table, c) \ {t}
           k(u) == Rank(table, R, u)
<1>1. IsFiniteSet(R) /\ R \subseteq In(table, c) /\ Cardinality(R) \in Nat
  <2>1. R \in SUBSET In(table, c)
    OBVIOUS
  <2> QED
    BY <2>1, InFinite, FS_Subset, FS_CardinalityType
<1>2. /\ \A u \in R : table[u].pos \in Nat
      /\ \A u, v \in R : table[u].pos = table[v].pos => u = v
  BY <1>1, DenseIsInjective, InFinite DEF Row
<1>3. i <= Cardinality(R)
  OBVIOUS
<1> HIDE DEF R
<1>4. /\ \A u \in R : k(u) \in 0 .. Cardinality(R) - 1
      /\ \A u, v \in R : k(u) = k(v) => u = v
  BY <1>1, <1>2, RankIsAnIndex
<1> HIDE DEF k
<1>5. \A u \in R : Splice(k(u), i) \in 0 .. Cardinality(R) /\ Splice(k(u), i) # i
  BY <1>1, <1>3, <1>4 DEF Splice
<1>6. \A u, v \in R : Splice(k(u), i) = Splice(k(v), i) => u = v
  BY <1>1, <1>4 DEF Splice
<1> QED
  BY <1>5, <1>6 DEF R, k

\* repositionTask: whatever Column was dense is dense when the orders it
\* computed are written.
LEMMA RepositionedIsDense ==
  ASSUME NEW table \in [Tasks -> Row],
         NEW t \in Tasks, table[t].col \in Columns, NEW c \in Columns,
         Dense(table, table[t].col), Dense(table, c),
         NEW i \in Nat, i <= Cardinality(In(table, c) \ {t}),
         NEW orders, orders = Repositioned(table, t, c, i)
  PROVE  /\ orders \in [In(table, table[t].col) \cup In(table, c) -> Row]
         /\ orders[t] = [col |-> c, pos |-> i]
         /\ \A u \in DOMAIN orders \ {t} : orders[u].col = table[u].col
         /\ \A d : Dense(table, d) => Dense(Over(table, orders), d)
<1> DEFINE s == table[t].col
           A == In(table, s) \cup In(table, c)
           new == Over(table, orders)
           k(u) == Rank(table, In(table, table[u].col) \ {t}, u)
           Index(u) == IF table[u].col = c THEN Splice(k(u), i) ELSE k(u)
<1>1. orders = [u \in A |-> IF u = t THEN [col |-> c, pos |-> i]
                                     ELSE [col |-> table[u].col, pos |-> Index(u)]]
  BY DEF Repositioned
<1>2. A \subseteq Tasks /\ t \in A
  BY DEF In
<1>3. \A u \in A : k(u) \in Nat
  <2> TAKE u \in A
  <2> DEFINE B == {v \in In(table, table[u].col) \ {t} : table[v].pos < table[u].pos}
  <2>1. B \in SUBSET Tasks
    BY DEF In
  <2>2. k(u) = Cardinality(B)
    BY DEF Rank
  <2> HIDE DEF B
  <2> QED
    BY <2>1, <2>2, TasksAssumption, FS_Subset, FS_CardinalityType
<1>4. \A u \in A : Index(u) \in Nat
  BY <1>3 DEF Splice
<1>5. \A u \in A : table[u].col \in Columns
  BY DEF In
<1> HIDE DEF A, Index
<1>6. orders \in [A -> Row]
  BY <1>1, <1>4, <1>5 DEF Row
<1>7. /\ DOMAIN orders = A
      /\ orders[t] = [col |-> c, pos |-> i]
      /\ \A u \in A \ {t} : orders[u].col = table[u].col
  BY <1>1, <1>2
<1>8. /\ new[t].col = c /\ new[t].pos = i
      /\ \A u \in A \ {t} : new[u].col = table[u].col /\ new[u].pos = Index(u)
      /\ \A u \in Tasks \ A : new[u] = table[u]
  BY <1>1, <1>2, <1>7 DEF Over
<1> HIDE DEF new
<1>9. \A u \in Tasks \ {t} : new[u].col = table[u].col
  BY <1>8
<1>10. In(new, c) = In(table, c) \cup {t}
  BY <1>8, <1>9 DEF In
<1>11. \A u \in In(table, c) : u \in A /\ table[u].col = c
  BY DEF A, In
<1>12. Dense(new, c)
  <2> DEFINE R == In(table, c) \ {t}
             j(u) == Splice(Rank(table, R, u), i)
  <2>1. \A u \in R : new[u].pos = j(u)
    BY <1>8, <1>11 DEF Index
  <2>2. new[t].pos = i
    BY <1>8
  <2>3. /\ \A u \in R : j(u) \in 0 .. Cardinality(R) /\ j(u) # i
        /\ \A u, v \in R : j(u) = j(v) => u = v
    BY SplicedRanks
  <2>4. i <= Cardinality(R)
    OBVIOUS
  <2>5. R \in SUBSET Tasks /\ t \notin R /\ In(new, c) = R \cup {t}
    BY <1>10 DEF In
  <2> HIDE DEF R, j
  <2>6. IsFiniteSet(R) /\ Cardinality(R) \in Nat
    BY <2>5, TasksAssumption, FS_Subset, FS_CardinalityType
  <2>7. Cardinality(In(new, c)) = Cardinality(R) + 1
    BY <2>5, <2>6, FS_AddElement
  <2>8. \A u \in In(new, c) : new[u].pos \in 0 .. Cardinality(In(new, c)) - 1
    BY <2>1, <2>2, <2>3, <2>4, <2>5, <2>6, <2>7
  <2>9. \A u, v \in In(new, c) : new[u].pos = new[v].pos => u = v
    BY <2>1, <2>2, <2>3, <2>5
  <2> QED
    BY <2>8, <2>9, InjectiveIsDense
<1>13. ASSUME s # c PROVE Dense(new, s)
  <2>1. In(new, s) = In(table, s) \ {t}
    BY <1>8, <1>9, <1>13 DEF In
  <2>2. \A u \in In(new, s) : u \in A \ {t} /\ table[u].col = s
    BY <2>1 DEF A, In
  <2>3. \A u \in In(new, s) : new[u].pos = Rank(table, In(new, s), u)
    BY <1>8, <1>13, <2>1, <2>2 DEF Index
  <2> QED
    BY <2>1, <2>3, RankedIsDense
<1>14. ASSUME NEW d, d # s, d # c, Dense(table, d) PROVE Dense(new, d)
  <2>1. \A u \in Tasks : table[u].col = d \/ new[u].col = d => table[u] = new[u]
    BY <1>8, <1>9, <1>14 DEF A, In
  <2> QED
    BY <1>14, <2>1, DenseIsLocal
<1>15. \A d : Dense(table, d) => Dense(new, d)
  BY <1>12, <1>13, <1>14
<1> QED
  BY <1>6, <1>7, <1>15 DEF A, new

\* remove, of a Task of Column c: what is left is renumbered.
LEMMA NormalizedIsDense ==
  ASSUME NEW table \in [Tasks -> Row], NEW c \in Columns, Dense(table, c),
         NEW t \in Tasks, table[t].col = c,
         NEW left, left[t].col = None, \A u \in Tasks \ {t} : left[u] = table[u],
         NEW orders, orders = Normalized(left, c)
  PROVE  /\ DOMAIN orders = In(table, c) \ {t}
         /\ orders \in [In(table, c) \ {t} -> Row]
         /\ \A u \in DOMAIN orders : orders[u].col = c
         /\ Dense(Over(left, orders), c)
<1> DEFINE S == In(table, c) \ {t}
           new == Over(left, orders)
<1>1. None \notin Columns
  BY NoneAssumption
<1>2. In(left, c) = S
  BY <1>1 DEF In
<1>3. orders = [u \in S |-> [col |-> c, pos |-> Rank(left, S, u)]]
  BY <1>2 DEF Normalized
<1>4. S \in SUBSET In(table, c) /\ t \notin S /\ S \in SUBSET Tasks
  BY DEF In
<1> HIDE DEF S
<1>5. \A u \in S : left[u] = table[u]
  BY <1>4
<1>6. \A u \in S : Rank(left, S, u) = Rank(table, S, u)
  <2> TAKE u \in S
  <2>1. {v \in S : left[v].pos < left[u].pos} = {v \in S : table[v].pos < table[u].pos}
    BY <1>5
  <2> QED
    BY <2>1 DEF Rank
<1>7. \A u \in S : Rank(table, S, u) \in Nat
  <2> TAKE u \in S
  <2> DEFINE B == {v \in S : table[v].pos < table[u].pos}
  <2>1. B \in SUBSET Tasks
    BY <1>4
  <2>2. Rank(table, S, u) = Cardinality(B)
    BY DEF Rank
  <2> HIDE DEF B
  <2> QED
    BY <2>1, <2>2, TasksAssumption, FS_Subset, FS_CardinalityType
<1>8. /\ DOMAIN orders = S
      /\ orders \in [S -> Row]
      /\ \A u \in S : orders[u].col = c /\ orders[u].pos = Rank(table, S, u)
  <2>1. DOMAIN orders = S /\ \A u \in S : orders[u] = [col |-> c, pos |-> Rank(left, S, u)]
    BY <1>3
  <2>2. \A u \in S : orders[u].col = c /\ orders[u].pos = Rank(table, S, u)
    <3> TAKE u \in S
    <3>1. Rank(left, S, u) = Rank(table, S, u) /\ orders[u] = [col |-> c, pos |-> Rank(left, S, u)]
      BY <1>6, <2>1
    <3> QED
      BY <3>1
  <2>3. \A u \in S : orders[u] \in Row
    <3> TAKE u \in S
    <3>1. Rank(left, S, u) \in Nat /\ orders[u] = [col |-> c, pos |-> Rank(left, S, u)]
      BY <1>6, <1>7, <2>1
    <3> QED
      BY <3>1 DEF Row
  <2>4. orders = [u \in S |-> orders[u]]
    BY <1>3
  <2> QED
    BY <2>1, <2>2, <2>3, <2>4
<1>9. /\ \A u \in S : new[u] = orders[u]
      /\ \A u \in Tasks \ S : new[u] = left[u]
  BY <1>4, <1>8 DEF Over
<1> HIDE DEF new
<1>10. In(new, c) = S
  <2>1. \A u \in Tasks : left[u].col = c <=> u \in S
    BY <1>2 DEF In
  <2>2. \A u \in Tasks \ S : new[u].col # c
    BY <1>9, <2>1
  <2>3. \A u \in S : new[u].col = c
    BY <1>8, <1>9
  <2> QED
    BY <1>4, <2>2, <2>3 DEF In
<1>11. \A u \in In(new, c) : new[u].pos = Rank(table, In(new, c), u)
  <2>1. \A u \in S : new[u].pos = Rank(table, S, u)
    BY <1>8, <1>9
  <2> QED
    BY <1>10, <2>1
<1>12. In(new, c) \subseteq In(table, c)
  BY <1>4, <1>10
<1>13. Dense(new, c)
  BY <1>11, <1>12, RankedIsDense
<1> QED
  BY <1>8, <1>13 DEF new, S

-----------------------------------------------------------------------------
(* The inductive invariant.  A Task request that is past LockProject has   *)
(* the project to itself: nobody else writes Tasks of it, so the table its *)
(* plan will leave is settled when the plan is made, and it is dense.      *)

Locked(r) == op[r].kind \in TaskKinds /\ pc[r] \in {"read", "shift", "place", "commit"}

\* The table that r leaves once it has carried out its plan.
Post(r) == Over(Seen(r), plan[r])

\* Which statements go with which request.
Shape(r) ==
  /\ pc[r] \in {"lockProject", "read", "shift", "place"} => op[r].kind \in TaskKinds
  /\ pc[r] \in {"lockBoard", "insertColumn", "lockColumn", "dropColumn"} =>
       op[r].kind \notin TaskKinds
  /\ op[r].kind \in TaskKinds =>
       /\ op[r].task \in Tasks /\ op[r].proj \in Projects /\ op[r].col \in Columns
       /\ home[op[r].task] = op[r].proj
  /\ op[r].kind = "create" => pc[r] # "shift" /\ task[op[r].task].col = None

HasProject(r) == Locked(r) => holder[<<"Project", op[r].proj>>] = r

\* The rows r has written or is going to write are Tasks of its project, on
\* Columns of its project or deleted.
OwnRows(r) ==
  /\ ~Locked(r) \/ pc[r] = "read" => work[r] = Empty /\ plan[r] = Empty
  /\ \A t \in DOMAIN work[r] \cup DOMAIN plan[r] :
       /\ home[t] = op[r].proj
       /\ task[t].col # None \/ (op[r].kind = "create" /\ t = op[r].task)
  /\ \A t \in DOMAIN work[r] :
       IF work[r][t].col = None THEN work[r][t] = NoRow
                                ELSE ProjectOf[work[r][t].col] = op[r].proj
  /\ \A t \in DOMAIN plan[r] :
       plan[r][t].col # None /\ ProjectOf[plan[r][t].col] = op[r].proj

\* What has left todo has been placed, and the plan ends in dense Columns.
Planned(r) ==
  /\ pc[r] \in {"place", "commit"} =>
       \A t \in DOMAIN plan[r] \ todo[r] : t \in DOMAIN work[r] /\ work[r][t] = plan[r][t]
  /\ pc[r] = "commit" => todo[r] = {}
  /\ Locked(r) /\ pc[r] # "read" =>
       \A c \in Columns : ProjectOf[c] = op[r].proj => Dense(Post(r), c)

RequestInv(r) == Shape(r) /\ HasProject(r) /\ OwnRows(r) /\ Planned(r)

\* An id given to a new Task is nobody else's.
FreshIds ==
  \A r, q \in Requests :
    r # q /\ op[r].kind = "create" /\ op[q].kind \in TaskKinds => op[q].task # op[r].task

TableInv ==
  \A t \in Tasks : IF task[t].col = None THEN task[t] = NoRow
                                         ELSE ProjectOf[task[t].col] = home[t]

ColumnsBounded ==
  \E n \in Nat : \A c \in Columns : column[c] # None => column[c] <= n

IInv ==
  /\ TypeOK
  /\ DensePositions
  /\ TableInv
  /\ ColumnsBounded
  /\ FreshIds
  /\ \A r \in Requests : RequestInv(r)

-----------------------------------------------------------------------------
(* What a step of request q leaves to the others.                          *)

Apart(q) ==
  \A r \in Requests \ {q} :
    /\ pc'[r] = pc[r] /\ op'[r] = op[r]
    /\ work'[r] = work[r] /\ plan'[r] = plan[r] /\ todo'[r] = todo[r]
    /\ \A x : x \in LockRows /\ holder[x] = r => holder'[x] = r

\* The Tasks of project p stay where they are.
Undisturbed(p) ==
  \A t \in Tasks, c \in Columns :
    ProjectOf[c] = p /\ (task[t].col = c \/ task'[t].col = c) => task'[t] = task[t]

\* FOR UPDATE takes nothing from the requests that hold locks already.
LEMMA ForUpdateKeeps ==
  ASSUME NEW q \in Requests, NEW X, ForUpdate(q, X), LocksTypeOK(LockRows, Requests),
         sharers' \in [LockRows -> SUBSET Requests]
  PROVE  /\ LocksTypeOK(LockRows, Requests)'
         /\ \A r \in Requests \ {q} : \A x : x \in LockRows /\ holder[x] = r => holder'[x] = r
         /\ \A x \in LockRows : x \in X => holder'[x] = q
BY NoneAssumption DEF ForUpdate, CanForUpdate, LocksTypeOK

\* FOR KEY SHARE leaves the shared locks well-typed.
LEMMA KeyShareKeeps ==
  ASSUME NEW q \in Requests, NEW X, KeyShare(q, X), LocksTypeOK(LockRows, Requests)
  PROVE  sharers' \in [LockRows -> SUBSET Requests]
BY DEF KeyShare, LocksTypeOK

\* A request that ends gives up its own locks only.
LEMMA ReleaseKeeps ==
  ASSUME NEW q \in Requests, ReleaseLocks(q), LocksTypeOK(LockRows, Requests)
  PROVE  /\ LocksTypeOK(LockRows, Requests)'
         /\ \A r \in Requests \ {q} : \A x : x \in LockRows /\ holder[x] = r => holder'[x] = r
BY NoneAssumption DEF ReleaseLocks, LocksTypeOK

\* A request whose project nobody disturbs keeps its part of the invariant.
LEMMA OthersKeep ==
  ASSUME IInv, NEW q \in Requests, Apart(q), NEW r \in Requests \ {q},
         \A t \in Tasks : home[t] # None => home'[t] = home[t],
         Locked(r) => Undisturbed(op[r].proj),
         op[r].kind = "create" => task'[op[r].task] = task[op[r].task]
  PROVE  RequestInv(r)'
<1>1. RequestInv(r)
  BY DEF IInv
<1>2. /\ pc'[r] = pc[r] /\ op'[r] = op[r]
      /\ work'[r] = work[r] /\ plan'[r] = plan[r] /\ todo'[r] = todo[r]
      /\ Locked(r)' = Locked(r)
  BY DEF Apart, Locked
<1>3. None \notin Projects /\ None \notin Columns
  BY NoneAssumption
<1>4. Shape(r)'
  BY <1>1, <1>2, <1>3 DEF RequestInv, Shape
<1>5. HasProject(r)'
  <2>1. Locked(r) => <<"Project", op[r].proj>> \in LockRows
    BY <1>1 DEF RequestInv, Shape, Locked, LockRows
  <2> QED
    BY <1>1, <1>2, <2>1 DEF RequestInv, HasProject, Apart
<1>6. \A t \in DOMAIN work[r] \cup DOMAIN plan[r] : Locked(r) /\ t \in Tasks
  BY <1>1 DEF RequestInv, OwnRows, IInv, TypeOK, IsRows, Empty
<1>7. OwnRows(r)'
  <2>1. ASSUME NEW t \in DOMAIN work[r] \cup DOMAIN plan[r]
        PROVE  home'[t] = op[r].proj /\ (task'[t].col # None \/ (op[r].kind = "create" /\ t = op[r].task))
    <3>1. t \in Tasks /\ Locked(r) /\ home[t] = op[r].proj /\ op[r].proj \in Projects
      BY <1>1, <1>6, <2>1 DEF RequestInv, OwnRows, Shape, Locked
    <3>2. home'[t] = op[r].proj
      BY <3>1, <1>3
    <3>3. CASE task[t].col # None
      <4>1. task[t].col \in Columns /\ ProjectOf[task[t].col] = home[t]
        BY <3>1, <3>3 DEF IInv, TypeOK, TableInv, Row
      <4>2. task'[t] = task[t]
        BY <3>1, <4>1 DEF Undisturbed
      <4> QED
        BY <3>2, <3>3, <4>2
    <3>4. CASE op[r].kind = "create" /\ t = op[r].task
      BY <3>2, <3>4
    <3> QED
      BY <1>1, <2>1, <3>3, <3>4 DEF RequestInv, OwnRows
  <2> QED
    BY <1>1, <1>2, <2>1 DEF RequestInv, OwnRows
<1>8. Planned(r)'
  <2>1. ASSUME Locked(r), pc[r] # "read", NEW c \in Columns, ProjectOf[c] = op[r].proj
        PROVE  Dense(Post(r)', c)
    <3>1. Dense(Post(r), c)
      BY <1>1, <2>1 DEF RequestInv, Planned
    <3>2. \A t \in Tasks : Post(r)[t].col = c \/ Post(r)'[t].col = c => Post(r)[t] = Post(r)'[t]
      <4> TAKE t \in Tasks
      <4>1. CASE t \in DOMAIN plan[r]
        BY <1>2, <4>1 DEF Post, Over
      <4>2. CASE t \notin DOMAIN plan[r] /\ t \in DOMAIN work[r]
        BY <1>2, <4>2 DEF Post, Over, Seen
      <4>3. CASE t \notin DOMAIN plan[r] /\ t \notin DOMAIN work[r]
        <5>1. Post(r)[t] = task[t] /\ Post(r)'[t] = task'[t]
          BY <1>2, <4>3 DEF Post, Over, Seen
        <5> QED
          BY <2>1, <5>1 DEF Undisturbed
      <4> QED
        BY <4>1, <4>2, <4>3
    <3> QED
      BY <3>1, <3>2, DenseIsLocal
  <2> QED
    BY <1>1, <1>2, <2>1 DEF RequestInv, Planned
<1> QED
  BY <1>4, <1>5, <1>7, <1>8 DEF RequestInv

-----------------------------------------------------------------------------
\* Empty boards satisfy the invariant.
LEMMA InitInv == Init => IInv
<1> SUFFICES ASSUME Init PROVE IInv
  OBVIOUS
<1> USE DEF Init
<1>1. None \notin Columns /\ None \notin Requests
  BY NoneAssumption
<1>2. TypeOK
  BY StartPositionAssumption DEF TypeOK, NoRow, Row, NoOp, Op, PCs, Empty, IsRows, LocksTypeOK, LocksInit
<1>3. DensePositions
  <2> SUFFICES ASSUME NEW c \in Columns PROVE Dense(task, c)
    BY DEF DensePositions
  <2>1. In(task, c) = {}
    BY <1>1 DEF In, NoRow
  <2>2. Cardinality(In(task, c)) = 0
    BY <2>1, FS_EmptySet
  <2>3. {task[t].pos : t \in In(task, c)} = {}
    BY <2>1
  <2> QED
    BY <2>2, <2>3 DEF Dense
<1>4. TableInv
  BY DEF TableInv, NoRow
<1>5. ColumnsBounded
  <2>1. Cardinality(Columns) \in Nat
    BY StartPositionAssumption, FS_CardinalityType
  <2>2. \A c \in Columns : column[c] # None => column[c] <= Cardinality(Columns)
    BY <2>1, StartPositionAssumption
  <2> QED
    BY <2>1, <2>2 DEF ColumnsBounded
<1>6. FreshIds
  BY NoneAssumption DEF FreshIds, NoOp, TaskKinds, Kinds
<1>7. ASSUME NEW r \in Requests PROVE RequestInv(r)
  BY NoneAssumption, <1>7
     DEF RequestInv, Shape, HasProject, OwnRows, Planned, Locked, Empty, NoOp, TaskKinds, Kinds
<1> QED
  BY <1>2, <1>3, <1>4, <1>5, <1>6, <1>7 DEF IInv

-----------------------------------------------------------------------------
(* One lemma per action.                                                   *)

RequestsTyped ==
  /\ pc \in [Requests -> PCs]
  /\ op \in [Requests -> Op]
  /\ DOMAIN work = Requests /\ DOMAIN plan = Requests
  /\ \A r \in Requests : IsRows(work[r]) /\ IsRows(plan[r])
  /\ todo \in [Requests -> SUBSET Tasks]
  /\ \A r \in Requests : todo[r] \subseteq DOMAIN plan[r]
  /\ LocksTypeOK(LockRows, Requests)

\* A step of an open request that leaves the tables alone.
LEMMA QuietStep ==
  ASSUME IInv, NEW q \in Requests, Apart(q),
         task' = task, home' = home, column' = column, used' = used,
         RequestsTyped', RequestInv(q)',
         op'[q].kind \in TaskKinds => op'[q].kind = op[q].kind /\ op'[q].task = op[q].task
  PROVE  IInv'
<1>1. TypeOK'
  BY DEF IInv, TypeOK, RequestsTyped
<1>2. DensePositions' /\ TableInv' /\ ColumnsBounded'
  BY DEF IInv, DensePositions, TableInv, ColumnsBounded, Dense, In
<1>3. FreshIds'
  BY DEF IInv, FreshIds, Apart, TaskKinds
<1>4. \A r \in Requests : RequestInv(r)'
  <2>1. ASSUME NEW r \in Requests \ {q} PROVE RequestInv(r)'
    BY OthersKeep DEF Undisturbed
  <2> QED
    BY <2>1
<1> QED
  BY <1>1, <1>2, <1>3, <1>4 DEF IInv

\* COMMIT and ROLLBACK, as far as the requests go.
LEMMA EndKeeps ==
  ASSUME IInv, NEW q \in Requests, End(q)
  PROVE  Apart(q) /\ RequestsTyped' /\ RequestInv(q)' /\ op'[q].kind \notin TaskKinds
<1>1. RequestsTyped
  BY DEF IInv, TypeOK, RequestsTyped
<1>2. /\ pc' = [pc EXCEPT ![q] = "idle"]
      /\ op' = [op EXCEPT ![q] = NoOp]
      /\ work' = [work EXCEPT ![q] = Empty]
      /\ plan' = [plan EXCEPT ![q] = Empty]
      /\ todo' = [todo EXCEPT ![q] = {}]
  BY DEF End, Goto
<1>3. /\ LocksTypeOK(LockRows, Requests)'
      /\ \A r \in Requests \ {q} : \A x : x \in LockRows /\ holder[x] = r => holder'[x] = r
  BY <1>1, ReleaseKeeps DEF End, RequestsTyped
<1>4. Apart(q)
  BY <1>1, <1>2, <1>3 DEF Apart, RequestsTyped
<1>5. /\ pc'[q] = "idle" /\ op'[q] = NoOp /\ work'[q] = Empty /\ plan'[q] = Empty
      /\ todo'[q] = {}
  BY <1>1, <1>2 DEF RequestsTyped
<1>6. op'[q].kind \notin TaskKinds
  BY <1>5, NoneAssumption DEF NoOp, TaskKinds, Kinds
<1>7. DOMAIN Empty = {} /\ IsRows(Empty)
  BY DEF Empty, IsRows
<1>8. RequestsTyped'
  <2>1. NoOp \in Op /\ "idle" \in PCs
    BY DEF NoOp, Op, PCs
  <2> QED
    BY <1>1, <1>2, <1>3, <1>7, <2>1 DEF RequestsTyped
<1>9. RequestInv(q)'
  BY <1>5, <1>6, <1>7 DEF RequestInv, Shape, HasProject, OwnRows, Planned, Locked, TaskKinds
<1> QED
  BY <1>4, <1>6, <1>8, <1>9

\* A request that fails leaves what the others rely on as it was.
LEMMA RollbackInv ==
  ASSUME IInv, NEW q \in Requests, Rollback(q)
  PROVE  IInv'
<1>1. Apart(q) /\ RequestsTyped' /\ RequestInv(q)' /\ op'[q].kind \notin TaskKinds
  BY EndKeeps DEF Rollback
<1> QED
  BY <1>1, QuietStep DEF Rollback

\* A request starts: nothing of it is locked, written or planned yet.
LEMMA StartKeeps ==
  ASSUME IInv, NEW q \in Requests, NEW first \in PCs, NEW request \in Op,
         Start(q, first, request)
  PROVE  /\ Apart(q) /\ RequestsTyped'
         /\ pc'[q] = first /\ op'[q] = request
         /\ work'[q] = Empty /\ plan'[q] = Empty
<1>1. RequestsTyped
  BY DEF IInv, TypeOK, RequestsTyped
<1>2. /\ pc' = [pc EXCEPT ![q] = first]
      /\ op' = [op EXCEPT ![q] = request]
      /\ work' = work /\ plan' = plan /\ todo' = todo /\ holder' = holder /\ sharers' = sharers
  BY DEF Start, Goto
<1>3. work[q] = Empty /\ plan[q] = Empty
  BY DEF IInv, RequestInv, OwnRows, Locked, Start
<1>4. RequestsTyped'
  BY <1>1, <1>2 DEF RequestsTyped, LocksTypeOK
<1> QED
  BY <1>1, <1>2, <1>3, <1>4 DEF Apart, RequestsTyped

\* POST takes an id that no other request can name.
LEMMA StartCreateInv ==
  ASSUME IInv, NEW q \in Requests, StartCreate(q)
  PROVE  IInv'
<1>1. PICK t \in Tasks, p \in Projects, c \in Columns :
        /\ home[t] = None
        /\ Start(q, "lockProject",
                 [NoOp EXCEPT !.kind = "create", !.task = t, !.proj = p, !.col = c])
        /\ home' = [home EXCEPT ![t] = p]
        /\ used' = used
  BY DEF StartCreate
<1> DEFINE request == [NoOp EXCEPT !.kind = "create", !.task = t, !.proj = p, !.col = c]
<1>2. /\ request \in Op /\ request.kind = "create" /\ request.task = t
      /\ request.proj = p /\ request.col = c
      /\ "lockProject" \in PCs
  BY DEF NoOp, Op, Kinds, PCs
<1> HIDE DEF request
<1>3. Start(q, "lockProject", request)
  BY <1>1 DEF request
<1>4. /\ Apart(q) /\ RequestsTyped'
      /\ pc'[q] = "lockProject" /\ op'[q] = request
      /\ work'[q] = Empty /\ plan'[q] = Empty
  BY <1>2, <1>3, StartKeeps
<1>5. task' = task /\ column' = column
  BY <1>3 DEF Start
<1>6. None \notin Projects
  BY NoneAssumption
<1>7. home \in [Tasks -> Projects \cup {None}]
  BY DEF IInv, TypeOK
<1>8. TypeOK'
  BY <1>1, <1>4, <1>5, <1>7 DEF IInv, TypeOK, RequestsTyped
<1>9. task[t].col = None
  BY <1>1, <1>6, ProjectOfAssumption DEF IInv, TypeOK, Row, TableInv
<1>10. DensePositions' /\ TableInv' /\ ColumnsBounded'
  <2>1. DensePositions' /\ ColumnsBounded'
    BY <1>5 DEF IInv, DensePositions, ColumnsBounded, Dense, In
  <2>2. TableInv'
    BY <1>1, <1>5, <1>7, <1>9 DEF IInv, TableInv
  <2> QED
    BY <2>1, <2>2
<1>11. \A r \in Requests \ {q} : op[r].kind \in TaskKinds => op[r].task # t
  BY <1>1, <1>6 DEF IInv, RequestInv, Shape
<1>12. FreshIds'
  BY <1>2, <1>4, <1>11 DEF IInv, FreshIds, Apart, TaskKinds
<1>13. RequestInv(q)'
  <2>1. DOMAIN Empty = {}
    BY DEF Empty
  <2>2. home'[t] = p
    BY <1>1, <1>7
  <2> QED
    BY <1>2, <1>4, <1>5, <1>9, <2>1, <2>2
       DEF RequestInv, Shape, HasProject, OwnRows, Planned, Locked, TaskKinds
<1>14. ASSUME NEW r \in Requests \ {q} PROVE RequestInv(r)'
  BY <1>1, <1>4, <1>5, <1>7, OthersKeep DEF Undisturbed
<1> QED
  BY <1>8, <1>10, <1>12, <1>13, <1>14 DEF IInv

\* PATCH and DELETE name a Task that is there, so not one being created.
LEMMA StartChangeInv ==
  ASSUME IInv, NEW q \in Requests, StartChange(q)
  PROVE  IInv'
<1>1. PICK t \in Tasks, kind \in {"update", "move", "remove"} :
        /\ task[t].col # None
        /\ \E c \in IF kind = "remove" THEN {task[t].col} ELSE Columns,
              i \in IF kind = "move" THEN 0 .. Cardinality(Tasks) ELSE {0} :
             Start(q, "lockProject",
                   [kind |-> kind, task |-> t, proj |-> home[t], col |-> c, idx |-> i])
        /\ home' = home /\ used' = used
  BY DEF StartChange
<1>2. PICK c \in IF kind = "remove" THEN {task[t].col} ELSE Columns,
           i \in IF kind = "move" THEN 0 .. Cardinality(Tasks) ELSE {0} :
        Start(q, "lockProject",
              [kind |-> kind, task |-> t, proj |-> home[t], col |-> c, idx |-> i])
  BY <1>1
<1> DEFINE request == [kind |-> kind, task |-> t, proj |-> home[t], col |-> c, idx |-> i]
<1>3. task[t].col \in Columns /\ home[t] \in Projects
  BY <1>1, ProjectOfAssumption DEF IInv, TypeOK, Row, TableInv
<1>4. c \in Columns /\ i \in Nat
  BY <1>3
<1>5. /\ request \in Op /\ request.kind \in TaskKinds /\ request.kind # "create"
      /\ request.task = t /\ request.proj = home[t] /\ request.col = c
      /\ "lockProject" \in PCs
  BY <1>3, <1>4 DEF Op, Kinds, TaskKinds, PCs
<1> HIDE DEF request
<1>6. Start(q, "lockProject", request)
  BY <1>2 DEF request
<1>7. /\ Apart(q) /\ RequestsTyped'
      /\ pc'[q] = "lockProject" /\ op'[q] = request
      /\ work'[q] = Empty /\ plan'[q] = Empty
  BY <1>5, <1>6, StartKeeps
<1>8. task' = task /\ column' = column
  BY <1>6 DEF Start
<1>9. TypeOK'
  BY <1>1, <1>7, <1>8 DEF IInv, TypeOK, RequestsTyped
<1>10. DensePositions' /\ TableInv' /\ ColumnsBounded'
  BY <1>1, <1>8 DEF IInv, DensePositions, TableInv, ColumnsBounded, Dense, In
<1>11. \A r \in Requests \ {q} : op[r].kind = "create" => op[r].task # t
  BY <1>1 DEF IInv, RequestInv, Shape
<1>12. FreshIds'
  BY <1>5, <1>7, <1>11 DEF IInv, FreshIds, Apart, TaskKinds
<1>13. RequestInv(q)'
  <2>1. DOMAIN Empty = {}
    BY DEF Empty
  <2> QED
    BY <1>1, <1>3, <1>4, <1>5, <1>7, <2>1
       DEF RequestInv, Shape, HasProject, OwnRows, Planned, Locked
<1>14. ASSUME NEW r \in Requests \ {q} PROVE RequestInv(r)'
  BY <1>1, <1>7, <1>8, OthersKeep DEF Undisturbed
<1> QED
  BY <1>9, <1>10, <1>12, <1>13, <1>14 DEF IInv

\* The requests on Columns have nothing to do with Tasks.
LEMMA StartColumnChangeInv ==
  ASSUME IInv, NEW q \in Requests, StartColumnChange(q)
  PROVE  IInv'
<1>1. PICK first \in {"lockBoard", "lockColumn"}, c \in Columns,
           kind \in {"addColumn", "renameColumn", "removeColumn"} :
        /\ Start(q, first, [NoOp EXCEPT !.kind = kind, !.proj = ProjectOf[c], !.col = c])
        /\ home' = home /\ used' \subseteq Columns
  BY DEF StartColumnChange, IInv, TypeOK
<1> DEFINE request == [NoOp EXCEPT !.kind = kind, !.proj = ProjectOf[c], !.col = c]
<1>2. /\ request \in Op /\ request.kind \notin TaskKinds
      /\ first \in PCs
  BY ProjectOfAssumption DEF NoOp, Op, Kinds, TaskKinds, PCs
<1> HIDE DEF request
<1>3. Start(q, first, request)
  BY <1>1 DEF request
<1>4. /\ Apart(q) /\ RequestsTyped'
      /\ pc'[q] = first /\ op'[q] = request
      /\ work'[q] = Empty /\ plan'[q] = Empty
  BY <1>2, <1>3, StartKeeps
<1>5. task' = task /\ column' = column
  BY <1>3 DEF Start
<1>6. TypeOK'
  BY <1>1, <1>4, <1>5 DEF IInv, TypeOK, RequestsTyped
<1>7. DensePositions' /\ TableInv' /\ ColumnsBounded'
  BY <1>1, <1>5 DEF IInv, DensePositions, TableInv, ColumnsBounded, Dense, In
<1>8. FreshIds'
  BY <1>2, <1>4 DEF IInv, FreshIds, Apart, TaskKinds
<1>9. RequestInv(q)'
  <2>1. DOMAIN Empty = {}
    BY DEF Empty
  <2> QED
    BY <1>2, <1>4, <2>1
       DEF RequestInv, Shape, HasProject, OwnRows, Planned, Locked, TaskKinds
<1>10. ASSUME NEW r \in Requests \ {q} PROVE RequestInv(r)'
  BY <1>1, <1>4, <1>5, OthersKeep DEF Undisturbed
<1> QED
  BY <1>6, <1>7, <1>8, <1>9, <1>10 DEF IInv

\* From LockProject on, the project is the request's own.
LEMMA LockProjectInv ==
  ASSUME IInv, NEW q \in Requests, LockProject(q)
  PROVE  IInv'
<1>1. RequestsTyped /\ RequestInv(q)
  BY DEF IInv, TypeOK, RequestsTyped
<1>2. /\ pc[q] = "lockProject" /\ pc' = [pc EXCEPT ![q] = "read"]
      /\ op' = op /\ work' = work /\ plan' = plan /\ todo' = todo /\ sharers' = sharers
      /\ task' = task /\ home' = home /\ column' = column /\ used' = used
      /\ ForUpdate(q, {<<"Project", op[q].proj>>})
  BY DEF LockProject, Goto
<1>3. /\ LocksTypeOK(LockRows, Requests)'
      /\ \A r \in Requests \ {q} : \A x : x \in LockRows /\ holder[x] = r => holder'[x] = r
      /\ \A x \in LockRows : x \in {<<"Project", op[q].proj>>} => holder'[x] = q
  BY <1>1, <1>2, ForUpdateKeeps DEF RequestsTyped, LocksTypeOK
<1>4. <<"Project", op[q].proj>> \in LockRows
  BY <1>1, <1>2 DEF RequestInv, Shape, LockRows
<1>5. Apart(q)
  BY <1>1, <1>2, <1>3 DEF Apart, RequestsTyped
<1>6. RequestsTyped'
  BY <1>1, <1>2, <1>3 DEF RequestsTyped, PCs
<1>7. pc'[q] = "read"
  BY <1>1, <1>2 DEF RequestsTyped
<1>8. RequestInv(q)'
  <2>1. work[q] = Empty /\ plan[q] = Empty
    BY <1>1, <1>2 DEF RequestInv, OwnRows, Locked
  <2>2. HasProject(q)'
    BY <1>2, <1>3, <1>4 DEF HasProject
  <2>3. DOMAIN Empty = {}
    BY DEF Empty
  <2>4. Shape(q)'
    BY <1>1, <1>2, <1>7 DEF RequestInv, Shape
  <2>5. OwnRows(q)'
    BY <1>2, <1>7, <2>1, <2>3 DEF OwnRows
  <2>6. Planned(q)'
    BY <1>7 DEF Planned
  <2> QED
    BY <2>2, <2>4, <2>5, <2>6 DEF RequestInv
<1> QED
  BY <1>2, <1>5, <1>6, <1>8, QuietStep

\* A read under the project's lock that ends in a plan: what the plan has to
\* satisfy, and that nobody else is touched.
LEMMA PlanKeeps ==
  ASSUME IInv, NEW q \in Requests, Locked(q), pc[q] = "read",
         NEW X, ForUpdate(q, X), UNCHANGED <<task, home, column, used, op, sharers>>,
         NEW rows, Write(q, rows, pc'[q]), pc'[q] \in {"shift", "place", "commit"},
         IsRows(rows),
         pc'[q] = "commit" => rows = Empty,
         op[q].kind = "create" => pc'[q] # "shift",
         DOMAIN work' = Requests, IsRows(work'[q]),
         \A r \in Requests \ {q} : work'[r] = work[r],
         \A t \in DOMAIN rows :
           /\ home[t] = op[q].proj
           /\ task[t].col # None \/ (op[q].kind = "create" /\ t = op[q].task)
           /\ rows[t].col # None /\ ProjectOf[rows[t].col] = op[q].proj,
         \A t \in DOMAIN work'[q] :
           home[t] = op[q].proj /\ task[t].col # None /\ work'[q][t] = NoRow,
         \A c \in Columns : ProjectOf[c] = op[q].proj => Dense(Over(Seen(q)', rows), c)
  PROVE  IInv'
<1>1. RequestsTyped /\ RequestInv(q)
  BY DEF IInv, TypeOK, RequestsTyped
<1>2. /\ plan' = [plan EXCEPT ![q] = rows] /\ todo' = [todo EXCEPT ![q] = DOMAIN rows]
      /\ pc' = [pc EXCEPT ![q] = pc'[q]]
  BY DEF Write, Goto
<1>3. /\ LocksTypeOK(LockRows, Requests)'
      /\ \A r \in Requests \ {q} : \A x : x \in LockRows /\ holder[x] = r => holder'[x] = r
      /\ \A x \in LockRows : x \in X => holder'[x] = q
  BY <1>1, ForUpdateKeeps DEF RequestsTyped, LocksTypeOK
<1>4. \A r \in Requests \ {q} : pc'[r] = pc[r] /\ plan'[r] = plan[r] /\ todo'[r] = todo[r]
  BY <1>1, <1>2 DEF RequestsTyped
<1>5. Apart(q)
  BY <1>3, <1>4 DEF Apart
<1>6. plan'[q] = rows /\ todo'[q] = DOMAIN rows /\ pc' \in [Requests -> PCs]
  BY <1>1, <1>2 DEF RequestsTyped, PCs
<1>7. RequestsTyped'
  <2>1. DOMAIN plan' = Requests /\ todo' \in [Requests -> SUBSET Tasks]
    BY <1>1, <1>2 DEF RequestsTyped, IsRows
  <2>2. \A r \in Requests : IsRows(work'[r]) /\ IsRows(plan'[r]) /\ todo'[r] \subseteq DOMAIN plan'[r]
    BY <1>1, <1>4, <1>6 DEF RequestsTyped
  <2> QED
    BY <1>1, <1>3, <1>6, <2>1, <2>2 DEF RequestsTyped
<1>8. RequestInv(q)'
  <2>1. Shape(q)'
    BY <1>1 DEF RequestInv, Shape, Locked
  <2>2. HasProject(q)'
    <3>1. <<"Project", op[q].proj>> \in LockRows /\ holder[<<"Project", op[q].proj>>] = q
      BY <1>1 DEF RequestInv, Shape, HasProject, Locked, LockRows
    <3>2. holder'[<<"Project", op[q].proj>>] = q
      BY <1>1, <3>1 DEF ForUpdate, RequestsTyped, LocksTypeOK
    <3> QED
      BY <3>2 DEF HasProject
  <2>3. OwnRows(q)'
    <3>1. Locked(q)'
      BY DEF Locked
    <3>2. NoRow.col = None
      BY DEF NoRow
    <3> QED
      BY <1>6, <3>1, <3>2 DEF OwnRows
  <2>4. Planned(q)'
    <3>1. DOMAIN Empty = {}
      BY DEF Empty
    <3>2. Post(q)' = Over(Seen(q)', rows)
      BY <1>6 DEF Post
    <3> QED
      BY <1>6, <3>1, <3>2 DEF Planned
  <2> QED
    BY <2>1, <2>2, <2>3, <2>4 DEF RequestInv
<1> QED
  BY <1>5, <1>7, <1>8, QuietStep

\* create plans one row, after the last of its Column.
LEMMA ReadForCreateInv ==
  ASSUME IInv, NEW q \in Requests, ReadForCreate(q)
  PROVE  IInv'
<1> DEFINE t == op[q].task
           c == op[q].col
           position == NextPosition({task[u].pos : u \in In(task, c)})
           row == [col |-> c, pos |-> position]
           rows == [u \in {t} |-> row]
<1>1. CASE ~ColumnInProject(q)
  BY <1>1, RollbackInv DEF ReadForCreate
<1>2. CASE ColumnInProject(q)
  <2>1. /\ pc[q] = "read" /\ op[q].kind = "create" /\ Write(q, rows, "place")
        /\ UNCHANGED <<task, home, column, used, op, work, holder, sharers>>
    BY <1>2 DEF ReadForCreate
  <2>2. RequestInv(q) /\ RequestsTyped /\ task \in [Tasks -> Row]
    BY DEF IInv, TypeOK, RequestsTyped
  <2>3. /\ Locked(q) /\ t \in Tasks /\ c \in Columns /\ home[t] = op[q].proj
        /\ task[t].col = None /\ work[q] = Empty
    BY <2>1, <2>2 DEF RequestInv, Shape, OwnRows, Locked, TaskKinds
  <2>4. c # None /\ ProjectOf[c] = op[q].proj
    BY <1>2, <2>3, NoneAssumption DEF ColumnInProject
  <2>5. row.pos \in Nat /\ Dense(Over(task, rows), c)
    <3>1. Dense(task, c) /\ task[t].col # c
      BY <2>3, <2>4 DEF IInv, DensePositions
    <3>2. row.col = c /\ row.pos = NextPosition({task[u].pos : u \in In(task, c)})
      OBVIOUS
    <3> HIDE DEF t, c, row
    <3> QED
      BY <2>2, <2>3, <3>1, <3>2, AppendIsDense
  <2>6. IsRows(rows)
    BY <2>3, <2>5 DEF IsRows, Row
  <2>7. Seen(q)' = task
    BY <2>1, <2>2, <2>3 DEF Seen, Empty
  <2>8. ASSUME NEW d \in Columns, ProjectOf[d] = op[q].proj PROVE Dense(Over(Seen(q)', rows), d)
    <3>1. CASE d = c
      BY <2>5, <2>7, <3>1
    <3>2. CASE d # c
      <4>1. Dense(task, d)
        BY DEF IInv, DensePositions
      <4>2. d # None
        BY NoneAssumption
      <4>3. \A u \in Tasks : task[u].col = d \/ Over(task, rows)[u].col = d
                               => task[u] = Over(task, rows)[u]
        BY <2>3, <3>2, <4>2 DEF Over
      <4> QED
        BY <2>7, <4>1, <4>3, DenseIsLocal
    <3> QED
      BY <3>1, <3>2
  <2>9. ForUpdate(q, {})
    BY <2>1, <2>2 DEF ForUpdate, RequestsTyped, LocksTypeOK
  <2>10. pc'[q] = "place"
    BY <2>1, <2>2 DEF Write, Goto, RequestsTyped
  <2>11. /\ DOMAIN work' = Requests /\ IsRows(work'[q]) /\ DOMAIN work'[q] = {}
         /\ \A r \in Requests \ {q} : work'[r] = work[r]
    BY <2>1, <2>2, <2>3 DEF RequestsTyped, Empty
  <2>12. /\ DOMAIN rows = {t} /\ rows[t].col = c
    OBVIOUS
  <2>13. \A u \in DOMAIN rows :
           /\ home[u] = op[q].proj
           /\ task[u].col # None \/ (op[q].kind = "create" /\ u = op[q].task)
           /\ rows[u].col # None /\ ProjectOf[rows[u].col] = op[q].proj
    BY <2>1, <2>3, <2>4, <2>12
  <2>14. Write(q, rows, pc'[q])
    BY <2>1, <2>10
  <2> HIDE DEF t, c, rows
  <2> QED
    BY <2>1, <2>3, <2>6, <2>8, <2>9, <2>10, <2>11, <2>13, <2>14, PlanKeeps
<1> QED
  BY <1>1, <1>2

\* update and move plan the orders of one or two Columns of the project.
LEMMA ReadForRepositionInv ==
  ASSUME IInv, NEW q \in Requests, ReadForReposition(q)
  PROVE  IInv'
<1> DEFINE t == op[q].task
           c == op[q].col
           index == IF op[q].kind = "update" THEN Cardinality(In(task, c)) ELSE op[q].idx
           orders == Repositioned(task, t, c, index)
           Refused == \/ task[t].col = None
                      \/ ~ColumnInProject(q)
                      \/ task[t].col = c /\ op[q].kind = "update"
                      \/ \E u \in DOMAIN orders : home[u] # op[q].proj
                      \/ index > Cardinality(In(task, c) \ {t})
                      \/ task[t].col = c /\ index = Rank(task, In(task, c), t)
<1>1. CASE Refused
  BY <1>1, RollbackInv DEF ReadForReposition
<1>2. CASE ~Refused
  <2>1. /\ pc[q] = "read" /\ op[q].kind \in {"update", "move"} /\ Write(q, orders, "shift")
        /\ ForUpdate(q, {<<"Task", t>>})
        /\ UNCHANGED <<task, home, column, used, op, work, sharers>>
    BY <1>2 DEF ReadForReposition
  <2>2. /\ RequestInv(q) /\ RequestsTyped /\ task \in [Tasks -> Row] /\ op[q] \in Op
        /\ TableInv /\ DensePositions
    BY DEF IInv, TypeOK, RequestsTyped
  <2>3. /\ Locked(q) /\ t \in Tasks /\ c \in Columns /\ home[t] = op[q].proj /\ work[q] = Empty
    BY <2>1, <2>2 DEF RequestInv, Shape, OwnRows, Locked, TaskKinds
  <2>4. None \notin Columns /\ None \notin Projects
    BY NoneAssumption
  <2>5. ProjectOf[c] = op[q].proj /\ task[t].col \in Columns
    BY <1>2, <2>2, <2>3 DEF ColumnInProject, Row
  <2>6. index \in Nat /\ index <= Cardinality(In(task, c) \ {t})
    <3>1. In(task, c) \ {t} \in SUBSET Tasks
      BY DEF In
    <3>2. Cardinality(In(task, c)) \in Nat /\ Cardinality(In(task, c) \ {t}) \in Nat
      BY <3>1, InFinite, TasksAssumption, FS_Subset, FS_CardinalityType
    <3>3. index \in Nat
      BY <2>2, <3>2 DEF Op
    <3>4. ~(index > Cardinality(In(task, c) \ {t}))
      BY <1>2
    <3> HIDE DEF index
    <3> QED
      BY <3>2, <3>3, <3>4
  <2>7. \A u \in DOMAIN orders : home[u] = op[q].proj
    BY <1>2
  <2>8. Dense(task, task[t].col) /\ Dense(task, c)
    BY <2>2, <2>3, <2>5 DEF DensePositions
  <2> HIDE DEF t, c, index, orders, Refused
  <2>9. /\ orders \in [In(task, task[t].col) \cup In(task, c) -> Row]
        /\ orders[t] = [col |-> c, pos |-> index]
        /\ \A u \in DOMAIN orders \ {t} : orders[u].col = task[u].col
        /\ \A d : Dense(task, d) => Dense(Over(task, orders), d)
    BY <2>2, <2>3, <2>5, <2>6, <2>8, RepositionedIsDense DEF orders
  <2>10. \A u \in DOMAIN orders : u \in Tasks /\ task[u].col \in Columns
    BY <2>3, <2>5, <2>9 DEF In
  <2>11. IsRows(orders)
    BY <2>9, <2>10 DEF IsRows
  <2>12. Seen(q)' = task
    BY <2>1, <2>2, <2>3 DEF Seen, Empty
  <2>13. \A d \in Columns : ProjectOf[d] = op[q].proj => Dense(Over(Seen(q)', orders), d)
    BY <2>2, <2>9, <2>12 DEF DensePositions
  <2>14. pc'[q] = "shift"
    BY <2>1, <2>2 DEF Write, Goto, RequestsTyped
  <2>15. /\ DOMAIN work' = Requests /\ IsRows(work'[q]) /\ DOMAIN work'[q] = {}
         /\ \A r \in Requests \ {q} : work'[r] = work[r]
    BY <2>1, <2>2, <2>3 DEF RequestsTyped, Empty
  <2>16. \A u \in DOMAIN orders :
           /\ home[u] = op[q].proj
           /\ task[u].col # None
           /\ orders[u].col # None /\ ProjectOf[orders[u].col] = op[q].proj
    <3> TAKE u \in DOMAIN orders
    <3>1. home[u] = op[q].proj /\ task[u].col # None
      BY <2>4, <2>7, <2>10
    <3>2. ProjectOf[task[u].col] = home[u]
      BY <2>2, <2>10, <3>1 DEF TableInv
    <3>3. CASE u = t
      BY <2>3, <2>4, <2>5, <2>9, <3>1, <3>3
    <3>4. CASE u # t
      BY <2>9, <3>1, <3>2, <3>4
    <3> QED
      BY <3>3, <3>4
  <2>17. Write(q, orders, pc'[q])
    BY <2>1, <2>14
  <2>18. op[q].kind # "create"
    BY <2>1
  <2> QED
    BY <2>1, <2>3, <2>11, <2>13, <2>14, <2>15, <2>16, <2>17, <2>18, PlanKeeps
<1> QED
  BY <1>1, <1>2

\* remove has deleted its row and plans to close the gap, if there is one.
LEMMA ReadForRemoveInv ==
  ASSUME IInv, NEW q \in Requests, ReadForRemove(q)
  PROVE  IInv'
<1> DEFINE t == op[q].task
           c == task[t].col
           left == [task EXCEPT ![t] = NoRow]
           orders == Normalized(left, c)
           NoGap == \A u \in DOMAIN orders : orders[u].pos = task[u].pos
           next == IF NoGap THEN "commit" ELSE "shift"
           rows == IF NoGap THEN Empty ELSE orders
           Refused == c = None \/ \E u \in DOMAIN orders : home[u] # op[q].proj
<1>1. CASE Refused
  BY <1>1, RollbackInv DEF ReadForRemove
<1>2. CASE ~Refused
  <2>1. /\ pc[q] = "read" /\ op[q].kind = "remove" /\ Write(q, rows, next)
        /\ WriteRow(q, t, NoRow)
        /\ UNCHANGED <<task, home, column, used, op, sharers>>
    BY <1>2 DEF ReadForRemove
  <2>2. /\ RequestInv(q) /\ RequestsTyped /\ task \in [Tasks -> Row] /\ TableInv /\ DensePositions
    BY DEF IInv, TypeOK, RequestsTyped
  <2>3. Locked(q) /\ t \in Tasks /\ home[t] = op[q].proj /\ work[q] = Empty
    BY <2>1, <2>2 DEF RequestInv, Shape, OwnRows, Locked, TaskKinds
  <2>4. c \in Columns /\ ProjectOf[c] = op[q].proj
    BY <1>2, <2>2, <2>3 DEF TableInv, Row
  <2>5. Dense(task, c)
    BY <2>2, <2>4 DEF DensePositions
  <2>6. /\ left[t] = NoRow /\ NoRow.col = None
        /\ \A u \in Tasks \ {t} : left[u] = task[u]
    BY <2>2, <2>3 DEF NoRow
  <2>7. /\ ForUpdate(q, {<<"Task", t>>})
        /\ work' = [work EXCEPT ![q] = [u \in DOMAIN work[q] \cup {t} |->
                                          IF u = t THEN NoRow ELSE work[q][u]]]
    BY <2>1 DEF WriteRow
  <2>8. /\ DOMAIN work' = Requests /\ DOMAIN work'[q] = {t} /\ work'[q][t] = NoRow
        /\ \A r \in Requests \ {q} : work'[r] = work[r]
    BY <2>2, <2>3, <2>7 DEF RequestsTyped, Empty
  <2>9. IsRows(work'[q])
    <3>1. work'[q] = [u \in {t} |-> NoRow]
      BY <2>2, <2>3, <2>7 DEF RequestsTyped, Empty
    <3>2. NoRow \in Row
      BY DEF NoRow, Row
    <3> QED
      BY <2>3, <3>1, <3>2 DEF IsRows
  <2>10. Seen(q)' = left
    BY <2>1, <2>2, <2>8 DEF Seen
  <2>11. pc'[q] = next /\ Write(q, rows, pc'[q])
    BY <2>1, <2>2 DEF Write, Goto, RequestsTyped
  <2>12. c # None
    BY <1>2
  <2>13. t \in DOMAIN work'[q] => task[t].col # None
    BY <1>2
  <2>14. op[q].kind # "create"
    BY <2>1
  <2>15. task[t].col = c
    OBVIOUS
  <2>16. orders = Normalized(left, c)
    OBVIOUS
  <2>17. \A d \in Columns, u \in Tasks : d # c => (task[u].col = d => left[u] = task[u])
    BY <2>6, <2>15
  <2>18. left = [u \in Tasks |-> left[u]]
    BY <2>2
  <2>19. /\ NoGap => next = "commit" /\ rows = Empty
         /\ ~NoGap => next = "shift" /\ rows = orders
         /\ NoGap <=> \A u \in DOMAIN orders : orders[u].pos = task[u].pos
    OBVIOUS
  <2> HIDE DEF t, c, left, orders, NoGap, next, rows, Refused
  <2>20. /\ DOMAIN orders = In(task, c) \ {t}
         /\ orders \in [In(task, c) \ {t} -> Row]
         /\ \A u \in DOMAIN orders : orders[u].col = c
         /\ Dense(Over(left, orders), c)
    BY <2>2, <2>3, <2>4, <2>5, <2>6, <2>15, <2>16, NormalizedIsDense
  <2>21. \A u \in DOMAIN orders : u \in Tasks /\ task[u].col = c /\ left[u] = task[u]
    BY <2>6, <2>20 DEF In
  <2>22. \A u \in DOMAIN orders : home[u] = op[q].proj
    BY <2>2, <2>4, <2>12, <2>21 DEF TableInv
  <2>23. ASSUME NEW d \in Columns, ProjectOf[d] = op[q].proj PROVE Dense(Over(left, rows), d)
    <3>1. CASE d = c
      <4>1. CASE ~NoGap
        BY <2>19, <2>20, <3>1, <4>1
      <4>2. CASE NoGap
        <5>1. \A u \in DOMAIN orders : orders[u] = task[u]
          BY <2>2, <2>19, <2>20, <2>21, <4>2 DEF Row
        <5>2. \A u \in Tasks : Over(left, orders)[u] = left[u] /\ Over(left, Empty)[u] = left[u]
          BY <2>21, <5>1 DEF Over, Empty
        <5>3. Dense(Over(left, Empty), c)
          BY <2>20, <5>2, DenseIsLocal
        <5> QED
          BY <2>19, <3>1, <4>2, <5>3
      <4> QED
        BY <4>1, <4>2
    <3>2. CASE d # c
      <4>1. d # None /\ Dense(task, d)
        BY <2>2, NoneAssumption DEF DensePositions
      <4>2. \A u \in DOMAIN rows : u \in DOMAIN orders /\ rows[u].col = c
        BY <2>19, <2>20 DEF Empty
      <4>3. \A u \in Tasks : task[u].col = d \/ Over(left, rows)[u].col = d
                               => task[u] = Over(left, rows)[u]
        <5> TAKE u \in Tasks
        <5>1. CASE u \in DOMAIN rows
          <6>1. task[u].col = c /\ Over(left, rows)[u].col = c
            BY <2>21, <4>2, <5>1 DEF Over
          <6> QED
            BY <3>2, <6>1
        <5>2. CASE u \notin DOMAIN rows
          <6>1. Over(left, rows)[u] = left[u]
            BY <5>2 DEF Over
          <6> QED
            BY <2>6, <2>15, <3>2, <4>1, <6>1
        <5> QED
          BY <5>1, <5>2
      <4> QED
        BY <4>1, <4>3, DenseIsLocal
    <3> QED
      BY <3>1, <3>2
  <2>24. \A d \in Columns : ProjectOf[d] = op[q].proj => Dense(Over(Seen(q)', rows), d)
    BY <2>10, <2>23
  <2>25. IsRows(rows)
    <3>1. IsRows(orders)
      BY <2>20, <2>21 DEF IsRows
    <3>2. IsRows(Empty)
      BY DEF IsRows, Empty
    <3> QED
      BY <2>19, <3>1, <3>2
  <2>26. \A u \in DOMAIN rows :
           /\ home[u] = op[q].proj
           /\ task[u].col # None
           /\ rows[u].col # None /\ ProjectOf[rows[u].col] = op[q].proj
    <3>1. \A u \in DOMAIN rows : u \in DOMAIN orders /\ rows[u].col = c
      BY <2>19, <2>20 DEF Empty
    <3> QED
      BY <2>4, <2>12, <2>21, <2>22, <3>1
  <2>27. \A u \in DOMAIN work'[q] :
           home[u] = op[q].proj /\ task[u].col # None /\ work'[q][u] = NoRow
    BY <2>3, <2>8, <2>13
  <2>28. /\ pc'[q] \in {"shift", "place", "commit"}
         /\ pc'[q] = "commit" => rows = Empty
    BY <2>11, <2>19
  <2>29. /\ pc[q] = "read" /\ UNCHANGED <<task, home, column, used, op, sharers>>
         /\ Write(q, rows, pc'[q]) /\ ForUpdate(q, {<<"Task", t>>})
    BY <2>1, <2>7, <2>11
  <2>30. DOMAIN work' = Requests /\ \A r \in Requests \ {q} : work'[r] = work[r]
    BY <2>8
  <2> QED
    BY <2>3, <2>9, <2>14, <2>24, <2>25, <2>26, <2>27, <2>28, <2>29, <2>30, PlanKeeps
<1> QED
  BY <1>1, <1>2

\* A pass over the rows of a plan writes one of them.
LEMMA WriteKeeps ==
  ASSUME IInv, NEW q \in Requests, pc[q] \in {"shift", "place"},
         NEW t \in todo[q], NEW row \in Row, WriteRow(q, t, row),
         UNCHANGED <<task, home, column, used, op, plan>>,
         sharers' \in [LockRows -> SUBSET Requests],
         row.col # None, ProjectOf[row.col] = op[q].proj,
         pc' = [pc EXCEPT ![q] = pc'[q]], pc'[q] \in {"shift", "place", "commit"},
         todo' = [todo EXCEPT ![q] = todo'[q]], todo'[q] \subseteq DOMAIN plan[q],
         pc[q] = "place" => pc'[q] # "shift",
         pc'[q] \in {"place", "commit"} =>
           \A u \in DOMAIN plan[q] \ todo'[q] :
             IF u = t THEN row = plan[q][u] ELSE u \in DOMAIN work[q] /\ work[q][u] = plan[q][u],
         pc'[q] = "commit" => todo'[q] = {}
  PROVE  IInv'
<1>1. RequestsTyped /\ RequestInv(q)
  BY DEF IInv, TypeOK, RequestsTyped
<1>2. /\ ForUpdate(q, {<<"Task", t>>})
      /\ work' = [work EXCEPT ![q] = [u \in DOMAIN work[q] \cup {t} |->
                                        IF u = t THEN row ELSE work[q][u]]]
  BY DEF WriteRow
<1>3. /\ LocksTypeOK(LockRows, Requests)'
      /\ \A r \in Requests \ {q} : \A x : x \in LockRows /\ holder[x] = r => holder'[x] = r
  BY <1>1, <1>2, ForUpdateKeeps DEF RequestsTyped
<1>4. /\ \A r \in Requests \ {q} : pc'[r] = pc[r] /\ work'[r] = work[r] /\ todo'[r] = todo[r]
  BY <1>1, <1>2 DEF RequestsTyped
<1>5. Apart(q)
  BY <1>3, <1>4 DEF Apart
<1>6. /\ DOMAIN work' = Requests
      /\ DOMAIN work'[q] = DOMAIN work[q] \cup {t}
      /\ work'[q][t] = row
      /\ \A u \in DOMAIN work[q] \ {t} : work'[q][u] = work[q][u]
  BY <1>1, <1>2 DEF RequestsTyped
<1>7. t \in DOMAIN plan[q] /\ t \in Tasks
  BY <1>1 DEF RequestsTyped, IsRows
<1>8. Locked(q) /\ Locked(q)'
  BY <1>1 DEF RequestInv, Shape, Locked
<1>9. RequestsTyped'
  <2>1. IsRows(work'[q])
    <3>1. work'[q] = [u \in DOMAIN work[q] \cup {t} |-> IF u = t THEN row ELSE work[q][u]]
      BY <1>1, <1>2 DEF RequestsTyped
    <3> QED
      BY <1>1, <1>7, <3>1 DEF RequestsTyped, IsRows
  <2>2. \A r \in Requests : IsRows(work'[r]) /\ IsRows(plan'[r]) /\ todo'[r] \subseteq DOMAIN plan'[r]
    BY <1>1, <1>4, <2>1 DEF RequestsTyped
  <2>3. pc' \in [Requests -> PCs]
    BY <1>1 DEF RequestsTyped, PCs
  <2>4. todo' \in [Requests -> SUBSET Tasks]
    BY <1>1 DEF RequestsTyped, IsRows
  <2> QED
    BY <1>1, <1>3, <1>6, <2>2, <2>3, <2>4 DEF RequestsTyped
<1>10. RequestInv(q)'
  <2>1. Shape(q)'
    BY <1>1, <1>8 DEF RequestInv, Shape, Locked
  <2>2. HasProject(q)'
    <3>1. <<"Project", op[q].proj>> \in LockRows /\ holder[<<"Project", op[q].proj>>] = q
      BY <1>1, <1>8 DEF RequestInv, Shape, HasProject, Locked, LockRows
    <3>2. holder'[<<"Project", op[q].proj>>] = q
      BY <1>1, <1>2, <3>1 DEF ForUpdate, RequestsTyped, LocksTypeOK
    <3> QED
      BY <3>2 DEF HasProject
  <2>3. OwnRows(q)'
    <3>1. \A u \in DOMAIN work'[q] \cup DOMAIN plan[q] :
            /\ home[u] = op[q].proj
            /\ task[u].col # None \/ (op[q].kind = "create" /\ u = op[q].task)
      BY <1>1, <1>6, <1>7 DEF RequestInv, OwnRows
    <3>2. \A u \in DOMAIN work'[q] :
            IF work'[q][u].col = None THEN work'[q][u] = NoRow
                                      ELSE ProjectOf[work'[q][u].col] = op[q].proj
      BY <1>1, <1>6 DEF RequestInv, OwnRows
    <3>3. \A u \in DOMAIN plan[q] : plan[q][u].col # None /\ ProjectOf[plan[q][u].col] = op[q].proj
      BY <1>1 DEF RequestInv, OwnRows
    <3> QED
      BY <1>8, <3>1, <3>2, <3>3 DEF OwnRows
  <2>4. Planned(q)'
    <3>1. Post(q)' = Post(q)
      <4>1. \A u \in Tasks : Post(q)'[u] = Post(q)[u]
        BY <1>6, <1>7 DEF Post, Over, Seen
      <4> QED
        BY <4>1 DEF Post, Over
    <3>2. \A c \in Columns : ProjectOf[c] = op[q].proj => Dense(Post(q), c)
      BY <1>1, <1>8 DEF RequestInv, Planned
    <3>3. pc'[q] \in {"place", "commit"} =>
            \A u \in DOMAIN plan[q] \ todo'[q] : u \in DOMAIN work'[q] /\ work'[q][u] = plan[q][u]
      BY <1>6
    <3> QED
      BY <3>1, <3>2, <3>3 DEF Planned
  <2> QED
    BY <2>1, <2>2, <2>3, <2>4 DEF RequestInv
<1> QED
  BY <1>5, <1>9, <1>10, QuietStep

\* In a dense Column no position is beyond the number of Tasks.
LEMMA PositionBound ==
  ASSUME IInv, NEW t \in Tasks, task[t].col # None
  PROVE  /\ Cardinality(Tasks) \in Nat
         /\ task[t].pos \in Nat /\ task[t].pos <= Cardinality(Tasks)
<1> DEFINE c == task[t].col
<1>1. c \in Columns /\ task[t].pos \in Nat /\ t \in In(task, c)
  BY DEF IInv, TypeOK, Row, In
<1>2. Dense(task, c)
  BY <1>1 DEF IInv, DensePositions
<1> HIDE DEF c
<1>3. task[t].pos \in 0 .. Cardinality(In(task, c)) - 1
  BY <1>1, <1>2, DenseIsInjective
<1>4. In(task, c) \in SUBSET Tasks
  BY DEF In
<1>5. /\ Cardinality(Tasks) \in Nat /\ Cardinality(In(task, c)) \in Nat
      /\ Cardinality(In(task, c)) <= Cardinality(Tasks)
  BY <1>4, TasksAssumption, FS_Subset, FS_CardinalityType
<1> QED
  BY <1>1, <1>3, <1>5

\* The shift pass writes rows whose final place is in the plan.
LEMMA ShiftInv ==
  ASSUME IInv, NEW q \in Requests, NEW t \in Tasks, Shift(q, t)
  PROVE  IInv'
<1>1. CASE Taken(q, t, Shifted(q, t))
  BY <1>1, RollbackInv DEF Shift
<1>2. CASE ~Taken(q, t, Shifted(q, t))
  <2>1. /\ pc[q] = "shift" /\ t \in todo[q] /\ WriteRow(q, t, Shifted(q, t))
        /\ UNCHANGED <<task, home, column, used, op, plan, sharers>>
        /\ \/ todo' = [todo EXCEPT ![q] = DOMAIN plan[q]] /\ Goto(q, "place")
           \/ todo' = [todo EXCEPT ![q] = @ \ {t}] /\ pc' = pc
    BY <1>2 DEF Shift
  <2>2. RequestsTyped /\ RequestInv(q) /\ task \in [Tasks -> Row] /\ TableInv
    BY DEF IInv, TypeOK, RequestsTyped
  <2>3. \A u \in DOMAIN plan[q] : u \in Tasks /\ task[u].col # None /\ home[u] = op[q].proj
    BY <2>1, <2>2 DEF RequestInv, Shape, OwnRows, RequestsTyped, IsRows
  <2>4. t \in DOMAIN plan[q]
    BY <2>1, <2>2 DEF RequestsTyped
  <2>5. Offset(q) \in Nat
    <3> DEFINE P == {task[u].pos : u \in DOMAIN plan[q]}
               n == Cardinality(Tasks)
    <3>1. n \in Nat /\ \A u \in DOMAIN plan[q] : task[u].pos \in Nat /\ task[u].pos <= n
      BY <2>3, <2>4, PositionBound
    <3>2. P \subseteq Nat /\ \A p \in P : p <= n
      BY <3>1
    <3>3. DOMAIN plan[q] \in SUBSET Tasks
      BY <2>3
    <3>4. Cardinality(DOMAIN plan[q]) \in Nat
      BY <3>3, TasksAssumption, FS_Subset, FS_CardinalityType
    <3>5. Offset(q) = NextPosition(P) + Cardinality(DOMAIN plan[q])
      BY DEF Offset
    <3> HIDE DEF P, n
    <3>6. NextPosition(P) \in Nat
      BY <3>1, <3>2, NextPositionAbove
    <3> QED
      BY <3>4, <3>5, <3>6
  <2>6. /\ Shifted(q, t) \in Row
        /\ Shifted(q, t).col = task[t].col
    BY <2>2, <2>5 DEF Shifted, Row
  <2>7. task[t].col # None /\ ProjectOf[task[t].col] = op[q].proj
    BY <2>2, <2>3, <2>4 DEF TableInv
  <2> HIDE DEF Shifted
  <2>8. CASE todo' = [todo EXCEPT ![q] = DOMAIN plan[q]] /\ Goto(q, "place")
    <3>1. todo'[q] = DOMAIN plan[q] /\ pc'[q] = "place" /\ pc' = [pc EXCEPT ![q] = "place"]
      BY <2>2, <2>8 DEF Goto, RequestsTyped
    <3>2. sharers' \in [LockRows -> SUBSET Requests]
      BY <2>1, <2>2 DEF RequestsTyped, LocksTypeOK
    <3> QED
      BY <2>1, <2>6, <2>7, <2>8, <3>1, <3>2, WriteKeeps
  <2>9. CASE todo' = [todo EXCEPT ![q] = @ \ {t}] /\ pc' = pc
    <3>1. /\ todo'[q] = todo[q] \ {t} /\ pc'[q] = "shift" /\ pc' = [pc EXCEPT ![q] = pc'[q]]
          /\ todo' = [todo EXCEPT ![q] = todo'[q]]
          /\ todo'[q] \subseteq DOMAIN plan[q]
      BY <2>1, <2>2, <2>9 DEF RequestsTyped
    <3>2. sharers' \in [LockRows -> SUBSET Requests]
      BY <2>1, <2>2 DEF RequestsTyped, LocksTypeOK
    <3> QED
      BY <2>1, <2>6, <2>7, <3>1, <3>2, WriteKeeps
  <2> QED
    BY <2>1, <2>8, <2>9
<1> QED
  BY <1>1, <1>2

\* The placement pass writes the plan itself.
LEMMA PlaceInv ==
  ASSUME IInv, NEW q \in Requests, NEW t \in Tasks, Place(q, t)
  PROVE  IInv'
<1> DEFINE Refused == Taken(q, t, plan[q][t]) \/ \E c \in References(q, t) : column[c] = None
<1>1. CASE Refused
  BY <1>1, RollbackInv DEF Place
<1>2. CASE ~Refused
  <2>1. /\ pc[q] = "place" /\ t \in todo[q] /\ WriteRow(q, t, plan[q][t])
        /\ KeyShare(q, {"Column"} \X References(q, t))
        /\ todo' = [todo EXCEPT ![q] = @ \ {t}]
        /\ IF todo[q] = {t} THEN Goto(q, "commit") ELSE pc' = pc
        /\ UNCHANGED <<task, home, column, used, op, plan>>
    BY <1>2 DEF Place, NextToPlace
  <2> HIDE DEF Refused
  <2>2. RequestsTyped /\ RequestInv(q)
    BY DEF IInv, TypeOK, RequestsTyped
  <2>3. t \in DOMAIN plan[q]
    BY <2>1, <2>2 DEF RequestsTyped
  <2>4. /\ plan[q][t] \in Row /\ plan[q][t].col # None
        /\ ProjectOf[plan[q][t].col] = op[q].proj
    BY <2>2, <2>3 DEF RequestsTyped, IsRows, RequestInv, OwnRows
  <2>5. sharers' \in [LockRows -> SUBSET Requests]
    BY <2>1, <2>2, KeyShareKeeps DEF RequestsTyped
  <2>6. /\ todo'[q] = todo[q] \ {t}
        /\ todo' = [todo EXCEPT ![q] = todo'[q]]
        /\ todo'[q] \subseteq DOMAIN plan[q]
    BY <2>1, <2>2 DEF RequestsTyped
  <2>7. /\ pc' = [pc EXCEPT ![q] = pc'[q]] /\ pc'[q] \in {"place", "commit"}
        /\ pc'[q] = "commit" => todo'[q] = {}
    BY <2>1, <2>2, <2>6 DEF Goto, RequestsTyped
  <2>8. \A u \in DOMAIN plan[q] \ todo'[q] :
          u # t => u \in DOMAIN work[q] /\ work[q][u] = plan[q][u]
    BY <2>1, <2>2, <2>6 DEF RequestInv, Planned
  <2> QED
    BY <2>1, <2>4, <2>5, <2>6, <2>7, <2>8, WriteKeeps
<1> QED
  BY <1>1, <1>2

\* A statement of a request on Columns that leaves the tables alone.
LEMMA ColumnStep ==
  ASSUME IInv, NEW q \in Requests, op[q].kind \notin TaskKinds,
         UNCHANGED <<task, home, column, used, work, plan, todo>>,
         op' \in [Requests -> Op], op'[q].kind = op[q].kind,
         \A r \in Requests \ {q} : op'[r] = op[r],
         NEW next \in {"insertColumn", "dropColumn", "commit"}, Goto(q, next),
         LocksTypeOK(LockRows, Requests)',
         \A r \in Requests \ {q} : \A x : x \in LockRows /\ holder[x] = r => holder'[x] = r
  PROVE  IInv'
<1>1. RequestsTyped /\ RequestInv(q)
  BY DEF IInv, TypeOK, RequestsTyped
<1>2. /\ pc' = [pc EXCEPT ![q] = next] /\ pc'[q] = next
      /\ work' = work /\ plan' = plan /\ todo' = todo
  BY <1>1 DEF Goto, RequestsTyped
<1>3. Apart(q)
  BY <1>1, <1>2 DEF Apart, RequestsTyped
<1>4. RequestsTyped'
  BY <1>1, <1>2 DEF RequestsTyped, PCs
<1>5. work[q] = Empty /\ plan[q] = Empty /\ todo[q] = {}
  <2>1. work[q] = Empty /\ plan[q] = Empty
    BY <1>1 DEF RequestInv, OwnRows, Locked
  <2> QED
    BY <1>1, <2>1 DEF RequestsTyped, Empty
<1>6. RequestInv(q)'
  <2>1. DOMAIN Empty = {}
    BY DEF Empty
  <2>2. op'[q].kind # "create"
    BY DEF TaskKinds
  <2> QED
    BY <1>2, <1>5, <2>1, <2>2 DEF RequestInv, Shape, HasProject, OwnRows, Planned, Locked
<1> QED
  BY <1>3, <1>4, <1>6, QuietStep

\* The position after the last Column is a natural number.
LEMMA LockBoardInv ==
  ASSUME IInv, NEW q \in Requests, LockBoard(q)
  PROVE  IInv'
<1> DEFINE P == PositionsOf(op[q].proj)
<1>1. RequestsTyped /\ RequestInv(q) /\ ColumnsBounded /\ column \in [Columns -> Nat \cup {None}]
  BY DEF IInv, TypeOK, RequestsTyped
<1>2. NextPosition(P) \in Nat
  <2>1. PICK n \in Nat : \A c \in Columns : column[c] # None => column[c] <= n
    BY <1>1 DEF ColumnsBounded
  <2>2. P \subseteq Nat /\ \A p \in P : p <= n
    BY <1>1, <2>1 DEF PositionsOf
  <2> HIDE DEF P
  <2> QED
    BY <2>1, <2>2, NextPositionAbove
<1> HIDE DEF P
<1>3. /\ pc[q] = "lockBoard" /\ Goto(q, "insertColumn")
      /\ ForUpdate(q, {<<"Board", op[q].proj>>}) /\ sharers' = sharers
      /\ op' = [op EXCEPT ![q].idx = NextPosition(P)]
      /\ UNCHANGED <<task, home, column, used, work, plan, todo>>
  BY DEF LockBoard, P
<1>4. /\ op' \in [Requests -> Op] /\ op'[q].kind = op[q].kind
      /\ \A r \in Requests \ {q} : op'[r] = op[r]
  BY <1>1, <1>2, <1>3 DEF RequestsTyped, Op
<1>5. op[q].kind \notin TaskKinds
  BY <1>1, <1>3 DEF RequestInv, Shape
<1>6. /\ LocksTypeOK(LockRows, Requests)'
      /\ \A r \in Requests \ {q} : \A x : x \in LockRows /\ holder[x] = r => holder'[x] = r
  BY <1>1, <1>3, ForUpdateKeeps DEF RequestsTyped, LocksTypeOK
<1> QED
  BY <1>3, <1>4, <1>5, <1>6, ColumnStep

\* Inserting a Column leaves the Tasks alone.
LEMMA InsertColumnInv ==
  ASSUME IInv, NEW q \in Requests, InsertColumn(q)
  PROVE  IInv'
<1>1. CASE op[q].idx \in PositionsOf(op[q].proj)
  BY <1>1, RollbackInv DEF InsertColumn
<1>2. CASE op[q].idx \notin PositionsOf(op[q].proj)
  <2>1. RequestsTyped /\ RequestInv(q)
    BY DEF IInv, TypeOK, RequestsTyped
  <2>2. /\ pc[q] = "insertColumn" /\ Goto(q, "commit")
        /\ KeyShare(q, {<<"Project", op[q].proj>>}) /\ holder' = holder
        /\ UNCHANGED <<task, home, column, used, op, work, plan, todo>>
    BY <1>2 DEF InsertColumn
  <2>3. op[q].kind \notin TaskKinds
    BY <2>1, <2>2 DEF RequestInv, Shape
  <2>4. LocksTypeOK(LockRows, Requests)'
    BY <2>1, <2>2, KeyShareKeeps DEF RequestsTyped, LocksTypeOK
  <2> QED
    BY <2>1, <2>2, <2>3, <2>4, ColumnStep DEF RequestsTyped
<1> QED
  BY <1>1, <1>2

\* So do renaming and removing one.
LEMMA LockColumnInv ==
  ASSUME IInv, NEW q \in Requests, LockColumn(q) \/ DropColumn(q)
  PROVE  IInv'
<1>1. CASE Rollback(q)
  BY <1>1, RollbackInv
<1>2. CASE ~Rollback(q)
  <2>1. RequestsTyped /\ RequestInv(q)
    BY DEF IInv, TypeOK, RequestsTyped
  <2>2. PICK next \in {"dropColumn", "commit"} :
          /\ pc[q] \in {"lockColumn", "dropColumn"} /\ Goto(q, next)
          /\ ForUpdate(q, {<<"Column", op[q].col>>}) /\ sharers' = sharers
          /\ UNCHANGED <<task, home, column, used, op, work, plan, todo>>
    BY <1>2 DEF LockColumn, DropColumn
  <2>3. op[q].kind \notin TaskKinds
    BY <2>1, <2>2 DEF RequestInv, Shape
  <2>4. /\ LocksTypeOK(LockRows, Requests)'
        /\ \A r \in Requests \ {q} : \A x : x \in LockRows /\ holder[x] = r => holder'[x] = r
    BY <2>1, <2>2, ForUpdateKeeps DEF RequestsTyped, LocksTypeOK
  <2> QED
    BY <2>1, <2>2, <2>3, <2>4, ColumnStep DEF RequestsTyped
<1> QED
  BY <1>1, <1>2

\* A commit makes its project's Columns what was planned and touches no other.
LEMMA CommitInv ==
  ASSUME IInv, NEW q \in Requests, Commit(q)
  PROVE  IInv'
<1>1. /\ RequestsTyped /\ RequestInv(q) /\ task \in [Tasks -> Row] /\ op[q] \in Op
      /\ column \in [Columns -> Nat \cup {None}]
      /\ TableInv /\ DensePositions /\ ColumnsBounded
  BY DEF IInv, TypeOK, RequestsTyped
<1>2. /\ pc[q] = "commit" /\ task' = Seen(q) /\ home' = home /\ used' = used /\ End(q)
      /\ column' = CASE op[q].kind = "addColumn" -> [column EXCEPT ![op[q].col] = op[q].idx]
                     [] op[q].kind = "removeColumn" -> [column EXCEPT ![op[q].col] = None]
                     [] OTHER -> column
  BY DEF Commit
<1>3. Apart(q) /\ RequestsTyped' /\ RequestInv(q)' /\ op'[q].kind \notin TaskKinds
  BY <1>2, EndKeeps
<1>4. None \notin Columns /\ None \notin Projects /\ None \notin Requests
  BY NoneAssumption
<1>5. column' \in [Columns -> Nat \cup {None}] /\ ColumnsBounded'
  <2>1. PICK n \in Nat : \A c \in Columns : column[c] # None => column[c] <= n
    BY <1>1 DEF ColumnsBounded
  <2>2. op[q].idx \in Nat
    BY <1>1 DEF Op
  <2>3. PICK m \in Nat : n <= m /\ op[q].idx <= m
    BY <2>2
  <2>4. CASE op[q].kind = "addColumn"
    <3>1. column' = [column EXCEPT ![op[q].col] = op[q].idx]
      BY <1>2, <2>4
    <3>2. \A c \in Columns : column'[c] # None => column'[c] <= m
      BY <1>1, <2>1, <2>2, <2>3, <3>1
    <3> QED
      BY <1>1, <2>2, <3>1, <3>2 DEF ColumnsBounded
  <2>5. CASE op[q].kind = "removeColumn"
    <3>1. column' = [column EXCEPT ![op[q].col] = None]
      BY <1>2, <2>5
    <3>2. \A c \in Columns : column'[c] # None => column'[c] <= n
      BY <1>1, <2>1, <3>1
    <3> QED
      BY <1>1, <3>1, <3>2 DEF ColumnsBounded
  <2>6. CASE op[q].kind \notin {"addColumn", "removeColumn"}
    <3>1. column' = column
      BY <1>2, <2>6
    <3> QED
      BY <1>1, <3>1 DEF ColumnsBounded
  <2> QED
    BY <2>4, <2>5, <2>6
<1>6. \A t \in Tasks : task'[t] = IF t \in DOMAIN work[q] THEN work[q][t] ELSE task[t]
  BY <1>2 DEF Seen
<1>7. task' \in [Tasks -> Row]
  <2>1. IsRows(work[q])
    BY <1>1 DEF RequestsTyped
  <2> QED
    BY <1>1, <1>2, <2>1 DEF Seen, IsRows
<1>8. TypeOK'
  BY <1>2, <1>3, <1>5, <1>7 DEF IInv, TypeOK, RequestsTyped
<1>9. TableInv'
  BY <1>1, <1>2, <1>6 DEF TableInv, RequestInv, OwnRows
<1>10. \A t \in DOMAIN work[q] : t \in Tasks /\ home[t] = op[q].proj
  BY <1>1 DEF RequestInv, OwnRows, RequestsTyped, IsRows
<1>11. \A p \in Projects : p # op[q].proj \/ work[q] = Empty => Undisturbed(p)
  <2> SUFFICES ASSUME NEW p \in Projects, p # op[q].proj \/ work[q] = Empty,
                      NEW t \in Tasks, NEW c \in Columns, ProjectOf[c] = p,
                      task[t].col = c \/ task'[t].col = c
               PROVE  task'[t] = task[t]
    BY DEF Undisturbed
  <2>1. CASE t \in DOMAIN work[q]
    <3>1. p # op[q].proj
      BY <2>1 DEF Empty
    <3>2. home[t] = op[q].proj
      BY <1>10, <2>1
    <3>3. task[t].col = c => home[t] = p
      BY <1>1, <1>4 DEF TableInv
    <3>4. task'[t].col = c => home[t] = p
      BY <1>2, <1>4, <1>9 DEF TableInv
    <3> QED
      BY <3>1, <3>2, <3>3, <3>4
  <2>2. CASE t \notin DOMAIN work[q]
    BY <1>6, <2>2
  <2> QED
    BY <2>1, <2>2
<1>12. DensePositions'
  <2> SUFFICES ASSUME NEW c \in Columns PROVE Dense(task', c)
    BY DEF DensePositions, Dense, In
  <2>1. Dense(task, c) /\ ProjectOf[c] \in Projects
    BY <1>1, ProjectOfAssumption DEF DensePositions
  <2>2. CASE ProjectOf[c] # op[q].proj \/ work[q] = Empty
    <3>1. \A t \in Tasks : task[t].col = c \/ task'[t].col = c => task[t] = task'[t]
      BY <1>11, <2>1, <2>2 DEF Undisturbed
    <3> QED
      BY <2>1, <3>1, DenseIsLocal
  <2>3. CASE ProjectOf[c] = op[q].proj /\ work[q] # Empty
    <3>1. Locked(q)
      BY <1>1, <2>3 DEF RequestInv, OwnRows
    <3>2. Dense(Post(q), c)
      BY <1>1, <1>2, <2>3, <3>1 DEF RequestInv, Planned
    <3>3. \A t \in DOMAIN plan[q] : t \in DOMAIN work[q] /\ work[q][t] = plan[q][t]
      BY <1>1, <1>2 DEF RequestInv, Planned
    <3>4. \A t \in Tasks : Post(q)[t] = task'[t]
      BY <1>6, <1>2, <3>3 DEF Post, Over
    <3> QED
      BY <3>2, <3>4, DenseIsLocal
  <2> QED
    BY <2>2, <2>3
<1>13. FreshIds'
  BY <1>3 DEF IInv, FreshIds, Apart, TaskKinds
<1>14. ASSUME NEW r \in Requests \ {q} PROVE RequestInv(r)'
  <2>1. RequestInv(r) /\ FreshIds
    BY DEF IInv
  <2>2. Locked(r) => Undisturbed(op[r].proj)
    <3> SUFFICES ASSUME Locked(r) PROVE Undisturbed(op[r].proj)
      OBVIOUS
    <3>1. op[r].proj \in Projects /\ holder[<<"Project", op[r].proj>>] = r
      BY <2>1 DEF RequestInv, Shape, HasProject, Locked
    <3>2. work[q] # Empty => holder[<<"Project", op[q].proj>>] = q
      BY <1>1 DEF RequestInv, HasProject, OwnRows
    <3> QED
      BY <1>11, <3>1, <3>2
  <2>3. op[r].kind = "create" => task'[op[r].task] = task[op[r].task]
    <3> SUFFICES ASSUME op[r].kind = "create" PROVE task'[op[r].task] = task[op[r].task]
      OBVIOUS
    <3>1. op[r].task \in Tasks /\ task[op[r].task].col = None
      BY <2>1 DEF RequestInv, Shape, TaskKinds
    <3>2. op[q].kind \in TaskKinds => op[q].task # op[r].task
      BY <2>1 DEF FreshIds
    <3>3. op[r].task \notin DOMAIN work[q]
      BY <1>1, <3>1, <3>2 DEF RequestInv, OwnRows, TaskKinds
    <3> QED
      BY <1>6, <3>1, <3>3
  <2> QED
    BY <1>2, <1>3, <2>2, <2>3, OthersKeep
<1> QED
  BY <1>3, <1>5, <1>8, <1>9, <1>12, <1>13, <1>14 DEF IInv

-----------------------------------------------------------------------------
(* The theorems.                                                           *)

\* The invariant is inductive.
LEMMA NextInv == IInv /\ [Next]_vars => IInv'
<1> SUFFICES ASSUME IInv, [Next]_vars PROVE IInv'
  OBVIOUS
<1>1. ASSUME NEW q \in Requests, StartCreate(q) PROVE IInv'
  BY <1>1, StartCreateInv
<1>2. ASSUME NEW q \in Requests, StartChange(q) PROVE IInv'
  BY <1>2, StartChangeInv
<1>3. ASSUME NEW q \in Requests, StartColumnChange(q) PROVE IInv'
  BY <1>3, StartColumnChangeInv
<1>4. ASSUME NEW q \in Requests, LockProject(q) PROVE IInv'
  BY <1>4, LockProjectInv
<1>5. ASSUME NEW q \in Requests, ReadForCreate(q) PROVE IInv'
  BY <1>5, ReadForCreateInv
<1>6. ASSUME NEW q \in Requests, ReadForReposition(q) PROVE IInv'
  BY <1>6, ReadForRepositionInv
<1>7. ASSUME NEW q \in Requests, ReadForRemove(q) PROVE IInv'
  BY <1>7, ReadForRemoveInv
<1>8. ASSUME NEW q \in Requests, NEW t \in Tasks, Shift(q, t) PROVE IInv'
  BY <1>8, ShiftInv
<1>9. ASSUME NEW q \in Requests, NEW t \in Tasks, Place(q, t) PROVE IInv'
  BY <1>9, PlaceInv
<1>10. ASSUME NEW q \in Requests, LockBoard(q) PROVE IInv'
  BY <1>10, LockBoardInv
<1>11. ASSUME NEW q \in Requests, InsertColumn(q) PROVE IInv'
  BY <1>11, InsertColumnInv
<1>12. ASSUME NEW q \in Requests, LockColumn(q) \/ DropColumn(q) PROVE IInv'
  BY <1>12, LockColumnInv
<1>13. ASSUME NEW q \in Requests, Commit(q) PROVE IInv'
  BY <1>13, CommitInv
<1>14. ASSUME NEW q \in Requests, Fail(q) PROVE IInv'
  BY <1>14, RollbackInv DEF Fail
<1>15. CASE UNCHANGED vars
  <2>1. /\ task' = task /\ home' = home /\ column' = column /\ used' = used /\ pc' = pc
        /\ op' = op /\ work' = work /\ plan' = plan /\ todo' = todo /\ holder' = holder
        /\ sharers' = sharers
    BY <1>15 DEF vars
  <2>2. TypeOK'
    BY <2>1 DEF IInv, TypeOK, LocksTypeOK
  <2>3. DensePositions' /\ TableInv' /\ ColumnsBounded' /\ FreshIds'
    <3>1. DensePositions'
      BY <2>1 DEF IInv, DensePositions, Dense, In
    <3>2. TableInv' /\ ColumnsBounded' /\ FreshIds'
      BY <2>1 DEF IInv, TableInv, ColumnsBounded, FreshIds
    <3> QED
      BY <3>1, <3>2
  <2>4. ASSUME NEW r \in Requests PROVE RequestInv(r)'
    <3>1. RequestInv(r)
      BY DEF IInv
    <3>2. Post(r)' = Post(r)
      BY <2>1 DEF Post, Over, Seen
    <3> QED
      BY <2>1, <3>1, <3>2 DEF RequestInv, Shape, HasProject, OwnRows, Planned, Locked
  <2> QED
    BY <2>2, <2>3, <2>4 DEF IInv
<1> QED
  BY <1>1, <1>2, <1>3, <1>4, <1>5, <1>6, <1>7, <1>8, <1>9, <1>10, <1>11, <1>12, <1>13, <1>14,
     <1>15 DEF Next, Step, ReadOnly

\* Every reachable state of the boards satisfies the inductive invariant: whoever
\* is past LockProject has the project to itself, and its plan ends in dense Columns.
THEOREM Invariance == Spec => []IInv
<1>1. Init => IInv
  BY InitInv
<1>2. IInv /\ [Next]_vars => IInv'
  BY NextInv
<1> QED
  BY <1>1, <1>2, PTL DEF Spec

\* Rows, requests and locks always have their types; in particular the offset
\* of persistOrders is a natural number, because positions are bounded.
THEOREM TypeCorrect == Spec => []TypeOK
<1>1. IInv => TypeOK
  BY DEF IInv
<1> QED
  BY <1>1, Invariance, PTL

\* However many requests create, update, move and remove Tasks at the same
\* time, and wherever they fail, every Column's Tasks are numbered 0 .. n-1.
THEOREM PositionsStayDense == Spec => []DensePositions
<1>1. IInv => DensePositions
  BY DEF IInv
<1> QED
  BY <1>1, Invariance, PTL

-----------------------------------------------------------------------------
(* The second invariant: Columns, and the locks that keep them.            *)

ColumnKinds == {"addColumn", "renameColumn", "removeColumn"}

ColumnShape(r) ==
  /\ op[r].kind \in ColumnKinds => op[r].col \in Columns /\ op[r].proj = ProjectOf[op[r].col]
  /\ pc[r] \in {"lockBoard", "insertColumn"} => op[r].kind = "addColumn"
  /\ pc[r] = "lockColumn" => op[r].kind \in {"renameColumn", "removeColumn"}
  /\ pc[r] = "dropColumn" => op[r].kind = "removeColumn"

\* r has read the highest position and not yet committed its Column.
Appends(r) == pc[r] = "insertColumn" \/ InsertedBy(r)

\* It has the Board, so the position it took is still beyond all others.
HasBoard(r) ==
  Appends(r) =>
    /\ holder[<<"Board", op[r].proj>>] = r
    /\ \A d \in Columns : ProjectOf[d] = op[r].proj /\ column[d] # None => column[d] < op[r].idx

\* r has deleted its Column and not yet committed that.
DeletedBy(r) == pc[r] = "commit" /\ op[r].kind = "removeColumn"

\* It has the Column FOR UPDATE, so nobody puts a Task there any more.
HasColumn(r) ==
  /\ pc[r] = "dropColumn" \/ DeletedBy(r) => holder[<<"Column", op[r].col>>] = r
  /\ DeletedBy(r) => In(task, op[r].col) = {}

\* A row written with another Column than before: the foreign key check found
\* that Column and shares it until r ends, so nobody deletes it.
SharesColumns(r) ==
  \A t \in DOMAIN work[r] :
    work[r][t].col \notin {None, task[t].col} =>
      /\ r \in sharers[<<"Column", work[r][t].col>>]
      /\ column[work[r][t].col] # None

ColumnInv(r) == ColumnShape(r) /\ HasBoard(r) /\ HasColumn(r) /\ SharesColumns(r)

TasksOnColumns == \A t \in Tasks : task[t].col # None => column[task[t].col] # None

CInv ==
  /\ LockExclusion
  /\ TasksOnColumns
  /\ \A r \in Requests : ColumnInv(r)

-----------------------------------------------------------------------------
(* What any step of a request does to the others and to the locks.         *)

StepOf(q) ==
  \/ StartCreate(q)
  \/ StartChange(q)
  \/ StartColumnChange(q)
  \/ Step(q)
  \/ Fail(q)

\* A step takes locks, none perhaps, or gives all of its request's back.
LockStep(q) == ReleaseLocks(q) \/ \E X, Y : ForUpdate(q, X) /\ KeyShare(q, Y)

\* Locks left alone are no locks taken.
LEMMA NothingLocked ==
  ASSUME NEW q \in Requests, LocksTypeOK(LockRows, Requests)
  PROVE  /\ holder' = holder => ForUpdate(q, {})
         /\ sharers' = sharers => KeyShare(q, {})
BY DEF ForUpdate, KeyShare, LocksTypeOK

\* A request changes its own program counter, parameters and rows only.
LEMMA StepApart ==
  ASSUME IInv, NEW q \in Requests, StepOf(q)
  PROVE  /\ \A r \in Requests \ {q} :
              /\ pc'[r] = pc[r] /\ op'[r] = op[r]
              /\ work'[r] = work[r] /\ plan'[r] = plan[r] /\ todo'[r] = todo[r]
         /\ LockStep(q)
<1> DEFINE Others == \A r \in Requests \ {q} :
                       /\ pc'[r] = pc[r] /\ op'[r] = op[r]
                       /\ work'[r] = work[r] /\ plan'[r] = plan[r] /\ todo'[r] = todo[r]
<1>1. RequestsTyped
  BY DEF IInv, TypeOK, RequestsTyped
<1>2. /\ holder' = holder => ForUpdate(q, {})
      /\ sharers' = sharers => KeyShare(q, {})
  BY <1>1, NothingLocked DEF RequestsTyped
<1>3. ASSUME End(q) PROVE Others /\ LockStep(q)
  BY <1>1, <1>3 DEF End, Goto, LockStep, RequestsTyped
<1>4. ASSUME NEW first, NEW request, Start(q, first, request) PROVE Others /\ LockStep(q)
  BY <1>1, <1>2, <1>4 DEF Start, Goto, LockStep, RequestsTyped
<1>5. CASE StartCreate(q) \/ StartChange(q) \/ StartColumnChange(q)
  BY <1>4, <1>5 DEF StartCreate, StartChange, StartColumnChange
<1>6. CASE Fail(q) \/ Commit(q)
  BY <1>3, <1>6 DEF Fail, Rollback, Commit
<1>7. CASE LockProject(q)
  BY <1>1, <1>2, <1>7 DEF LockProject, Goto, LockStep, RequestsTyped
<1>8. CASE ReadForCreate(q)
  BY <1>1, <1>2, <1>3, <1>8 DEF ReadForCreate, Write, Goto, LockStep, RequestsTyped, Rollback
<1>9. CASE ReadForReposition(q)
  <2>1. CASE Rollback(q)
    BY <1>3, <2>1 DEF Rollback
  <2>2. CASE ~Rollback(q)
    <3>1. PICK rows : /\ ForUpdate(q, {<<"Task", op[q].task>>}) /\ Write(q, rows, "shift")
                      /\ UNCHANGED <<op, work, sharers>>
      BY <1>9, <2>2 DEF ReadForReposition
    <3> QED
      BY <1>1, <1>2, <3>1 DEF Write, Goto, LockStep, RequestsTyped
  <2> QED
    BY <2>1, <2>2
<1>10. CASE ReadForRemove(q)
  <2>1. CASE Rollback(q)
    BY <1>3, <2>1 DEF Rollback
  <2>2. CASE ~Rollback(q)
    <3>1. PICK rows, next : /\ WriteRow(q, op[q].task, NoRow) /\ Write(q, rows, next)
                            /\ UNCHANGED <<op, sharers>>
      BY <1>10, <2>2 DEF ReadForRemove
    <3> QED
      BY <1>1, <1>2, <3>1 DEF Write, WriteRow, Goto, LockStep, RequestsTyped
  <2> QED
    BY <2>1, <2>2
<1>11. ASSUME NEW t \in Tasks, Shift(q, t) PROVE Others /\ LockStep(q)
  <2>1. CASE Rollback(q)
    BY <1>3, <2>1 DEF Rollback
  <2>2. CASE ~Rollback(q)
    <3>1. PICK row, left, next :
            /\ WriteRow(q, t, row) /\ todo' = [todo EXCEPT ![q] = left]
            /\ (Goto(q, next) \/ pc' = pc) /\ UNCHANGED <<op, plan, sharers>>
      BY <1>11, <2>2 DEF Shift
    <3> QED
      BY <1>1, <1>2, <3>1 DEF WriteRow, Goto, LockStep, RequestsTyped
  <2> QED
    BY <2>1, <2>2
<1>12. ASSUME NEW t \in Tasks, Place(q, t) PROVE Others /\ LockStep(q)
  <2>1. CASE Rollback(q)
    BY <1>3, <2>1 DEF Rollback
  <2>2. CASE ~Rollback(q)
    <3>1. PICK row, left, next, X :
            /\ WriteRow(q, t, row) /\ KeyShare(q, X) /\ todo' = [todo EXCEPT ![q] = left]
            /\ (Goto(q, next) \/ pc' = pc) /\ UNCHANGED <<op, plan>>
      BY <1>12, <2>2 DEF Place
    <3> QED
      BY <1>1, <1>2, <3>1 DEF WriteRow, Goto, LockStep, RequestsTyped
  <2> QED
    BY <2>1, <2>2
<1>13. CASE LockBoard(q)
  BY <1>1, <1>2, <1>13 DEF LockBoard, Goto, LockStep, RequestsTyped
<1>14. CASE InsertColumn(q)
  BY <1>1, <1>2, <1>3, <1>14 DEF InsertColumn, Goto, LockStep, RequestsTyped, Rollback
<1>15. CASE LockColumn(q) \/ DropColumn(q)
  BY <1>1, <1>2, <1>3, <1>15 DEF LockColumn, DropColumn, Goto, LockStep, RequestsTyped, Rollback
<1> QED
  BY <1>5, <1>6, <1>7, <1>8, <1>9, <1>10, <1>11, <1>12, <1>13, <1>14, <1>15 DEF StepOf, Step

\* Locks do not pass from one request to another, and stay exclusive.
LEMMA LockStepKeeps ==
  ASSUME LocksTypeOK(LockRows, Requests), NEW q \in Requests, LockStep(q)
  PROVE  /\ \A r \in Requests \ {q}, x \in LockRows :
              /\ holder[x] = r => holder'[x] = r
              /\ r \in sharers[x] => r \in sharers'[x]
         /\ LockExclusion => LockExclusion'
<1>1. None \notin Requests
  BY NoneAssumption
<1>2. CASE ReleaseLocks(q)
  <2>1. /\ holder' = [x \in LockRows |-> IF holder[x] = q THEN None ELSE holder[x]]
        /\ sharers' = [x \in LockRows |-> sharers[x] \ {q}]
        /\ DOMAIN holder = LockRows
    BY <1>2 DEF ReleaseLocks, LocksTypeOK
  <2> QED
    BY <1>1, <2>1 DEF LockExclusion
<1>3. ASSUME NEW X, NEW Y, ForUpdate(q, X), KeyShare(q, Y)
      PROVE  /\ \A r \in Requests \ {q}, x \in LockRows :
                  /\ holder[x] = r => holder'[x] = r
                  /\ r \in sharers[x] => r \in sharers'[x]
             /\ LockExclusion => LockExclusion'
  <2>1. /\ DOMAIN holder = LockRows
        /\ holder' = [x \in LockRows |-> IF x \in X THEN q ELSE holder[x]]
        /\ sharers' = [x \in LockRows |-> IF x \in Y THEN sharers[x] \cup {q} ELSE sharers[x]]
        /\ \A x \in X : holder[x] \in {None, q} /\ sharers[x] \subseteq {q}
        /\ \A x \in Y : holder[x] \in {None, q}
    BY <1>3 DEF ForUpdate, KeyShare, CanForUpdate, CanKeyShare, LocksTypeOK
  <2>2. ASSUME LockExclusion, NEW x \in LockRows, holder'[x] # None
        PROVE  sharers'[x] \subseteq {holder'[x]}
    <3>1. CASE x \in X
      BY <2>1, <2>2, <3>1
    <3>2. CASE x \notin X
      <4>1. holder'[x] = holder[x] /\ sharers[x] \subseteq {holder[x]}
        BY <2>1, <2>2, <3>2 DEF LockExclusion
      <4> QED
        BY <2>1, <2>2, <4>1
    <3> QED
      BY <3>1, <3>2
  <2>3. \A r \in Requests \ {q}, x \in LockRows :
          /\ holder[x] = r => holder'[x] = r
          /\ r \in sharers[x] => r \in sharers'[x]
    BY <1>1, <2>1
  <2> QED
    BY <2>1, <2>2, <2>3 DEF LockExclusion
<1> QED
  BY <1>2, <1>3 DEF LockStep

\* Only a commit changes the tables.
LEMMA TablesChange ==
  ASSUME NEW q \in Requests, StepOf(q), ~Commit(q)
  PROVE  task' = task /\ column' = column
<1>1. ASSUME Rollback(q) PROVE task' = task /\ column' = column
  BY <1>1 DEF Rollback
<1>2. CASE StartCreate(q) \/ StartChange(q) \/ StartColumnChange(q)
  BY <1>2 DEF StartCreate, StartChange, StartColumnChange, Start
<1>3. CASE Fail(q)
  BY <1>1, <1>3 DEF Fail
<1>4. CASE LockProject(q) \/ LockBoard(q)
  BY <1>4 DEF LockProject, LockBoard
<1>5. CASE ReadForCreate(q) \/ InsertColumn(q) \/ LockColumn(q) \/ DropColumn(q)
  BY <1>1, <1>5 DEF ReadForCreate, InsertColumn, LockColumn, DropColumn
<1>6. CASE ReadForReposition(q)
  BY <1>1, <1>6 DEF ReadForReposition
<1>7. CASE ReadForRemove(q)
  BY <1>1, <1>7 DEF ReadForRemove
<1>8. CASE \E t \in Tasks : Shift(q, t)
  BY <1>1, <1>8 DEF Shift
<1>9. CASE \E t \in Tasks : Place(q, t)
  BY <1>1, <1>9 DEF Place
<1> QED
  BY <1>2, <1>3, <1>4, <1>5, <1>6, <1>7, <1>8, <1>9 DEF StepOf, Step

\* What a step does to the Columns: it adds or removes the one it is about.
LEMMA ColumnsChange ==
  ASSUME IInv, NEW q \in Requests, Commit(q)
  PROVE  /\ InsertedBy(q) => column' = [column EXCEPT ![op[q].col] = op[q].idx]
         /\ DeletedBy(q) => column' = [column EXCEPT ![op[q].col] = None]
         /\ ~InsertedBy(q) /\ ~DeletedBy(q) => column' = column
         /\ \A t \in Tasks : task'[t] = IF t \in DOMAIN work[q] THEN work[q][t] ELSE task[t]
<1>1. column' = CASE op[q].kind = "addColumn" -> [column EXCEPT ![op[q].col] = op[q].idx]
                  [] op[q].kind = "removeColumn" -> [column EXCEPT ![op[q].col] = None]
                  [] OTHER -> column
  BY DEF Commit
<1>2. op[q].kind = "addColumn" => column' = [column EXCEPT ![op[q].col] = op[q].idx]
  BY <1>1
<1>3. op[q].kind = "removeColumn" => column' = [column EXCEPT ![op[q].col] = None]
  BY <1>1
<1>4. op[q].kind \notin {"addColumn", "removeColumn"} => column' = column
  BY <1>1
<1> QED
  BY <1>2, <1>3, <1>4 DEF Commit, InsertedBy, DeletedBy, Seen

\* Two requests that are past LockProject are about different projects.
LEMMA ProjectsApart ==
  ASSUME IInv, NEW q \in Requests, NEW r \in Requests, q # r, Locked(q), Locked(r)
  PROVE  op[q].proj # op[r].proj
BY DEF IInv, RequestInv, HasProject

\* Whoever is past LockProject has its project's Tasks to itself.
LEMMA StepUndisturbs ==
  ASSUME IInv, IInv', NEW q \in Requests, StepOf(q), NEW r \in Requests \ {q}, Locked(r)
  PROVE  Undisturbed(op[r].proj)
<1>1. CASE ~Commit(q)
  BY <1>1, TablesChange DEF Undisturbed
<1>2. CASE Commit(q)
  <2> SUFFICES ASSUME NEW t \in Tasks, NEW c \in Columns, ProjectOf[c] = op[r].proj,
                      task[t].col = c \/ task'[t].col = c
               PROVE  task'[t] = task[t]
    BY DEF Undisturbed
  <2>1. task'[t] = IF t \in DOMAIN work[q] THEN work[q][t] ELSE task[t]
    BY <1>2, ColumnsChange
  <2>2. RequestInv(q) /\ TableInv /\ TableInv' /\ home' = home
    BY <1>2 DEF IInv, Commit
  <2>3. CASE t \in DOMAIN work[q]
    <3>1. home[t] = op[q].proj /\ Locked(q)
      BY <2>2, <2>3 DEF RequestInv, OwnRows, Empty
    <3>2. home[t] = op[r].proj
      BY <2>2, NoneAssumption DEF TableInv
    <3> QED
      BY <3>1, <3>2, ProjectsApart
  <2> QED
    BY <2>1, <2>3
<1> QED
  BY <1>1, <1>2

\* The rows that a request has written, or plans to, are nobody else's to change.
LEMMA OwnRowsStay ==
  ASSUME IInv, IInv', NEW q \in Requests, StepOf(q), NEW r \in Requests \ {q},
         NEW t \in DOMAIN work[r] \cup DOMAIN plan[r]
  PROVE  Locked(r) /\ t \in Tasks /\ task'[t] = task[t]
<1>1. RequestInv(r) /\ RequestsTyped
  BY DEF IInv, TypeOK, RequestsTyped
<1>2. Locked(r) /\ t \in Tasks /\ home[t] = op[r].proj
  BY <1>1 DEF RequestInv, OwnRows, RequestsTyped, IsRows, Empty
<1>3. CASE ~Commit(q)
  BY <1>2, <1>3, TablesChange
<1>4. CASE Commit(q)
  <2>1. task'[t] = IF t \in DOMAIN work[q] THEN work[q][t] ELSE task[t]
    BY <1>2, <1>4, ColumnsChange
  <2>2. ASSUME t \in DOMAIN work[q] PROVE FALSE
    <3>1. home[t] = op[q].proj /\ Locked(q)
      BY <2>2 DEF IInv, RequestInv, OwnRows, Empty
    <3> QED
      BY <1>2, <3>1, ProjectsApart
  <2> QED
    BY <1>2, <2>1, <2>2
<1> QED
  BY <1>3, <1>4

-----------------------------------------------------------------------------
\* The others keep their Columns.
LEMMA OthersKeepColumns ==
  ASSUME IInv, IInv', CInv, NEW q \in Requests, StepOf(q), NEW r \in Requests \ {q}
  PROVE  ColumnInv(r)'
<1>1. /\ pc'[r] = pc[r] /\ op'[r] = op[r] /\ work'[r] = work[r]
      /\ LockStep(q)
  BY StepApart
<1>2. ColumnInv(r) /\ ColumnInv(q) /\ LockExclusion
  BY DEF CInv
<1>3. /\ RequestsTyped /\ RequestInv(q) /\ op[r] \in Op /\ op[q] \in Op
      /\ column \in [Columns -> Nat \cup {None}]
      /\ DOMAIN holder = LockRows
  BY DEF IInv, TypeOK, RequestsTyped, LocksTypeOK
<1>4. \A x \in LockRows :
        /\ holder[x] = r => holder'[x] = r
        /\ r \in sharers[x] => r \in sharers'[x]
  BY <1>1, <1>3, LockStepKeeps DEF RequestsTyped
<1>5. None \notin Columns /\ None \notin Nat /\ None \notin Requests
  BY NoneAssumption
<1>6. InsertedBy(r)' = InsertedBy(r) /\ DeletedBy(r)' = DeletedBy(r) /\ Appends(r)' = Appends(r)
  BY <1>1 DEF InsertedBy, DeletedBy, Appends
<1>7. ColumnShape(r)'
  BY <1>1, <1>2 DEF ColumnInv, ColumnShape
<1>8. HasBoard(r)'
  <2> SUFFICES ASSUME Appends(r)
               PROVE  /\ holder'[<<"Board", op[r].proj>>] = r
                      /\ \A d \in Columns : ProjectOf[d] = op[r].proj /\ column'[d] # None
                                              => column'[d] < op[r].idx
    BY <1>1, <1>6 DEF HasBoard
  <2>1. /\ holder[<<"Board", op[r].proj>>] = r
        /\ \A d \in Columns : ProjectOf[d] = op[r].proj /\ column[d] # None
                                => column[d] < op[r].idx
    BY <1>2 DEF ColumnInv, HasBoard
  <2>2. <<"Board", op[r].proj>> \in LockRows
    BY <1>2, ProjectOfAssumption
       DEF ColumnInv, ColumnShape, Appends, InsertedBy, ColumnKinds, LockRows
  <2>3. ASSUME NEW d \in Columns, ProjectOf[d] = op[r].proj, column'[d] # None
        PROVE  column'[d] = column[d]
    <3>1. CASE ~Commit(q)
      BY <3>1, TablesChange
    <3>2. CASE Commit(q)
      <4>1. CASE InsertedBy(q)
        <5>1. op[q].col \in Columns /\ op[q].proj = ProjectOf[op[q].col]
          BY <1>2, <4>1 DEF ColumnInv, ColumnShape, InsertedBy, ColumnKinds
        <5>2. holder[<<"Board", op[q].proj>>] = q
          BY <1>2, <4>1 DEF ColumnInv, HasBoard, Appends
        <5>3. op[q].col # d
          BY <2>1, <2>3, <5>1, <5>2
        <5> QED
          BY <3>2, <4>1, <5>3, ColumnsChange, <1>3
      <4>2. CASE ~InsertedBy(q)
        BY <1>3, <2>3, <3>2, <4>2, ColumnsChange
      <4> QED
        BY <4>1, <4>2
    <3> QED
      BY <3>1, <3>2
  <2> QED
    BY <1>4, <2>1, <2>2, <2>3
<1>9. HasColumn(r)'
  <2>1. ASSUME pc[r] = "dropColumn" \/ DeletedBy(r)
        PROVE  holder'[<<"Column", op[r].col>>] = r
    <3>1. <<"Column", op[r].col>> \in LockRows
      BY <1>2, <2>1 DEF ColumnInv, ColumnShape, DeletedBy, ColumnKinds, LockRows
    <3> QED
      BY <1>2, <1>4, <2>1, <3>1 DEF ColumnInv, HasColumn
  <2>2. ASSUME DeletedBy(r), NEW t \in Tasks, task'[t].col = op[r].col
        PROVE  FALSE
    <3>1. op[r].col \in Columns
      BY <1>2, <2>2 DEF ColumnInv, ColumnShape, DeletedBy, ColumnKinds
    <3>2. holder[<<"Column", op[r].col>>] = r /\ task[t].col # op[r].col
      BY <1>2, <2>2 DEF ColumnInv, HasColumn, In
    <3>3. Commit(q) /\ t \in DOMAIN work[q] /\ work[q][t].col = op[r].col
      BY <2>2, <3>2, TablesChange, ColumnsChange
    <3>4. q \in sharers[<<"Column", op[r].col>>]
      BY <1>2, <1>5, <3>1, <3>2, <3>3 DEF ColumnInv, SharesColumns
    <3>5. <<"Column", op[r].col>> \in LockRows
      BY <3>1 DEF LockRows
    <3> QED
      BY <1>2, <1>3, <1>5, <3>2, <3>4, <3>5 DEF LockExclusion
  <2> QED
    BY <1>1, <1>6, <2>1, <2>2 DEF HasColumn, In
<1>10. SharesColumns(r)'
  <2> SUFFICES ASSUME NEW t \in DOMAIN work[r], work[r][t].col \notin {None, task'[t].col}
               PROVE  /\ r \in sharers'[<<"Column", work[r][t].col>>]
                      /\ column'[work[r][t].col] # None
    BY <1>1 DEF SharesColumns
  <2> DEFINE c == work[r][t].col
  <2>1. task'[t] = task[t]
    BY OwnRowsStay
  <2>2. r \in sharers[<<"Column", c>>] /\ column[c] # None
    BY <1>2, <2>1 DEF ColumnInv, SharesColumns
  <2>3. c \in Columns /\ <<"Column", c>> \in LockRows
    BY <1>3 DEF RequestsTyped, IsRows, Row, LockRows
  <2> HIDE DEF c
  <2>4. column'[c] # None
    <3>1. CASE ~Commit(q)
      BY <2>2, <3>1, TablesChange
    <3>2. CASE Commit(q)
      <4>1. CASE DeletedBy(q)
        <5>1. op[q].col # c
          BY <1>2, <1>3, <1>5, <2>2, <2>3, <4>1 DEF ColumnInv, HasColumn, LockExclusion
        <5> QED
          BY <1>3, <2>2, <2>3, <3>2, <4>1, <5>1, ColumnsChange
      <4>2. CASE ~DeletedBy(q)
        BY <1>3, <1>5, <2>2, <2>3, <3>2, <4>2, ColumnsChange DEF Op
      <4> QED
        BY <4>1, <4>2
    <3> QED
      BY <3>1, <3>2
  <2> QED
    BY <1>4, <2>2, <2>3, <2>4 DEF c
<1> QED
  BY <1>7, <1>8, <1>9, <1>10 DEF ColumnInv

\* No step leaves a Task on a Column that is not there.
LEMMA TasksKeepColumns ==
  ASSUME IInv, CInv, NEW q \in Requests, StepOf(q)
  PROVE  TasksOnColumns'
<1> SUFFICES ASSUME NEW t \in Tasks, task'[t].col # None PROVE column'[task'[t].col] # None
  BY DEF TasksOnColumns
<1>1. /\ RequestsTyped /\ RequestInv(q) /\ op[q] \in Op /\ task \in [Tasks -> Row]
      /\ column \in [Columns -> Nat \cup {None}]
  BY DEF IInv, TypeOK, RequestsTyped
<1>2. ColumnInv(q) /\ TasksOnColumns
  BY DEF CInv
<1>3. CASE ~Commit(q)
  BY <1>2, <1>3, TablesChange DEF TasksOnColumns
<1>4. CASE Commit(q) /\ DeletedBy(q)
  <2>1. work[q] = Empty
    BY <1>1, <1>4 DEF RequestInv, OwnRows, Locked, DeletedBy, TaskKinds
  <2>2. task'[t] = task[t]
    BY <1>4, <2>1, ColumnsChange DEF Empty
  <2>3. task[t].col # op[q].col
    BY <1>2, <1>4 DEF ColumnInv, HasColumn, In
  <2>4. task[t].col \in Columns /\ column[task[t].col] # None
    BY <1>1, <1>2, <2>2 DEF TasksOnColumns, Row
  <2> QED
    BY <1>1, <1>4, <2>2, <2>3, <2>4, ColumnsChange
<1>5. CASE Commit(q) /\ ~DeletedBy(q)
  <2>1. \A c \in Columns : column[c] # None => column'[c] # None
    BY <1>1, <1>5, ColumnsChange, NoneAssumption DEF Op
  <2>2. task'[t] = IF t \in DOMAIN work[q] THEN work[q][t] ELSE task[t]
    BY <1>5, ColumnsChange
  <2>3. task'[t].col \in Columns
    BY <1>1, <2>2 DEF RequestsTyped, IsRows, Row
  <2>4. column[task'[t].col] # None
    BY <1>2, <2>2 DEF ColumnInv, SharesColumns, TasksOnColumns
  <2> QED
    BY <2>1, <2>3, <2>4
<1> QED
  BY <1>3, <1>4, <1>5

\* A request on Tasks keeps its part if its rows do.
LEMMA TaskStepColumns ==
  ASSUME NEW q \in Requests, op'[q].kind \in TaskKinds,
         pc'[q] \in {"lockProject", "read", "shift", "place", "commit"}, SharesColumns(q)'
  PROVE  ColumnInv(q)'
BY DEF ColumnInv, ColumnShape, HasBoard, HasColumn, Appends, InsertedBy, DeletedBy, TaskKinds,
       ColumnKinds

\* A request that has written nothing keeps it.
LEMMA NoRowsColumns ==
  ASSUME NEW q \in Requests, work'[q] = Empty
  PROVE  SharesColumns(q)'
<1>1. DOMAIN Empty = {}
  BY DEF Empty
<1> QED
  BY <1>1 DEF SharesColumns

\* A request that ends has no Column left.
LEMMA EndColumns ==
  ASSUME IInv, NEW q \in Requests, End(q)
  PROVE  ColumnInv(q)'
<1>1. /\ pc'[q] = "idle" /\ op'[q] = NoOp /\ work'[q] = Empty
  BY DEF End, Goto, IInv, TypeOK
<1>2. NoOp.kind \notin ColumnKinds
  BY NoneAssumption DEF NoOp, ColumnKinds, Kinds
<1> QED
  BY <1>1, <1>2, NoRowsColumns
     DEF ColumnInv, ColumnShape, HasBoard, HasColumn, Appends, InsertedBy, DeletedBy, ColumnKinds

\* A request starts without a lock.
LEMMA StartColumns ==
  ASSUME IInv, NEW q \in Requests, StartCreate(q) \/ StartChange(q) \/ StartColumnChange(q)
  PROVE  ColumnInv(q)'
<1>1. RequestsTyped /\ RequestInv(q)
  BY DEF IInv, TypeOK, RequestsTyped
<1>2. ASSUME NEW first, NEW request, Start(q, first, request)
      PROVE  pc'[q] = first /\ op'[q] = request /\ work'[q] = Empty
  BY <1>1, <1>2 DEF Start, Goto, RequestsTyped, RequestInv, OwnRows, Locked
<1>3. CASE StartCreate(q)
  <2>1. PICK t \in Tasks, p \in Projects, c \in Columns :
          Start(q, "lockProject",
                [NoOp EXCEPT !.kind = "create", !.task = t, !.proj = p, !.col = c])
    BY <1>3 DEF StartCreate
  <2> DEFINE request == [NoOp EXCEPT !.kind = "create", !.task = t, !.proj = p, !.col = c]
  <2>2. request.kind = "create"
    BY DEF NoOp
  <2> HIDE DEF request
  <2>3. pc'[q] = "lockProject" /\ op'[q] = request /\ work'[q] = Empty
    BY <1>2, <2>1 DEF request
  <2> QED
    BY <2>2, <2>3, NoRowsColumns, TaskStepColumns DEF TaskKinds
<1>4. CASE StartChange(q)
  <2>1. PICK t \in Tasks, kind \in {"update", "move", "remove"} : \E c, i :
          Start(q, "lockProject",
                [kind |-> kind, task |-> t, proj |-> home[t], col |-> c, idx |-> i])
    BY <1>4 DEF StartChange
  <2>2. pc'[q] = "lockProject" /\ op'[q].kind = kind /\ work'[q] = Empty
    BY <1>2, <2>1
  <2> QED
    BY <2>2, NoRowsColumns, TaskStepColumns DEF TaskKinds
<1>5. CASE StartColumnChange(q)
  <2>1. PICK first \in {"lockBoard", "lockColumn"}, c \in Columns,
             kind \in {"addColumn", "renameColumn", "removeColumn"} :
          /\ Start(q, first, [NoOp EXCEPT !.kind = kind, !.proj = ProjectOf[c], !.col = c])
          /\ first = "lockBoard" => kind = "addColumn"
          /\ first = "lockColumn" => kind \in {"renameColumn", "removeColumn"}
    BY <1>5 DEF StartColumnChange
  <2> DEFINE request == [NoOp EXCEPT !.kind = kind, !.proj = ProjectOf[c], !.col = c]
  <2>2. request.kind = kind /\ request.proj = ProjectOf[c] /\ request.col = c
    BY DEF NoOp
  <2> HIDE DEF request
  <2>3. pc'[q] = first /\ op'[q] = request /\ work'[q] = Empty
    BY <1>2, <2>1 DEF request
  <2>4. SharesColumns(q)'
    BY <2>3, NoRowsColumns
  <2> QED
    BY <2>1, <2>2, <2>3, <2>4
       DEF ColumnInv, ColumnShape, HasBoard, HasColumn, Appends, InsertedBy, DeletedBy, ColumnKinds
<1> QED
  BY <1>3, <1>4, <1>5

\* The statements of a request on Tasks: a row on another Column comes with the
\* lock of the foreign key check on that Column, which is there.
LEMMA TaskColumns ==
  ASSUME IInv, CInv, NEW q \in Requests,
         \/ LockProject(q) \/ ReadForCreate(q) \/ ReadForReposition(q) \/ ReadForRemove(q)
         \/ \E t \in Tasks : Shift(q, t) \/ Place(q, t)
  PROVE  ColumnInv(q)'
<1>1. /\ RequestsTyped /\ RequestInv(q) /\ ColumnInv(q)
      /\ holder \in [LockRows -> Requests \cup {None}]
      /\ sharers \in [LockRows -> SUBSET Requests]
  BY DEF IInv, TypeOK, RequestsTyped, CInv, LocksTypeOK
<1>2. CASE Rollback(q)
  BY <1>2, EndColumns DEF Rollback
<1>3. ASSUME pc[q] \in {"lockProject", "read"} PROVE work[q] = Empty /\ op[q].kind \in TaskKinds
  BY <1>1, <1>3 DEF RequestInv, OwnRows, Locked, Shape
<1>4. CASE LockProject(q)
  <2>1. pc[q] = "lockProject" /\ pc'[q] = "read" /\ work' = work /\ op' = op
    BY <1>1, <1>4 DEF LockProject, Goto, RequestsTyped
  <2> QED
    BY <1>3, <2>1, NoRowsColumns, TaskStepColumns
<1>5. CASE ReadForCreate(q) /\ ~Rollback(q)
  <2>1. PICK rows :
          /\ pc[q] = "read" /\ op[q].kind = "create" /\ Write(q, rows, "place")
          /\ UNCHANGED <<op, work>>
    BY <1>5 DEF ReadForCreate
  <2>2. pc'[q] = "place"
    BY <1>1, <2>1 DEF Write, Goto, RequestsTyped
  <2> QED
    BY <1>3, <2>1, <2>2, NoRowsColumns, TaskStepColumns
<1>6. CASE ReadForReposition(q) /\ ~Rollback(q)
  <2>1. PICK rows :
          /\ pc[q] = "read" /\ Write(q, rows, "shift")
          /\ UNCHANGED <<op, work>>
    BY <1>6 DEF ReadForReposition
  <2>2. pc'[q] = "shift"
    BY <1>1, <2>1 DEF Write, Goto, RequestsTyped
  <2> QED
    BY <1>3, <2>1, <2>2, NoRowsColumns, TaskStepColumns
<1>7. CASE ReadForRemove(q) /\ ~Rollback(q)
  <2>1. /\ pc[q] = "read" /\ WriteRow(q, op[q].task, NoRow) /\ UNCHANGED op
        /\ \E rows : Write(q, rows, "commit") \/ Write(q, rows, "shift")
    BY <1>7 DEF ReadForRemove
  <2>2. pc'[q] \in {"commit", "shift"}
    BY <1>1, <2>1 DEF Write, Goto, RequestsTyped
  <2>3. \A u \in DOMAIN work'[q] : work'[q][u] = NoRow
    BY <1>1, <1>3, <2>1 DEF WriteRow, RequestsTyped, Empty
  <2>4. SharesColumns(q)'
    BY <2>3 DEF SharesColumns, NoRow
  <2> QED
    BY <1>3, <2>1, <2>2, <2>4, TaskStepColumns
<1>8. ASSUME NEW t \in Tasks, NEW row, WriteRow(q, t, row), pc[q] \in {"shift", "place"},
             UNCHANGED <<task, column, op>>, pc'[q] \in {"shift", "place", "commit"},
             \A x \in LockRows : sharers[x] \subseteq sharers'[x],
             row.col # Seen(q)[t].col =>
               q \in sharers'[<<"Column", row.col>>] /\ column[row.col] # None
      PROVE  ColumnInv(q)'
  <2>1. op[q].kind \in TaskKinds
    BY <1>1, <1>8 DEF RequestInv, Shape
  <2>2. /\ DOMAIN work'[q] = DOMAIN work[q] \cup {t} /\ work'[q][t] = row
        /\ \A u \in DOMAIN work[q] \ {t} : work'[q][u] = work[q][u]
    BY <1>1, <1>8 DEF WriteRow, RequestsTyped
  <2>3. \A u \in DOMAIN work[q] :
          work[q][u].col \notin {None, task[u].col} =>
            /\ q \in sharers'[<<"Column", work[q][u].col>>]
            /\ column[work[q][u].col] # None
    <3> SUFFICES ASSUME NEW u \in DOMAIN work[q], work[q][u].col \notin {None, task[u].col}
                 PROVE  /\ q \in sharers'[<<"Column", work[q][u].col>>]
                        /\ column[work[q][u].col] # None
      OBVIOUS
    <3>1. <<"Column", work[q][u].col>> \in LockRows
      BY <1>1 DEF RequestsTyped, IsRows, Row, LockRows
    <3> QED
      BY <1>1, <1>8, <3>1 DEF ColumnInv, SharesColumns
  <2>4. Seen(q)[t].col = IF t \in DOMAIN work[q] THEN work[q][t].col ELSE task[t].col
    BY DEF Seen
  <2>5. ASSUME row.col \notin {None, task[t].col}
        PROVE  q \in sharers'[<<"Column", row.col>>] /\ column[row.col] # None
    BY <1>8, <2>3, <2>4, <2>5
  <2>6. SharesColumns(q)'
    BY <1>8, <2>2, <2>3, <2>5 DEF SharesColumns
  <2> QED
    BY <1>8, <2>1, <2>6, TaskStepColumns
<1>9. ASSUME NEW t \in Tasks, Shift(q, t), ~Rollback(q) PROVE ColumnInv(q)'
  <2>1. /\ pc[q] = "shift" /\ t \in todo[q] /\ WriteRow(q, t, Shifted(q, t))
        /\ UNCHANGED <<task, column, op, sharers>> /\ (Goto(q, "place") \/ pc' = pc)
    BY <1>9 DEF Shift
  <2>2. pc'[q] \in {"shift", "place"}
    BY <1>1, <2>1 DEF Goto, RequestsTyped
  <2>3. task[t] \in Row
    BY DEF IInv, TypeOK
  <2>4. Shifted(q, t).col = task[t].col
    BY <2>3 DEF Shifted, Row
  <2>5. SharesColumns(q)'
    <3>1. /\ DOMAIN work'[q] = DOMAIN work[q] \cup {t} /\ work'[q][t] = Shifted(q, t)
          /\ \A u \in DOMAIN work[q] \ {t} : work'[q][u] = work[q][u]
      BY <1>1, <2>1 DEF WriteRow, RequestsTyped
    <3>2. SharesColumns(q)
      BY <1>1 DEF ColumnInv
    <3> HIDE DEF Shifted
    <3> QED
      BY <2>1, <2>4, <3>1, <3>2 DEF SharesColumns
  <2>6. op[q].kind \in TaskKinds
    BY <1>1, <2>1 DEF RequestInv, Shape
  <2> QED
    BY <2>1, <2>2, <2>5, <2>6, TaskStepColumns
<1>10. ASSUME NEW t \in Tasks, Place(q, t), ~Rollback(q) PROVE ColumnInv(q)'
  <2>1. /\ pc[q] = "place" /\ t \in todo[q] /\ WriteRow(q, t, plan[q][t])
        /\ KeyShare(q, {"Column"} \X References(q, t))
        /\ \A c \in References(q, t) : column[c] # None
        /\ UNCHANGED <<task, column, op>> /\ (Goto(q, "commit") \/ pc' = pc)
    BY <1>10 DEF Place, NextToPlace
  <2>2. pc'[q] \in {"place", "commit"}
    BY <1>1, <2>1 DEF Goto, RequestsTyped
  <2>3. plan[q][t].col \in Columns
    <3>1. t \in DOMAIN plan[q]
      BY <1>1, <2>1 DEF RequestsTyped
    <3> QED
      BY <1>1, <3>1 DEF RequestInv, OwnRows, RequestsTyped, IsRows, Row
  <2>4. sharers' = [x \in LockRows |-> IF x \in {"Column"} \X References(q, t)
                                       THEN sharers[x] \cup {q} ELSE sharers[x]]
    BY <1>1, <2>1 DEF KeyShare
  <2>5. ASSUME plan[q][t].col # Seen(q)[t].col
        PROVE  q \in sharers'[<<"Column", plan[q][t].col>>] /\ column[plan[q][t].col] # None
    <3>1. plan[q][t].col \in References(q, t)
      BY <2>5 DEF References
    <3>2. <<"Column", plan[q][t].col>> \in LockRows
      BY <2>3 DEF LockRows
    <3> QED
      BY <2>1, <2>4, <3>1, <3>2
  <2> QED
    BY <1>8, <2>1, <2>2, <2>4, <2>5
<1> QED
  BY <1>2, <1>4, <1>5, <1>6, <1>7, <1>9, <1>10

\* The statements of a request on Columns.  The position it read under the
\* Board's lock is above the others; the Column it deletes is locked and empty.
LEMMA ColumnColumns ==
  ASSUME IInv, CInv, NEW q \in Requests,
         LockBoard(q) \/ InsertColumn(q) \/ LockColumn(q) \/ DropColumn(q)
  PROVE  ColumnInv(q)'
<1>1. /\ RequestsTyped /\ RequestInv(q) /\ ColumnInv(q) /\ op[q] \in Op
      /\ column \in [Columns -> Nat \cup {None}] /\ ColumnsBounded
      /\ holder \in [LockRows -> Requests \cup {None}]
  BY DEF IInv, TypeOK, RequestsTyped, CInv, LocksTypeOK
<1>2. CASE Rollback(q)
  BY <1>2, EndColumns DEF Rollback
<1>3. ASSUME ~Rollback(q) PROVE SharesColumns(q)'
  <2>1. work[q] = Empty
    BY <1>1 DEF RequestInv, OwnRows, Locked, Shape, LockBoard, InsertColumn, LockColumn, DropColumn
  <2>2. work' = work
    BY <1>3 DEF LockBoard, InsertColumn, LockColumn, DropColumn
  <2> QED
    BY <2>1, <2>2, NoRowsColumns
<1>4. CASE LockBoard(q) /\ ~Rollback(q)
  <2> DEFINE P == PositionsOf(op[q].proj)
  <2>1. /\ pc[q] = "lockBoard" /\ pc'[q] = "insertColumn" /\ column' = column
        /\ ForUpdate(q, {<<"Board", op[q].proj>>})
        /\ op' = [op EXCEPT ![q].idx = NextPosition(P)]
    BY <1>1, <1>4 DEF LockBoard, Goto, RequestsTyped
  <2>2. op[q].kind = "addColumn" /\ op[q].col \in Columns /\ op[q].proj = ProjectOf[op[q].col]
    BY <1>1, <2>1 DEF ColumnInv, ColumnShape, ColumnKinds
  <2>3. \A d \in Columns : ProjectOf[d] = op[q].proj /\ column[d] # None => column[d] < NextPosition(P)
    <3>1. PICK n \in Nat : \A c \in Columns : column[c] # None => column[c] <= n
      BY <1>1 DEF ColumnsBounded
    <3>2. P \subseteq Nat /\ \A p \in P : p <= n
      BY <1>1, <3>1 DEF PositionsOf
    <3>3. \A p \in P : p < NextPosition(P)
      <4> HIDE DEF P
      <4> QED
        BY <3>1, <3>2, NextPositionAbove
    <3>4. \A d \in Columns : ProjectOf[d] = op[q].proj /\ column[d] # None => column[d] \in P
      BY DEF PositionsOf
    <3> QED
      BY <3>3, <3>4
  <2> HIDE DEF P
  <2>4. /\ op'[q].idx = NextPosition(P) /\ op'[q].kind = op[q].kind
        /\ op'[q].proj = op[q].proj /\ op'[q].col = op[q].col
    BY <1>1, <2>1 DEF RequestsTyped, Op
  <2>5. <<"Board", op[q].proj>> \in LockRows
    BY <2>2, ProjectOfAssumption DEF LockRows
  <2>6. holder'[<<"Board", op[q].proj>>] = q
    BY <1>1, <2>1, <2>5 DEF ForUpdate
  <2>7. HasBoard(q)'
    BY <2>1, <2>3, <2>4, <2>6 DEF HasBoard
  <2>8. ColumnShape(q)' /\ HasColumn(q)'
    BY <2>1, <2>2, <2>4 DEF ColumnShape, HasColumn, DeletedBy, ColumnKinds
  <2> QED
    BY <1>3, <1>4, <2>7, <2>8 DEF ColumnInv
<1>5. CASE InsertColumn(q) /\ ~Rollback(q)
  <2>1. /\ pc[q] = "insertColumn" /\ pc'[q] = "commit" /\ column' = column /\ op' = op
        /\ holder' = holder
    BY <1>1, <1>5 DEF InsertColumn, Goto, RequestsTyped
  <2>2. op[q].kind = "addColumn"
    BY <1>1, <2>1 DEF ColumnInv, ColumnShape
  <2>3. HasBoard(q)'
    BY <1>1, <2>1 DEF ColumnInv, HasBoard, Appends
  <2>4. ColumnShape(q)' /\ HasColumn(q)'
    BY <1>1, <2>1, <2>2 DEF ColumnInv, ColumnShape, HasColumn, DeletedBy
  <2> QED
    BY <1>3, <1>5, <2>3, <2>4 DEF ColumnInv
<1>6. CASE (LockColumn(q) \/ DropColumn(q)) /\ ~Rollback(q)
  <2>1. /\ op' = op /\ task' = task /\ ForUpdate(q, {<<"Column", op[q].col>>})
        /\ \/ pc[q] = "lockColumn" /\ op[q].kind = "removeColumn" /\ pc'[q] = "dropColumn"
           \/ pc[q] = "lockColumn" /\ op[q].kind # "removeColumn" /\ pc'[q] = "commit"
           \/ pc[q] = "dropColumn" /\ pc'[q] = "commit" /\ In(task, op[q].col) = {}
    BY <1>1, <1>6 DEF LockColumn, DropColumn, Goto, RequestsTyped
  <2>2. op[q].kind \in {"renameColumn", "removeColumn"} /\ op[q].col \in Columns
    BY <1>1, <2>1 DEF ColumnInv, ColumnShape, ColumnKinds
  <2>3. <<"Column", op[q].col>> \in LockRows
    BY <2>2 DEF LockRows
  <2>4. holder'[<<"Column", op[q].col>>] = q
    BY <1>1, <2>1, <2>3 DEF ForUpdate
  <2>5. In(task, op[q].col)' = In(task, op[q].col)
    BY <2>1 DEF In
  <2>6. HasColumn(q)'
    BY <2>1, <2>4, <2>5 DEF HasColumn, DeletedBy
  <2>7. ColumnShape(q)' /\ HasBoard(q)'
    BY <1>1, <2>1, <2>2 DEF ColumnInv, ColumnShape, HasBoard, Appends, InsertedBy, ColumnKinds
  <2> QED
    BY <1>3, <1>6, <2>6, <2>7 DEF ColumnInv
<1> QED
  BY <1>2, <1>4, <1>5, <1>6

-----------------------------------------------------------------------------
\* Boards without Tasks, and without requests, satisfy it.
LEMMA InitColumns == Init => CInv
<1> SUFFICES ASSUME Init PROVE CInv
  OBVIOUS
<1>1. LockExclusion /\ TasksOnColumns
  BY DEF Init, LocksInit, LockExclusion, TasksOnColumns, NoRow
<1>2. NoOp.kind \notin ColumnKinds /\ DOMAIN Empty = {}
  BY NoneAssumption DEF NoOp, ColumnKinds, Kinds, Empty
<1>3. ASSUME NEW r \in Requests PROVE ColumnInv(r)
  BY <1>2 DEF Init, ColumnInv, ColumnShape, HasBoard, HasColumn, Appends, InsertedBy, DeletedBy,
              ColumnKinds, SharesColumns
<1> QED
  BY <1>1, <1>3 DEF CInv

\* The invariant of the Columns is inductive.
LEMMA NextColumns == IInv /\ IInv' /\ CInv /\ [Next]_vars => CInv'
<1> SUFFICES ASSUME IInv, IInv', CInv, [Next]_vars PROVE CInv'
  OBVIOUS
<1>1. ASSUME NEW q \in Requests, StepOf(q) PROVE CInv'
  <2>1. LockExclusion'
    BY <1>1, StepApart, LockStepKeeps DEF IInv, TypeOK, CInv
  <2>2. TasksOnColumns'
    BY <1>1, TasksKeepColumns
  <2>3. ColumnInv(q)'
    <3>1. CASE StartCreate(q) \/ StartChange(q) \/ StartColumnChange(q)
      BY <3>1, StartColumns
    <3>2. CASE LockBoard(q) \/ InsertColumn(q) \/ LockColumn(q) \/ DropColumn(q)
      BY <3>2, ColumnColumns
    <3>3. CASE Fail(q) \/ Commit(q)
      BY <3>3, EndColumns DEF Fail, Rollback, Commit
    <3> QED
      BY <1>1, <3>1, <3>2, <3>3, TaskColumns DEF StepOf, Step
  <2>4. \A r \in Requests \ {q} : ColumnInv(r)'
    BY <1>1, OthersKeepColumns
  <2> QED
    BY <2>1, <2>2, <2>3, <2>4 DEF CInv
<1>2. CASE UNCHANGED vars
  BY <1>2 DEF vars, CInv, LockExclusion, TasksOnColumns, ColumnInv, ColumnShape, HasBoard, HasColumn,
              SharesColumns, Appends, InsertedBy, DeletedBy, In
<1> QED
  BY <1>1, <1>2 DEF Next, StepOf, ReadOnly

\* Every reachable state satisfies the invariant of the Columns and their locks:
\* whoever appends one has the Board and the highest position, whoever deletes
\* one has it empty and locked, and whoever moves a Task to one shares it.
THEOREM ColumnsInvariance == Spec => []CInv
<1>1. Init => CInv
  BY InitColumns
<1>2. IInv /\ IInv' /\ CInv /\ [Next]_vars => CInv'
  BY NextColumns
<1> QED
  BY <1>1, <1>2, Invariance, PTL DEF Spec

\* However Columns are removed while Tasks are created in them or moved to them,
\* and whatever Column a request names, a Task is on a Column that exists and
\* belongs to the Task's own project.
THEOREM TasksStayOnColumns == Spec => []TasksOnColumnsOfProject
<1>1. IInv /\ CInv => TasksOnColumnsOfProject
  BY DEF IInv, TableInv, CInv, TasksOnColumns, TasksOnColumnsOfProject
<1> QED
  BY <1>1, Invariance, ColumnsInvariance, PTL

\* A Column that is added comes after all those its project has when it appears,
\* however many are added and removed at the same time.
THEOREM NewColumnsAppend == Spec => ColumnsAppend
<1> DEFINE After == \A c, d \in Columns :
                      /\ column[c] = None /\ column'[c] # None
                      /\ column[d] # None /\ ProjectOf[d] = ProjectOf[c]
                      => column[d] < column'[c]
<1>1. ASSUME IInv, CInv, [Next]_vars PROVE [After]_vars
  <2>1. ASSUME NEW q \in Requests, StepOf(q) PROVE After
    <3> SUFFICES ASSUME NEW c \in Columns, NEW d \in Columns,
                        column[c] = None, column'[c] # None,
                        column[d] # None, ProjectOf[d] = ProjectOf[c]
                 PROVE  column[d] < column'[c]
      OBVIOUS
    <3>1. Commit(q) /\ ColumnInv(q) /\ column \in [Columns -> Nat \cup {None}]
      BY <1>1, <2>1, TablesChange DEF CInv, IInv, TypeOK
    <3>2. InsertedBy(q) /\ op[q].col = c /\ column'[c] = op[q].idx
      BY <1>1, <3>1, ColumnsChange
    <3>3. op[q].proj = ProjectOf[c]
      BY <3>1, <3>2 DEF ColumnInv, ColumnShape, InsertedBy, ColumnKinds
    <3> QED
      BY <3>1, <3>2, <3>3 DEF ColumnInv, HasBoard, Appends
  <2> QED
    BY <1>1, <2>1 DEF Next, StepOf, ReadOnly
<1>2. IInv /\ CInv /\ [Next]_vars => [After]_vars
  BY <1>1
<1> QED
  BY <1>2, Invariance, ColumnsInvariance, PTL DEF Spec, ColumnsAppend

-----------------------------------------------------------------------------
(* The third invariant: the two passes of persistOrders.                   *)

\* The shift pass has shifted what has left todo, and not touched the rest.
Shifting(r) ==
  pc[r] = "shift" =>
    \A t \in DOMAIN plan[r] :
      IF t \in todo[r] THEN t \notin DOMAIN work[r]
                       ELSE t \in DOMAIN work[r] /\ work[r][t] = Shifted(r, t)

\* The placement pass finds the rows it has left where the shift put them.
Placing(r) ==
  pc[r] = "place" =>
    IF op[r].kind = "create"
    THEN DOMAIN plan[r] = {op[r].task}
    ELSE \A t \in todo[r] : t \in DOMAIN work[r] /\ work[r][t] = Shifted(r, t)

\* The plan has every Task of the Columns that its rows leave or go to.
Covering(r) ==
  pc[r] \in {"shift", "place"} /\ op[r].kind # "create" =>
    \A t \in DOMAIN plan[r], u \in Tasks \ DOMAIN plan[r] :
      Seen(r)[u].col \notin {task[t].col, plan[r][t].col}

PassInv(r) == Shifting(r) /\ Placing(r) /\ Covering(r)

PInv == \A r \in Requests : PassInv(r)

\* The offset is beyond the positions that the shifted Tasks have, and beyond
\* those they are going to get.
LEMMA OffsetAbove ==
  ASSUME IInv, NEW r \in Requests, pc[r] \in {"shift", "place"}, op[r].kind # "create"
  PROVE  /\ Offset(r) \in Nat
         /\ IsFiniteSet(DOMAIN plan[r]) /\ Cardinality(DOMAIN plan[r]) \in Nat
         /\ Cardinality(DOMAIN plan[r]) <= Offset(r)
         /\ \A u \in DOMAIN plan[r] : task[u].pos \in Nat /\ task[u].pos < Offset(r)
<1> DEFINE P == {task[u].pos : u \in DOMAIN plan[r]}
           n == Cardinality(Tasks)
<1>1. RequestsTyped /\ RequestInv(r)
  BY DEF IInv, TypeOK, RequestsTyped
<1>2. \A u \in DOMAIN plan[r] : u \in Tasks /\ task[u].col # None
  BY <1>1 DEF RequestInv, OwnRows, RequestsTyped, IsRows
<1>3. n \in Nat
  BY TasksAssumption, FS_CardinalityType
<1>4. \A u \in DOMAIN plan[r] : task[u].pos \in Nat /\ task[u].pos <= n
  BY <1>2, PositionBound
<1>5. P \subseteq Nat /\ \A p \in P : p <= n
  BY <1>4
<1>6. DOMAIN plan[r] \in SUBSET Tasks
  BY <1>2
<1>7. IsFiniteSet(DOMAIN plan[r]) /\ Cardinality(DOMAIN plan[r]) \in Nat
  BY <1>6, TasksAssumption, FS_Subset, FS_CardinalityType
<1>8. Offset(r) = NextPosition(P) + Cardinality(DOMAIN plan[r])
  BY DEF Offset
<1>9. \A u \in DOMAIN plan[r] : task[u].pos \in P
  OBVIOUS
<1> HIDE DEF P, n
<1>10. NextPosition(P) \in Nat /\ \A p \in P : p < NextPosition(P)
  BY <1>3, <1>5, NextPositionAbove
<1> QED
  BY <1>4, <1>7, <1>8, <1>9, <1>10

\* What a row is shifted to depends on the plan and on its rows only.
LEMMA ShiftedStays ==
  ASSUME NEW r \in Requests, plan'[r] = plan[r], \A u \in DOMAIN plan[r] : task'[u] = task[u]
  PROVE  \A t \in DOMAIN plan[r] : Shifted(r, t)' = Shifted(r, t)
<1>1. {task'[u].pos : u \in DOMAIN plan'[r]} = {task[u].pos : u \in DOMAIN plan[r]}
  OBVIOUS
<1>2. Offset(r)' = Offset(r)
  BY <1>1 DEF Offset
<1> QED
  BY <1>2 DEF Shifted

\* The others keep their passes.
LEMMA OthersKeepPasses ==
  ASSUME IInv, IInv', PInv, NEW q \in Requests, StepOf(q), NEW r \in Requests \ {q}
  PROVE  PassInv(r)'
<1>1. /\ pc'[r] = pc[r] /\ op'[r] = op[r]
      /\ work'[r] = work[r] /\ plan'[r] = plan[r] /\ todo'[r] = todo[r]
  BY StepApart
<1>2. PassInv(r) /\ RequestsTyped /\ RequestInv(r)
  BY DEF PInv, IInv, TypeOK, RequestsTyped
<1>3. \A t \in DOMAIN plan[r] : t \in Tasks /\ Locked(r) /\ task'[t] = task[t]
  BY OwnRowsStay
<1>4. \A t \in DOMAIN plan[r] : Shifted(r, t)' = Shifted(r, t)
  BY <1>1, <1>3, ShiftedStays
<1>5. Shifting(r)'
  BY <1>1, <1>2, <1>4 DEF PassInv, Shifting
<1>6. Placing(r)'
  BY <1>1, <1>2, <1>4 DEF PassInv, Placing, RequestsTyped
<1>7. Covering(r)'
  <2> SUFFICES ASSUME pc[r] \in {"shift", "place"}, op[r].kind # "create",
                      NEW t \in DOMAIN plan[r], NEW u \in Tasks \ DOMAIN plan[r],
                      Seen(r)'[u].col \in {task[t].col, plan[r][t].col}
               PROVE  FALSE
    BY <1>1, <1>3 DEF Covering
  <2>1. Seen(r)[u].col \notin {task[t].col, plan[r][t].col}
    BY <1>2 DEF PassInv, Covering
  <2>2. Seen(r)'[u] = task'[u] /\ Seen(r)[u] = task[u]
    BY <1>1, <2>1 DEF Seen
  <2>3. \A c \in {task[t].col, plan[r][t].col} : c \in Columns /\ ProjectOf[c] = op[r].proj
    <3>1. /\ t \in Tasks /\ task[t] \in Row /\ task[t].col # None /\ home[t] = op[r].proj
          /\ plan[r][t] \in Row /\ plan[r][t].col # None
          /\ ProjectOf[plan[r][t].col] = op[r].proj
      BY <1>2, <1>3 DEF RequestInv, OwnRows, RequestsTyped, IsRows, IInv, TypeOK
    <3> QED
      BY <3>1 DEF IInv, TableInv, Row
  <2>4. Undisturbed(op[r].proj)
    BY <1>3, StepUndisturbs
  <2> QED
    BY <2>1, <2>2, <2>3, <2>4 DEF Undisturbed
<1> QED
  BY <1>5, <1>6, <1>7 DEF PassInv

\* Before the passes, and after them, there is nothing to show.
LEMMA NoPass ==
  ASSUME NEW q \in Requests, pc'[q] \notin {"shift", "place"}
  PROVE  PassInv(q)'
BY DEF PassInv, Shifting, Placing, Covering

\* Nor for a request that ends.
LEMMA EndPasses ==
  ASSUME IInv, NEW q \in Requests, End(q)
  PROVE  PassInv(q)'
<1>1. pc'[q] = "idle"
  BY DEF End, Goto, IInv, TypeOK
<1> QED
  BY <1>1, NoPass

\* The plans that the reads make cover whole Columns.
LEMMA ReadPasses ==
  ASSUME IInv, NEW q \in Requests,
         ReadForCreate(q) \/ ReadForReposition(q) \/ ReadForRemove(q)
  PROVE  PassInv(q)'
<1>1. /\ RequestsTyped /\ RequestInv(q) /\ task \in [Tasks -> Row]
  BY DEF IInv, TypeOK, RequestsTyped
<1>2. CASE Rollback(q)
  BY <1>2, EndPasses DEF Rollback
<1>3. ASSUME pc[q] = "read" PROVE work[q] = Empty /\ op[q].task \in Tasks
  BY <1>1, <1>3 DEF RequestInv, OwnRows, Shape
<1>4. DOMAIN Empty = {}
  BY DEF Empty
<1>5. CASE ReadForCreate(q) /\ ~Rollback(q)
  <2>1. PICK row :
          /\ pc[q] = "read" /\ op[q].kind = "create" /\ op' = op
          /\ Write(q, [u \in {op[q].task} |-> row], "place")
    BY <1>5 DEF ReadForCreate
  <2>2. pc'[q] = "place" /\ DOMAIN plan'[q] = {op[q].task}
    BY <1>1, <2>1 DEF Write, Goto, RequestsTyped
  <2> QED
    BY <2>1, <2>2 DEF PassInv, Shifting, Placing, Covering
<1>6. CASE ReadForReposition(q) /\ ~Rollback(q)
  <2> DEFINE t == op[q].task
             c == op[q].col
             index == IF op[q].kind = "update" THEN Cardinality(In(task, c)) ELSE op[q].idx
             orders == Repositioned(task, t, c, index)
             A == In(task, task[t].col) \cup In(task, c)
  <2>1. /\ pc[q] = "read" /\ op' = op /\ work' = work /\ task' = task
        /\ Write(q, orders, "shift")
    BY <1>6 DEF ReadForReposition
  <2>2. /\ DOMAIN orders = A
        /\ \A u \in A : orders[u].col \in {c, task[u].col}
    BY DEF Repositioned
  <2>3. \A u \in A : u \in Tasks /\ task[u].col \in {task[t].col, c}
    BY DEF In
  <2>4. \A u \in Tasks \ A : task[u].col \notin {task[t].col, c}
    BY DEF In
  <2> HIDE DEF orders, A
  <2>5. pc'[q] = "shift" /\ plan'[q] = orders /\ todo'[q] = A /\ work'[q] = Empty
    BY <1>1, <1>3, <2>1, <2>2 DEF Write, Goto, RequestsTyped
  <2>6. Seen(q)' = task
    BY <1>1, <1>4, <2>1, <2>5 DEF Seen
  <2>7. Shifting(q)' /\ Placing(q)'
    BY <1>4, <2>2, <2>5 DEF Shifting, Placing
  <2>8. Covering(q)'
    <3> SUFFICES ASSUME NEW v \in A, NEW u \in Tasks \ A
                 PROVE  task[u].col \notin {task[v].col, orders[v].col}
      BY <2>1, <2>2, <2>5, <2>6 DEF Covering
    <3> QED
      BY <2>2, <2>3, <2>4
  <2> QED
    BY <2>7, <2>8 DEF PassInv
<1>7. CASE ReadForRemove(q) /\ ~Rollback(q)
  <2> DEFINE t == op[q].task
             c == task[t].col
             left == [task EXCEPT ![t] = NoRow]
             orders == Normalized(left, c)
             A == In(left, c)
  <2>1. /\ pc[q] = "read" /\ op' = op /\ task' = task
        /\ WriteRow(q, t, NoRow) /\ c # None
        /\ Write(q, orders, "shift") \/ Write(q, Empty, "commit")
    BY <1>7 DEF ReadForRemove
  <2>2. t \in Tasks
    BY <1>3, <2>1
  <2>3. /\ left[t] = NoRow /\ NoRow.col = None
        /\ \A u \in Tasks \ {t} : left[u] = task[u]
        /\ left = [u \in Tasks |-> IF u = t THEN NoRow ELSE task[u]]
    BY <1>1, <2>2 DEF NoRow
  <2>4. DOMAIN orders = A /\ \A u \in A : orders[u].col = c
    BY DEF Normalized
  <2> HIDE DEF left
  <2>5. \A u \in A : u \in Tasks \ {t} /\ task[u].col = c
    BY <2>1, <2>3 DEF In
  <2>6. \A u \in Tasks \ A : left[u].col # c
    BY DEF In
  <2> HIDE DEF orders, A
  <2>7. work'[q] = [u \in {t} |-> NoRow]
    BY <1>1, <1>3, <1>4, <2>1 DEF WriteRow, RequestsTyped, Empty
  <2>8. Seen(q)' = left
    BY <1>1, <2>1, <2>3, <2>7 DEF Seen
  <2>9. CASE Write(q, Empty, "commit")
    <3>1. pc'[q] = "commit"
      BY <1>1, <2>9 DEF Write, Goto, RequestsTyped
    <3> QED
      BY <3>1, NoPass
  <2>10. CASE Write(q, orders, "shift")
    <3>1. pc'[q] = "shift" /\ plan'[q] = orders /\ todo'[q] = A
      BY <1>1, <2>4, <2>10 DEF Write, Goto, RequestsTyped
    <3>2. \A u \in A : u \notin DOMAIN work'[q]
      BY <2>5, <2>7
    <3>3. Shifting(q)' /\ Placing(q)'
      BY <2>4, <3>1, <3>2 DEF Shifting, Placing
    <3>4. Covering(q)'
      <4> SUFFICES ASSUME NEW v \in A, NEW u \in Tasks \ A
                   PROVE  left[u].col \notin {task[v].col, orders[v].col}
        BY <2>1, <2>4, <2>8, <3>1 DEF Covering
      <4> QED
        BY <2>4, <2>5, <2>6
    <3> QED
      BY <3>3, <3>4 DEF PassInv
  <2> QED
    BY <2>1, <2>9, <2>10
<1> QED
  BY <1>2, <1>5, <1>6, <1>7

\* A row of a pass is written: it leaves todo, and no row outside the plan changes.
LEMMA WritePasses ==
  ASSUME IInv, PInv, NEW q \in Requests, NEW t \in Tasks, Shift(q, t) \/ Place(q, t)
  PROVE  PassInv(q)'
<1>1. RequestsTyped /\ RequestInv(q) /\ PassInv(q)
  BY DEF IInv, TypeOK, RequestsTyped, PInv
<1>2. CASE Rollback(q)
  BY <1>2, EndPasses DEF Rollback
<1>3. ASSUME NEW row, t \in todo[q], WriteRow(q, t, row), pc[q] \in {"shift", "place"},
             UNCHANGED <<task, op, plan>>
      PROVE  /\ DOMAIN work'[q] = DOMAIN work[q] \cup {t} /\ work'[q][t] = row
             /\ \A u \in DOMAIN work[q] \ {t} : work'[q][u] = work[q][u]
             /\ \A u \in DOMAIN plan[q] : Shifted(q, u)' = Shifted(q, u)
             /\ Covering(q)'
  <2>1. /\ DOMAIN work'[q] = DOMAIN work[q] \cup {t} /\ work'[q][t] = row
        /\ \A u \in DOMAIN work[q] \ {t} : work'[q][u] = work[q][u]
    BY <1>1, <1>3 DEF WriteRow, RequestsTyped
  <2>2. \A u \in DOMAIN plan[q] : Shifted(q, u)' = Shifted(q, u)
    BY <1>3, ShiftedStays
  <2>3. t \in DOMAIN plan[q]
    BY <1>1, <1>3 DEF RequestsTyped
  <2>4. \A u \in Tasks \ DOMAIN plan[q] : Seen(q)'[u] = Seen(q)[u]
    BY <1>3, <2>1, <2>3 DEF Seen
  <2>5. Covering(q)'
    BY <1>1, <1>3, <2>4 DEF PassInv, Covering
  <2> QED
    BY <2>1, <2>2, <2>5
<1>4. CASE Shift(q, t) /\ ~Rollback(q)
  <2>1. /\ pc[q] = "shift" /\ t \in todo[q] /\ WriteRow(q, t, Shifted(q, t))
        /\ UNCHANGED <<task, op, plan>>
        /\ \/ todo[q] = {t} /\ todo' = [todo EXCEPT ![q] = DOMAIN plan[q]] /\ Goto(q, "place")
           \/ todo' = [todo EXCEPT ![q] = @ \ {t}] /\ pc' = pc
    BY <1>4 DEF Shift
  <2>2. /\ DOMAIN work'[q] = DOMAIN work[q] \cup {t} /\ work'[q][t] = Shifted(q, t)
        /\ \A u \in DOMAIN work[q] \ {t} : work'[q][u] = work[q][u]
        /\ \A u \in DOMAIN plan[q] : Shifted(q, u)' = Shifted(q, u)
        /\ Covering(q)'
    BY <1>3, <2>1
  <2>3. op[q].kind # "create" /\ op' = op /\ plan' = plan
    BY <1>1, <2>1 DEF RequestInv, Shape
  <2>4. \A u \in DOMAIN plan[q] :
          IF u \in todo[q] THEN u \notin DOMAIN work[q]
                           ELSE u \in DOMAIN work[q] /\ work[q][u] = Shifted(q, u)
    BY <1>1, <2>1 DEF PassInv, Shifting
  <2> HIDE DEF Shifted
  <2>5. CASE todo[q] = {t} /\ todo' = [todo EXCEPT ![q] = DOMAIN plan[q]] /\ Goto(q, "place")
    <3>1. pc'[q] = "place" /\ todo'[q] = DOMAIN plan[q]
      BY <1>1, <2>5 DEF Goto, RequestsTyped
    <3>2. \A u \in DOMAIN plan[q] : u \in DOMAIN work'[q] /\ work'[q][u] = Shifted(q, u)
      BY <2>2, <2>4, <2>5
    <3> QED
      BY <2>2, <2>3, <3>1, <3>2 DEF PassInv, Shifting, Placing
  <2>6. CASE todo' = [todo EXCEPT ![q] = @ \ {t}] /\ pc' = pc
    <3>1. pc'[q] = "shift" /\ todo'[q] = todo[q] \ {t}
      BY <1>1, <2>1, <2>6 DEF RequestsTyped
    <3>2. \A u \in DOMAIN plan[q] :
            IF u \in todo'[q] THEN u \notin DOMAIN work'[q]
                              ELSE u \in DOMAIN work'[q] /\ work'[q][u] = Shifted(q, u)
      BY <2>2, <2>4, <3>1
    <3> QED
      BY <2>2, <2>3, <3>1, <3>2 DEF PassInv, Shifting, Placing
  <2> QED
    BY <2>1, <2>5, <2>6
<1>5. CASE Place(q, t) /\ ~Rollback(q)
  <2>1. /\ pc[q] = "place" /\ t \in todo[q] /\ WriteRow(q, t, plan[q][t])
        /\ UNCHANGED <<task, op, plan>>
        /\ todo' = [todo EXCEPT ![q] = @ \ {t}]
        /\ Goto(q, "commit") \/ pc' = pc
    BY <1>5 DEF Place, NextToPlace
  <2>2. /\ \A u \in DOMAIN work[q] \ {t} : u \in DOMAIN work'[q] /\ work'[q][u] = work[q][u]
        /\ \A u \in DOMAIN plan[q] : Shifted(q, u)' = Shifted(q, u)
        /\ Covering(q)'
    BY <1>3, <2>1
  <2> HIDE DEF Shifted
  <2>3. CASE Goto(q, "commit")
    <3>1. pc'[q] = "commit"
      BY <1>1, <2>3 DEF Goto, RequestsTyped
    <3> QED
      BY <3>1, NoPass
  <2>4. CASE pc' = pc
    <3>1. pc'[q] = "place" /\ todo'[q] = todo[q] \ {t} /\ todo[q] \subseteq DOMAIN plan[q]
      BY <1>1, <2>1, <2>4 DEF RequestsTyped
    <3>2. Placing(q)'
      BY <1>1, <2>1, <2>2, <3>1 DEF PassInv, Placing
    <3> QED
      BY <2>2, <3>1, <3>2 DEF PassInv, Shifting
  <2> QED
    BY <2>1, <2>3, <2>4
<1> QED
  BY <1>2, <1>4, <1>5

\* The invariant of the passes is inductive.
LEMMA NextPasses == IInv /\ IInv' /\ PInv /\ [Next]_vars => PInv'
<1> SUFFICES ASSUME IInv, IInv', PInv, [Next]_vars PROVE PInv'
  OBVIOUS
<1>1. ASSUME NEW q \in Requests, StepOf(q) PROVE PInv'
  <2>1. pc \in [Requests -> PCs]
    BY DEF IInv, TypeOK
  <2>2. PassInv(q)'
    <3>1. CASE StartCreate(q) \/ StartChange(q) \/ StartColumnChange(q)
      <4>1. pc'[q] \in {"lockProject", "lockBoard", "lockColumn"}
        BY <2>1, <3>1 DEF StartCreate, StartChange, StartColumnChange, Start, Goto
      <4> QED
        BY <4>1, NoPass
    <3>2. CASE Fail(q) \/ Commit(q)
      BY <3>2, EndPasses DEF Fail, Rollback, Commit
    <3>3. CASE LockProject(q) \/ LockBoard(q)
      <4>1. pc'[q] \in {"read", "insertColumn"}
        BY <2>1, <3>3 DEF LockProject, LockBoard, Goto
      <4> QED
        BY <4>1, NoPass
    <3>4. CASE InsertColumn(q) \/ LockColumn(q) \/ DropColumn(q)
      <4>1. Rollback(q) \/ pc'[q] \in {"commit", "dropColumn"}
        BY <2>1, <3>4 DEF InsertColumn, LockColumn, DropColumn, Goto
      <4> QED
        BY <4>1, NoPass, EndPasses DEF Rollback
    <3>5. CASE ReadForCreate(q) \/ ReadForReposition(q) \/ ReadForRemove(q)
      BY <3>5, ReadPasses
    <3>6. CASE \E t \in Tasks : Shift(q, t) \/ Place(q, t)
      BY <3>6, WritePasses
    <3> QED
      BY <1>1, <3>1, <3>2, <3>3, <3>4, <3>5, <3>6 DEF StepOf, Step
  <2>3. \A r \in Requests \ {q} : PassInv(r)'
    BY <1>1, OthersKeepPasses
  <2> QED
    BY <2>2, <2>3 DEF PInv
<1>2. CASE UNCHANGED vars
  <2>1. /\ task' = task /\ pc' = pc /\ op' = op /\ work' = work /\ plan' = plan /\ todo' = todo
    BY <1>2 DEF vars
  <2> SUFFICES ASSUME NEW r \in Requests PROVE PassInv(r)'
    BY DEF PInv
  <2>2. PassInv(r)
    BY DEF PInv
  <2>3. \A t \in DOMAIN plan[r] : Shifted(r, t)' = Shifted(r, t)
    BY <2>1, ShiftedStays
  <2>4. Seen(r)' = Seen(r)
    BY <2>1 DEF Seen
  <2>5. todo[r] \subseteq DOMAIN plan[r]
    BY DEF IInv, TypeOK
  <2> QED
    BY <2>1, <2>2, <2>3, <2>4, <2>5 DEF PassInv, Shifting, Placing, Covering
<1> QED
  BY <1>1, <1>2 DEF Next, StepOf, ReadOnly

\* A row that is shifted goes where nothing is.
LEMMA ShiftIsFree ==
  ASSUME IInv, PInv, NEW r \in Requests, pc[r] = "shift", NEW t \in todo[r]
  PROVE  ~Taken(r, t, Shifted(r, t))
<1> SUFFICES ASSUME NEW u \in Tasks \ {t}, Seen(r)[u] = Shifted(r, t) PROVE FALSE
  BY DEF Taken
<1>1. RequestsTyped /\ RequestInv(r) /\ PassInv(r) /\ task \in [Tasks -> Row]
  BY DEF IInv, TypeOK, RequestsTyped, PInv
<1>2. op[r].kind # "create" /\ t \in DOMAIN plan[r] /\ t \in Tasks /\ task[t].col # None
  BY <1>1 DEF RequestInv, Shape, OwnRows, RequestsTyped, IsRows
<1>3. /\ Offset(r) \in Nat
      /\ \A v \in DOMAIN plan[r] : task[v].pos \in Nat /\ task[v].pos < Offset(r)
  BY <1>2, OffsetAbove
<1>4. \A v \in Tasks : Shifted(r, v).col = task[v].col /\ Shifted(r, v).pos = task[v].pos + Offset(r)
  BY <1>1, <1>3 DEF Shifted, Row
<1> HIDE DEF Shifted
<1>5. Seen(r)[u].col = task[t].col /\ Seen(r)[u].pos = task[t].pos + Offset(r)
  BY <1>2, <1>4
<1>6. CASE u \notin DOMAIN plan[r]
  BY <1>1, <1>2, <1>5, <1>6 DEF PassInv, Covering
<1>7. CASE u \in DOMAIN plan[r] /\ u \in todo[r]
  <2>1. u \notin DOMAIN work[r]
    BY <1>1, <1>7 DEF PassInv, Shifting
  <2>2. Seen(r)[u] = task[u]
    BY <2>1 DEF Seen
  <2> QED
    BY <1>2, <1>3, <1>5, <1>7, <2>2
<1>8. CASE u \in DOMAIN plan[r] /\ u \notin todo[r]
  <2>1. Seen(r)[u] = Shifted(r, u)
    BY <1>1, <1>8 DEF PassInv, Shifting, Seen
  <2>2. task[u].col = task[t].col /\ task[u].pos = task[t].pos
    BY <1>2, <1>3, <1>4, <1>5, <1>8, <2>1
  <2>3. task[t].col \in Columns /\ Dense(task, task[t].col)
    BY <1>1, <1>2 DEF IInv, DensePositions, Row
  <2>4. u \in In(task, task[t].col) /\ t \in In(task, task[t].col)
    BY <1>2, <2>2 DEF In
  <2> QED
    BY <2>2, <2>3, <2>4, DenseIsInjective
<1> QED
  BY <1>6, <1>7, <1>8

\* A row that is placed finds its position free.
LEMMA PlaceIsFree ==
  ASSUME IInv, PInv, NEW r \in Requests, pc[r] = "place", NEW t \in todo[r]
  PROVE  ~Taken(r, t, plan[r][t])
<1> SUFFICES ASSUME NEW u \in Tasks \ {t}, Seen(r)[u] = plan[r][t] PROVE FALSE
  BY DEF Taken
<1> DEFINE c == plan[r][t].col
<1>1. RequestsTyped /\ RequestInv(r) /\ PassInv(r) /\ task \in [Tasks -> Row]
  BY DEF IInv, TypeOK, RequestsTyped, PInv
<1>2. t \in DOMAIN plan[r] /\ t \in Tasks /\ plan[r][t] \in Row /\ c \in Columns
      /\ ProjectOf[c] = op[r].proj
  BY <1>1 DEF RequestInv, OwnRows, RequestsTyped, IsRows, Row
<1>3. Locked(r)
  BY <1>1 DEF RequestInv, Shape, Locked
<1>4. Dense(Post(r), c)
  BY <1>1, <1>2, <1>3 DEF RequestInv, Planned
<1>5. \A v \in Tasks : Post(r)[v] = IF v \in DOMAIN plan[r] THEN plan[r][v] ELSE Seen(r)[v]
  BY DEF Post, Over
<1> HIDE DEF c
<1>6. ASSUME Post(r)[u] = plan[r][t] PROVE FALSE
  <2>1. u \in In(Post(r), c) /\ t \in In(Post(r), c) /\ Post(r)[t] = plan[r][t]
    BY <1>2, <1>5, <1>6 DEF In, c
  <2> QED
    BY <1>4, <1>6, <2>1, DenseIsInjective
<1>7. CASE u \notin DOMAIN plan[r]
  BY <1>5, <1>6, <1>7
<1>8. CASE u \in DOMAIN plan[r] /\ u \notin todo[r]
  <2>1. Seen(r)[u] = plan[r][u]
    BY <1>1, <1>8 DEF RequestInv, Planned, Seen
  <2> QED
    BY <1>5, <1>6, <1>8, <2>1
<1>9. CASE u \in DOMAIN plan[r] /\ u \in todo[r]
  <2>1. op[r].kind # "create"
    BY <1>1, <1>2, <1>9 DEF PassInv, Placing
  <2>2. Seen(r)[u] = Shifted(r, u)
    BY <1>1, <1>9, <2>1 DEF PassInv, Placing, Seen
  <2>3. /\ Offset(r) \in Nat
        /\ IsFiniteSet(DOMAIN plan[r]) /\ Cardinality(DOMAIN plan[r]) \in Nat
        /\ Cardinality(DOMAIN plan[r]) <= Offset(r)
        /\ task[u].pos \in Nat
    BY <1>9, <2>1, OffsetAbove
  <2>4. plan[r][t].pos >= Offset(r)
    <3>1. Shifted(r, u).pos = task[u].pos + Offset(r)
      BY <1>1 DEF Shifted, Row
    <3> HIDE DEF Shifted
    <3> QED
      BY <2>2, <2>3, <3>1
  <2>5. In(Post(r), c) \in SUBSET DOMAIN plan[r]
    <3>1. \A v \in Tasks \ DOMAIN plan[r] : Seen(r)[v].col # c
      BY <1>1, <1>2, <2>1 DEF PassInv, Covering, c
    <3> QED
      BY <1>5, <3>1 DEF In
  <2>6. /\ Cardinality(In(Post(r), c)) \in Nat
        /\ Cardinality(In(Post(r), c)) <= Cardinality(DOMAIN plan[r])
    BY <2>3, <2>5, FS_Subset, InFinite
  <2>7. t \in In(Post(r), c) /\ Post(r)[t] = plan[r][t]
    BY <1>2, <1>5 DEF In, c
  <2>8. plan[r][t].pos \in 0 .. Cardinality(In(Post(r), c)) - 1
    BY <1>4, <2>7, DenseIsInjective
  <2> QED
    BY <2>3, <2>4, <2>6, <2>8
<1> QED
  BY <1>7, <1>8, <1>9

\* Every reachable state satisfies the invariant of the passes: the plan covers
\* whole Columns, and each row is where its pass has put it.
THEOREM PassesInvariance == Spec => []PInv
<1>1. Init => PInv
  BY DEF Init, PInv, PassInv, Shifting, Placing, Covering
<1>2. IInv /\ IInv' /\ PInv /\ [Next]_vars => PInv'
  BY NextPasses
<1> QED
  BY <1>1, <1>2, Invariance, PTL DEF Spec

\* No statement meets the unique indexes on positions: not the shift, row by row
\* and in any order, for the offset is beyond every position; not the placement,
\* for the plan is dense and ends below the offset; not the insert of a Column,
\* for the Board is locked.  So the services never answer 409 for a position.
THEOREM PositionsNeverConflict == Spec => []NoPositionConflict
<1>1. ASSUME IInv, CInv, PInv PROVE NoPositionConflict
  <2>1. ASSUME NEW r \in Requests, pc[r] = "insertColumn"
        PROVE  op[r].idx \notin PositionsOf(op[r].proj)
    <3>1. ColumnInv(r) /\ op[r].idx \in Nat /\ column \in [Columns -> Nat \cup {None}]
      BY <1>1 DEF CInv, IInv, TypeOK, Op
    <3>2. \A d \in Columns : ProjectOf[d] = op[r].proj /\ column[d] # None => column[d] < op[r].idx
      BY <2>1, <3>1 DEF ColumnInv, HasBoard, Appends
    <3>3. \A d \in Columns : column[d] # None => column[d] \in Nat
      BY <3>1
    <3> QED
      BY <3>1, <3>2, <3>3 DEF PositionsOf
  <2>2. ASSUME NEW r \in Requests, NEW t \in todo[r], NextToPlace(r, t)
        PROVE  ~Taken(r, t, plan[r][t])
    BY <1>1, <2>2, PlaceIsFree DEF NextToPlace
  <2> QED
    BY <1>1, <2>1, <2>2, ShiftIsFree DEF NoPositionConflict
<1>2. IInv /\ CInv /\ PInv => NoPositionConflict
  BY <1>1
<1> QED
  BY <1>2, Invariance, ColumnsInvariance, PassesInvariance, PTL

-----------------------------------------------------------------------------
(* The third invariant leads to OrderedBoard: first what RemoveAt and       *)
(* InsertAt do to a sequence.                                              *)

\* What RemoveAt leaves at each index.
LEMMA RemoveAtProperties ==
  ASSUME NEW S, NEW s \in Seq(S), NEW k \in 1 .. Len(s)
  PROVE  /\ RemoveAt(s, k) \in Seq(S)
         /\ Len(RemoveAt(s, k)) = Len(s) - 1
         /\ \A i \in 1 .. Len(s) - 1 : RemoveAt(s, k)[i] = IF i < k THEN s[i] ELSE s[i + 1]
<1> DEFINE a == SubSeq(s, 1, k - 1)
           b == SubSeq(s, k + 1, Len(s))
<1>1. Len(s) \in Nat /\ \A i \in 1 .. Len(s) : s[i] \in S
  BY ElementOfSeq, LenProperties
<1>2. /\ a \in Seq(S) /\ Len(a) = k - 1
      /\ \A i \in 1 .. k - 1 : a[i] = s[i]
  <2>1. \A i \in 1 .. k - 1 : s[i] \in S
    BY <1>1
  <2>2. /\ SubSeq(s, 1, k - 1) \in Seq(S)
        /\ Len(SubSeq(s, 1, k - 1)) = IF 1 <= k - 1 THEN k - 1 - 1 + 1 ELSE 0
        /\ \A i \in 1 .. k - 1 - 1 + 1 : SubSeq(s, 1, k - 1)[i] = s[1 + i - 1]
    BY <1>1, <2>1, SubSeqProperties
  <2> QED
    BY <1>1, <2>2
<1>3. /\ b \in Seq(S) /\ Len(b) = Len(s) - k
      /\ \A i \in 1 .. Len(s) - k : b[i] = s[k + i]
  <2>1. \A i \in k + 1 .. Len(s) : s[i] \in S
    BY <1>1
  <2>2. /\ SubSeq(s, k + 1, Len(s)) \in Seq(S)
        /\ Len(SubSeq(s, k + 1, Len(s))) =
             IF k + 1 <= Len(s) THEN Len(s) - (k + 1) + 1 ELSE 0
        /\ \A i \in 1 .. Len(s) - (k + 1) + 1 : SubSeq(s, k + 1, Len(s))[i] = s[k + 1 + i - 1]
    BY <1>1, <2>1, SubSeqProperties
  <2> QED
    BY <1>1, <2>2
<1>4. RemoveAt(s, k) = a \o b
  BY DEF RemoveAt
<1> HIDE DEF a, b
<1>5. /\ a \o b \in Seq(S)
      /\ Len(a \o b) = Len(a) + Len(b)
      /\ \A i \in 1 .. Len(a) + Len(b) : (a \o b)[i] = IF i <= Len(a) THEN a[i] ELSE b[i - Len(a)]
  BY <1>2, <1>3, ConcatProperties
<1>6. ASSUME NEW i \in 1 .. Len(s) - 1
      PROVE  (a \o b)[i] = IF i < k THEN s[i] ELSE s[i + 1]
  <2>1. (a \o b)[i] = IF i <= k - 1 THEN a[i] ELSE b[i - (k - 1)]
    BY <1>1, <1>2, <1>3, <1>5
  <2>2. CASE i < k
    <3>1. i \in 1 .. k - 1
      BY <2>2
    <3> QED
      BY <1>2, <2>1, <2>2, <3>1
  <2>3. CASE ~(i < k)
    <3>1. i - (k - 1) \in 1 .. Len(s) - k /\ k + (i - (k - 1)) = i + 1
      BY <1>1, <2>3
    <3> QED
      BY <1>3, <2>1, <2>3, <3>1
  <2> QED
    BY <2>2, <2>3
<1> QED
  BY <1>1, <1>2, <1>3, <1>4, <1>5, <1>6

\* And what InsertAt does.
LEMMA InsertAtProperties ==
  ASSUME NEW S, NEW s \in Seq(S), NEW k \in 1 .. Len(s) + 1, NEW e \in S
  PROVE  /\ InsertAt(s, k, e) \in Seq(S)
         /\ Len(InsertAt(s, k, e)) = Len(s) + 1
         /\ \A i \in 1 .. k - 1 : InsertAt(s, k, e)[i] = s[i]
         /\ InsertAt(s, k, e)[k] = e
         /\ \A i \in k + 1 .. Len(s) + 1 : InsertAt(s, k, e)[i] = s[i - 1]
<1> DEFINE a == SubSeq(s, 1, k - 1)
           m == a \o <<e>>
           b == SubSeq(s, k, Len(s))
<1>1. Len(s) \in Nat /\ \A i \in 1 .. Len(s) : s[i] \in S
  BY ElementOfSeq, LenProperties
<1>2. /\ a \in Seq(S) /\ Len(a) = k - 1
      /\ \A i \in 1 .. k - 1 : a[i] = s[i]
  <2>1. \A i \in 1 .. k - 1 : s[i] \in S
    BY <1>1
  <2>2. /\ SubSeq(s, 1, k - 1) \in Seq(S)
        /\ Len(SubSeq(s, 1, k - 1)) = IF 1 <= k - 1 THEN k - 1 - 1 + 1 ELSE 0
        /\ \A i \in 1 .. k - 1 - 1 + 1 : SubSeq(s, 1, k - 1)[i] = s[1 + i - 1]
    BY <1>1, <2>1, SubSeqProperties
  <2> QED
    BY <1>1, <2>2
<1>3. /\ b \in Seq(S) /\ Len(b) = Len(s) - k + 1
      /\ \A i \in 1 .. Len(s) - k + 1 : b[i] = s[k + i - 1]
  <2>1. \A i \in k .. Len(s) : s[i] \in S
    BY <1>1
  <2>2. /\ SubSeq(s, k, Len(s)) \in Seq(S)
        /\ Len(SubSeq(s, k, Len(s))) = IF k <= Len(s) THEN Len(s) - k + 1 ELSE 0
        /\ \A i \in 1 .. Len(s) - k + 1 : SubSeq(s, k, Len(s))[i] = s[k + i - 1]
    BY <1>1, <2>1, SubSeqProperties
  <2> QED
    BY <1>1, <2>2
<1>4. InsertAt(s, k, e) = m \o b
  BY DEF InsertAt
<1>5. /\ m \in Seq(S) /\ Len(m) = k
      /\ \A i \in 1 .. k : m[i] = IF i < k THEN s[i] ELSE e
  <2>1. <<e>> \in Seq(S) /\ Len(<<e>>) = 1 /\ <<e>>[1] = e
    OBVIOUS
  <2> DEFINE w == <<e>>
  <2> HIDE DEF a, w
  <2>2. w \in Seq(S) /\ Len(w) = 1 /\ w[1] = e
    BY <2>1 DEF w
  <2>3. /\ a \o w \in Seq(S)
        /\ Len(a \o w) = Len(a) + Len(w)
        /\ \A i \in 1 .. Len(a) + Len(w) : (a \o w)[i] = IF i <= Len(a) THEN a[i] ELSE w[i - Len(a)]
    BY <1>2, <2>2, ConcatProperties
  <2>4. m = a \o w
    BY DEF w
  <2> HIDE DEF m
  <2>5. ASSUME NEW i \in 1 .. k PROVE m[i] = IF i < k THEN s[i] ELSE e
    <3>1. m[i] = IF i <= k - 1 THEN a[i] ELSE w[i - (k - 1)]
      BY <1>1, <1>2, <2>2, <2>3, <2>4
    <3>2. CASE i < k
      <4>1. i \in 1 .. k - 1
        BY <3>2
      <4> QED
        BY <1>2, <3>1, <3>2, <4>1
    <3>3. CASE ~(i < k)
      <4>1. i - (k - 1) = 1
        BY <1>1, <3>3
      <4> QED
        BY <2>2, <3>1, <3>3, <4>1
    <3> QED
      BY <3>2, <3>3
  <2> QED
    BY <1>1, <1>2, <2>2, <2>3, <2>4, <2>5
<1> HIDE DEF a, b, m
<1>6. /\ m \o b \in Seq(S)
      /\ Len(m \o b) = Len(m) + Len(b)
      /\ \A i \in 1 .. Len(m) + Len(b) : (m \o b)[i] = IF i <= Len(m) THEN m[i] ELSE b[i - Len(m)]
  BY <1>3, <1>5, ConcatProperties
<1>7. ASSUME NEW i \in 1 .. k
      PROVE  (m \o b)[i] = IF i < k THEN s[i] ELSE e
  <2>1. i \in 1 .. Len(m) + Len(b) /\ i <= Len(m)
    BY <1>1, <1>3, <1>5
  <2> QED
    BY <1>5, <1>6, <2>1
<1>8. ASSUME NEW i \in k + 1 .. Len(s) + 1
      PROVE  (m \o b)[i] = s[i - 1]
  <2>1. i \in 1 .. Len(m) + Len(b) /\ ~(i <= Len(m))
    BY <1>1, <1>3, <1>5
  <2>2. (m \o b)[i] = b[i - k]
    BY <1>5, <1>6, <2>1
  <2>3. i - k \in 1 .. Len(s) - k + 1 /\ k + (i - k) - 1 = i - 1
    BY <1>1
  <2> QED
    BY <1>3, <2>2, <2>3
<1>9. \A i \in 1 .. k - 1 : i \in 1 .. k /\ i < k
  BY <1>1
<1>10. k \in 1 .. k /\ ~(k < k)
  BY <1>1
<1>11. InsertAt(s, k, e) \in Seq(S)
  BY <1>4, <1>6
<1>12. Len(InsertAt(s, k, e)) = Len(s) + 1
  <2>1. Len(InsertAt(s, k, e)) = k + (Len(s) - k + 1)
    BY <1>3, <1>4, <1>5, <1>6
  <2> QED
    BY <1>1, <2>1
<1>13. \A i \in 1 .. k - 1 : InsertAt(s, k, e)[i] = s[i]
  BY <1>4, <1>7, <1>9
<1>14. InsertAt(s, k, e)[k] = e
  BY <1>4, <1>7, <1>10
<1>15. \A i \in k + 1 .. Len(s) + 1 : InsertAt(s, k, e)[i] = s[i - 1]
  BY <1>4, <1>8
<1> QED
  BY <1>11, <1>12, <1>13, <1>14, <1>15

-----------------------------------------------------------------------------
(* The sequence of a Column that is dense.                                 *)

\* In a dense Column, the index of a Task is its position.
LEMMA RankIsPosition ==
  ASSUME NEW table, NEW c, Dense(table, c), NEW t \in In(table, c)
  PROVE  Rank(table, In(table, c), t) = table[t].pos
<1> DEFINE S == In(table, c)
           n == Cardinality(S)
           p == table[t].pos
           Below == {u \in S : table[u].pos < p}
           T == 0 .. p - 1
           f == [u \in Below |-> table[u].pos]
<1>1. IsFiniteSet(S) /\ n \in Nat
  BY InFinite
<1>2. /\ \A u \in S : table[u].pos \in 0 .. n - 1
      /\ \A u, v \in S : table[u].pos = table[v].pos => u = v
      /\ {table[u].pos : u \in S} = 0 .. n - 1
  BY DenseIsInjective DEF Dense
<1>3. p \in 0 .. n - 1
  BY <1>2
<1>4. T \subseteq 0 .. n - 1
  BY <1>1, <1>3
<1>5. f \in Bijection(Below, T)
  <2>1. \A u \in Below : table[u].pos \in T
    BY <1>1, <1>2, <1>3
  <2>2. f \in [Below -> T]
    BY <2>1
  <2>3. \A k \in T : \E u \in Below : f[u] = k
    <3> TAKE k \in T
    <3>1. k \in {table[u].pos : u \in S} /\ k < p
      BY <1>2, <1>3, <1>4
    <3>2. PICK u \in S : table[u].pos = k
      BY <3>1
    <3> QED
      BY <3>1, <3>2
  <2>4. \A u, v \in Below : f[u] = f[v] => u = v
    BY <1>2
  <2> HIDE DEF f, Below, T
  <2> QED
    BY <2>2, <2>3, <2>4 DEF Bijection, Injection, IsInjective, Surjection
<1>6. IsFiniteSet(T) /\ Cardinality(T) = p
  <2>1. p \in Nat /\ p - 1 \in Int
    BY <1>1, <1>3
  <2> HIDE DEF p
  <2> QED
    BY <2>1, FS_Interval
<1>7. Below \in SUBSET S
  OBVIOUS
<1> HIDE DEF f, Below, T
<1>8. ExistsBijection(Below, T)
  BY <1>5 DEF ExistsBijection
<1>9. Cardinality(Below) = p
  BY <1>6, <1>8, <1>7, <1>1, FS_Bijection, FS_Subset
<1> QED
  BY <1>9 DEF Rank, Below

\* Taking a Task out moves those after it one index down.
LEMMA RankWithout ==
  ASSUME NEW table, NEW c, Dense(table, c),
         NEW t \in In(table, c), NEW u \in In(table, c) \ {t}
  PROVE  Rank(table, In(table, c) \ {t}, u) =
           IF table[t].pos < table[u].pos THEN table[u].pos - 1 ELSE table[u].pos
<1> DEFINE S == In(table, c)
           A == {v \in S : table[v].pos < table[u].pos}
           B == {v \in S \ {t} : table[v].pos < table[u].pos}
<1>1. A \in SUBSET S /\ IsFiniteSet(S)
  BY InFinite
<1>2. IsFiniteSet(A) /\ Cardinality(A) = table[u].pos
  <2>1. Cardinality(A) = Rank(table, S, u)
    BY DEF Rank
  <2>2. Rank(table, S, u) = table[u].pos
    BY RankIsPosition
  <2> HIDE DEF A, S
  <2> QED
    BY <1>1, <2>1, <2>2, FS_Subset
<1>3. Rank(table, S \ {t}, u) = Cardinality(B)
  BY DEF Rank
<1>4. B = A \ {t}
  OBVIOUS
<1>5. t \in A <=> table[t].pos < table[u].pos
  OBVIOUS
<1> HIDE DEF A, B
<1>6. CASE t \in A
  BY <1>2, <1>3, <1>4, <1>5, <1>6, FS_RemoveElement
<1>7. CASE t \notin A
  <2>1. A \ {t} = A
    BY <1>7
  <2> QED
    BY <1>2, <1>3, <1>4, <1>5, <1>7, <2>1
<1> QED
  BY <1>6, <1>7

\* s has the Tasks of Column c, each at the index that its position says.
IsOrder(s, table, c) ==
  /\ s \in Seq(Tasks)
  /\ Len(s) = Cardinality(In(table, c))
  /\ \A t \in In(table, c) : s[table[t].pos + 1] = t

\* OrderIn reads such a sequence.
LEMMA OrderInIsOrder ==
  ASSUME NEW table, NEW c, Dense(table, c)
  PROVE  IsOrder(OrderIn(table, c), table, c)
<1> DEFINE S == In(table, c)
           n == Cardinality(S)
           at(i) == CHOOSE t \in S : Rank(table, S, t) = i - 1
<1>1. S \subseteq Tasks /\ n \in Nat
  BY InFinite
<1>2. /\ \A u \in S : table[u].pos \in 0 .. n - 1
      /\ \A u, v \in S : table[u].pos = table[v].pos => u = v
      /\ {table[u].pos : u \in S} = 0 .. n - 1
  BY DenseIsInjective DEF Dense
<1>3. \A u \in S : Rank(table, S, u) = table[u].pos
  BY RankIsPosition
<1>4. OrderIn(table, c) = [i \in 1 .. n |-> at(i)]
  BY DEF OrderIn
<1>5. \A i \in 1 .. n : at(i) \in S /\ table[at(i)].pos = i - 1
  <2> TAKE i \in 1 .. n
  <2>1. i - 1 \in 0 .. n - 1
    BY <1>1
  <2>2. PICK u \in S : table[u].pos = i - 1
    BY <1>2, <2>1
  <2>3. \E t \in S : Rank(table, S, t) = i - 1
    BY <1>3, <2>2
  <2> HIDE DEF S
  <2>4. at(i) \in S /\ Rank(table, S, at(i)) = i - 1
    BY <2>3
  <2> QED
    BY <1>3, <2>4
<1> HIDE DEF at, n, S
<1>6. OrderIn(table, c) \in Seq(Tasks) /\ Len(OrderIn(table, c)) = n
  BY <1>1, <1>4, <1>5
<1>7. \A t \in S : OrderIn(table, c)[table[t].pos + 1] = t
  <2> TAKE t \in S
  <2>1. table[t].pos + 1 \in 1 .. n /\ table[t].pos + 1 - 1 = table[t].pos
    BY <1>1, <1>2
  <2> QED
    BY <1>2, <1>4, <1>5, <2>1
<1> QED
  BY <1>6, <1>7 DEF IsOrder, S, n

\* There is one such sequence.
LEMMA OrderIsUnique ==
  ASSUME NEW table, NEW c, Dense(table, c), NEW s, IsOrder(s, table, c)
  PROVE  s = OrderIn(table, c)
<1> DEFINE S == In(table, c)
           n == Cardinality(S)
           o == OrderIn(table, c)
<1>1. IsOrder(o, table, c)
  BY OrderInIsOrder
<1>2. n \in Nat /\ {table[u].pos : u \in S} = 0 .. n - 1
  BY InFinite DEF Dense
<1> HIDE DEF o
<1>3. /\ s \in Seq(Tasks) /\ Len(s) = n /\ o \in Seq(Tasks) /\ Len(o) = n
      /\ \A t \in S : s[table[t].pos + 1] = t /\ o[table[t].pos + 1] = t
  BY <1>1 DEF IsOrder
<1>4. \A i \in 1 .. n : s[i] = o[i]
  <2> TAKE i \in 1 .. n
  <2>1. i - 1 \in 0 .. n - 1
    BY <1>2
  <2>2. PICK u \in S : table[u].pos = i - 1
    BY <1>2, <2>1
  <2>3. i - 1 + 1 = i
    BY <1>2
  <2> QED
    BY <1>3, <2>2, <2>3
<1> HIDE DEF S, n
<1>5. s = o
  BY <1>3, <1>4, SeqEqual
<1> QED
  BY <1>5 DEF o

\* The sequence of a Column depends on its rows only.
LEMMA OrderIsLocal ==
  ASSUME NEW a, NEW b, NEW c,
         \A t \in Tasks : a[t].col = c \/ b[t].col = c => a[t] = b[t],
         Dense(a, c)
  PROVE  OrderIn(a, c) = OrderIn(b, c)
<1>1. In(a, c) = In(b, c) /\ \A t \in In(b, c) : a[t] = b[t]
  BY DEF In
<1>2. IsOrder(OrderIn(a, c), a, c)
  BY OrderInIsOrder
<1>3. IsOrder(OrderIn(a, c), b, c)
  BY <1>1, <1>2 DEF IsOrder
<1>4. Dense(b, c)
  BY DenseIsLocal
<1> QED
  BY <1>3, <1>4, OrderIsUnique

\* The elements of the sequence are the Tasks of the Column.
LEMMA OrderHasTasks ==
  ASSUME NEW table, NEW c, Dense(table, c)
  PROVE  /\ ToSet(OrderIn(table, c)) = In(table, c)
         /\ \A t \in In(table, c) : Board!Index(OrderIn(table, c), t) = table[t].pos + 1
<1> DEFINE S == In(table, c)
           n == Cardinality(S)
           o == OrderIn(table, c)
<1>1. IsOrder(o, table, c)
  BY OrderInIsOrder
<1>2. n \in Nat /\ {table[u].pos : u \in S} = 0 .. n - 1
  BY InFinite DEF Dense
<1> HIDE DEF o
<1>3. /\ o \in Seq(Tasks) /\ Len(o) = n /\ DOMAIN o = 1 .. n
      /\ \A t \in S : o[table[t].pos + 1] = t
  BY <1>1, LenProperties DEF IsOrder
<1>4. \A t \in S : table[t].pos + 1 \in 1 .. n
  <2> TAKE t \in S
  <2>1. table[t].pos \in 0 .. n - 1
    BY <1>2
  <2> HIDE DEF n
  <2> QED
    BY <1>2, <2>1
<1>5. \A i \in 1 .. n : \E u \in S : i = table[u].pos + 1 /\ o[i] = u
  <2> TAKE i \in 1 .. n
  <2>1. i - 1 \in 0 .. n - 1
    BY <1>2
  <2>2. PICK u \in S : table[u].pos = i - 1
    BY <1>2, <2>1
  <2>3. i - 1 + 1 = i
    BY <1>2
  <2> QED
    BY <1>3, <2>2, <2>3
<1> HIDE DEF S, n
<1>6. ToSet(o) = S
  BY <1>3, <1>4, <1>5 DEF ToSet
<1>7. ASSUME NEW t \in S PROVE Board!Index(o, t) = table[t].pos + 1
  <2>1. table[t].pos + 1 \in DOMAIN o /\ o[table[t].pos + 1] = t
    BY <1>3, <1>4
  <2>2. \A i \in DOMAIN o : o[i] = t => i = table[t].pos + 1
    BY <1>3, <1>5
  <2> QED
    BY <2>1, <2>2 DEF Board!Index
<1> QED
  BY <1>6, <1>7 DEF o, S

-----------------------------------------------------------------------------
(* Taking a Task out of a Column's sequence, and putting one in.           *)

\* The sequence of Column c with t taken out, if it is there.
Left(table, t, c) ==
  IF t \in In(table, c) THEN RemoveAt(OrderIn(table, c), table[t].pos + 1) ELSE OrderIn(table, c)

\* It has the other Tasks, each at its index among them.
LEMMA LeftHasTasks ==
  ASSUME NEW table, NEW c, Dense(table, c), NEW t
  PROVE  /\ Left(table, t, c) \in Seq(Tasks)
         /\ Len(Left(table, t, c)) = Cardinality(In(table, c) \ {t})
         /\ Cardinality(In(table, c) \ {t}) \in Nat
         /\ \A u \in In(table, c) \ {t} :
              Rank(table, In(table, c) \ {t}, u) \in 0 .. Cardinality(In(table, c) \ {t}) - 1
         /\ \A u \in In(table, c) \ {t} :
              Left(table, t, c)[Rank(table, In(table, c) \ {t}, u) + 1] = u
<1> DEFINE S == In(table, c)
           n == Cardinality(S)
           o == OrderIn(table, c)
<1>1. IsOrder(o, table, c)
  BY OrderInIsOrder
<1>2. IsFiniteSet(S) /\ n \in Nat
  BY InFinite
<1>3. /\ \A u \in S : table[u].pos \in 0 .. n - 1
      /\ \A u, v \in S : table[u].pos = table[v].pos => u = v
  BY DenseIsInjective
<1> HIDE DEF o
<1>4. /\ o \in Seq(Tasks) /\ Len(o) = n
      /\ \A u \in S : o[table[u].pos + 1] = u
  BY <1>1 DEF IsOrder
<1>5. CASE t \notin S
  <2>1. S \ {t} = S /\ Left(table, t, c) = o
    BY <1>5 DEF Left, o
  <2>2. \A u \in S : Rank(table, S, u) = table[u].pos
    BY RankIsPosition
  <2>3. Cardinality(S \ {t}) = n
    BY <2>1
  <2> HIDE DEF S, n
  <2>4. \A u \in S \ {t} : Rank(table, S \ {t}, u) \in 0 .. n - 1
    BY <1>3, <2>1, <2>2
  <2>5. \A u \in S \ {t} : o[Rank(table, S \ {t}, u) + 1] = u
    BY <1>4, <2>1, <2>2
  <2> QED
    BY <1>2, <1>4, <2>1, <2>3, <2>4, <2>5 DEF S
<1>6. CASE t \in S
  <2> DEFINE k == table[t].pos + 1
  <2>1. Left(table, t, c) = RemoveAt(o, k)
    BY <1>6 DEF Left, o
  <2>2. \A u \in S \ {t} :
          Rank(table, S \ {t}, u) =
            IF table[t].pos < table[u].pos THEN table[u].pos - 1 ELSE table[u].pos
    BY <1>6, RankWithout
  <2>3. Cardinality(S \ {t}) = n - 1
    <3> HIDE DEF S
    <3> QED
      BY <1>2, <1>6, FS_RemoveElement DEF n
  <2>4. table[t].pos \in 0 .. n - 1
    BY <1>3, <1>6
  <2> HIDE DEF S, n
  <2>5. k \in 1 .. Len(o)
    BY <1>2, <1>4, <2>4
  <2> HIDE DEF k
  <2>6. /\ RemoveAt(o, k) \in Seq(Tasks)
        /\ Len(RemoveAt(o, k)) = Len(o) - 1
        /\ \A i \in 1 .. Len(o) - 1 : RemoveAt(o, k)[i] = IF i < k THEN o[i] ELSE o[i + 1]
    BY <1>4, <2>5, RemoveAtProperties
  <2>7. ASSUME NEW u \in S \ {t}
        PROVE  /\ Rank(table, S \ {t}, u) \in 0 .. n - 1 - 1
               /\ RemoveAt(o, k)[Rank(table, S \ {t}, u) + 1] = u
    <3>1. table[u].pos \in 0 .. n - 1 /\ table[u].pos # table[t].pos /\ o[table[u].pos + 1] = u
      BY <1>3, <1>4, <1>6
    <3>2. CASE table[t].pos < table[u].pos
      <4>1. Rank(table, S \ {t}, u) = table[u].pos - 1
        BY <2>2, <3>2
      <4>2. /\ table[u].pos - 1 + 1 \in 1 .. Len(o) - 1
            /\ ~(table[u].pos - 1 + 1 < k)
            /\ table[u].pos - 1 + 1 + 1 = table[u].pos + 1
            /\ table[u].pos - 1 \in 0 .. n - 1 - 1
        BY <1>2, <1>4, <2>4, <3>1, <3>2 DEF k
      <4>3. RemoveAt(o, k)[table[u].pos - 1 + 1] = o[table[u].pos - 1 + 1 + 1]
        BY <2>6, <4>2
      <4> QED
        BY <3>1, <4>1, <4>2, <4>3
    <3>3. CASE ~(table[t].pos < table[u].pos)
      <4>1. Rank(table, S \ {t}, u) = table[u].pos
        BY <2>2, <3>3
      <4>2. /\ table[u].pos + 1 \in 1 .. Len(o) - 1
            /\ table[u].pos + 1 < k
            /\ table[u].pos \in 0 .. n - 1 - 1
        BY <1>2, <1>4, <2>4, <3>1, <3>3 DEF k
      <4>3. RemoveAt(o, k)[table[u].pos + 1] = o[table[u].pos + 1]
        BY <2>6, <4>2
      <4> QED
        BY <3>1, <4>1, <4>2, <4>3
    <3> QED
      BY <3>2, <3>3
  <2>8. n - 1 \in Nat
    BY <1>2, <2>4
  <2> QED
    BY <1>4, <2>1, <2>3, <2>6, <2>7, <2>8 DEF S
<1> QED
  BY <1>5, <1>6

\* Appending is inserting at the end.
LEMMA InsertAtEnd ==
  ASSUME NEW S, NEW s \in Seq(S), NEW e \in S
  PROVE  InsertAt(s, Len(s) + 1, e) = Append(s, e)
<1> DEFINE a == InsertAt(s, Len(s) + 1, e)
           b == Append(s, e)
<1>1. Len(s) \in Nat /\ Len(s) + 1 \in 1 .. Len(s) + 1
  BY LenProperties
<1>2. /\ a \in Seq(S) /\ Len(a) = Len(s) + 1
      /\ \A i \in 1 .. Len(s) + 1 - 1 : a[i] = s[i]
      /\ a[Len(s) + 1] = e
  BY <1>1, InsertAtProperties
<1>3. /\ b \in Seq(S) /\ Len(b) = Len(s) + 1
      /\ \A i \in 1 .. Len(s) : b[i] = s[i]
      /\ b[Len(s) + 1] = e
  BY AppendProperties
<1> HIDE DEF a, b
<1>4. \A i \in 1 .. Len(a) : a[i] = b[i]
  <2> TAKE i \in 1 .. Len(a)
  <2>1. CASE i = Len(s) + 1
    BY <1>1, <1>2, <1>3, <2>1
  <2>2. CASE i # Len(s) + 1
    <3>1. i \in 1 .. Len(s) /\ i < Len(s) + 1
      BY <1>1, <1>2, <2>2
    <3> QED
      BY <1>2, <1>3, <3>1
  <2> QED
    BY <2>1, <2>2
<1>5. a = b
  BY <1>2, <1>3, <1>4, SeqEqual
<1> QED
  BY <1>5 DEF a, b

\* In new, Task t has left Column c and the others have closed the gap.
Leaves(table, new, c, t) ==
  /\ In(new, c) = In(table, c) \ {t}
  /\ \A u \in In(new, c) : new[u].pos = Rank(table, In(new, c), u)

\* In new, Task t has come to Column c at index i, or moved there within it.
Comes(table, new, c, t, i) ==
  /\ i <= Cardinality(In(table, c) \ {t})
  /\ In(new, c) = (In(table, c) \ {t}) \cup {t}
  /\ new[t].pos = i
  /\ \A u \in In(table, c) \ {t} : new[u].pos = Splice(Rank(table, In(table, c) \ {t}, u), i)

\* Leaving is taking out.
LEMMA OrderAfterLeaving ==
  ASSUME NEW table, NEW new, NEW c, NEW t, Dense(table, c), Dense(new, c),
         Leaves(table, new, c, t)
  PROVE  OrderIn(new, c) = Left(table, t, c)
<1>1. /\ Left(table, t, c) \in Seq(Tasks)
      /\ Len(Left(table, t, c)) = Cardinality(In(table, c) \ {t})
      /\ \A u \in In(table, c) \ {t} :
           Left(table, t, c)[Rank(table, In(table, c) \ {t}, u) + 1] = u
  BY LeftHasTasks
<1>2. IsOrder(Left(table, t, c), new, c)
  BY <1>1 DEF IsOrder, Leaves
<1> QED
  BY <1>2, OrderIsUnique

\* Coming is inserting in what is left.
LEMMA OrderAfterComing ==
  ASSUME NEW table, NEW new, NEW c, NEW t \in Tasks, NEW i \in Nat,
         Dense(table, c), Dense(new, c), Comes(table, new, c, t, i)
  PROVE  OrderIn(new, c) = InsertAt(Left(table, t, c), i + 1, t)
<1> DEFINE R == In(table, c) \ {t}
           n == Cardinality(R)
           s == Left(table, t, c)
           h == i + 1
           a == InsertAt(s, h, t)
<1>1. /\ s \in Seq(Tasks) /\ Len(s) = n /\ n \in Nat
      /\ \A u \in R : Rank(table, R, u) \in 0 .. n - 1
      /\ \A u \in R : s[Rank(table, R, u) + 1] = u
  BY LeftHasTasks
<1>2. IsFiniteSet(R) /\ t \notin R /\ In(new, c) = R \cup {t}
  BY InFinite, FS_Subset DEF Comes
<1>6. i <= n
  BY DEF Comes
<1> HIDE DEF s
<1>3. Cardinality(In(new, c)) = n + 1
  <2> HIDE DEF R
  <2> QED
    BY <1>2, FS_AddElement DEF n
<1>4. /\ a \in Seq(Tasks) /\ Len(a) = Len(s) + 1
      /\ \A j \in 1 .. h - 1 : a[j] = s[j]
      /\ a[h] = t
      /\ \A j \in h + 1 .. Len(s) + 1 : a[j] = s[j - 1]
  <2>1. h \in 1 .. Len(s) + 1
    BY <1>1, <1>6
  <2>2. s \in Seq(Tasks)
    BY <1>1
  <2> HIDE DEF R, n, h
  <2> QED
    BY <2>1, <2>2, InsertAtProperties
<1>5. new[t].pos = i /\ \A u \in R : new[u].pos = Splice(Rank(table, R, u), i)
  BY DEF Comes
<1> HIDE DEF R, n, a
<1>7. ASSUME NEW u \in In(new, c) PROVE a[new[u].pos + 1] = u
  <2>1. CASE u = t
    BY <1>4, <1>5, <2>1
  <2>2. CASE u # t
    <3> DEFINE k == Rank(table, R, u)
    <3>1. u \in R
      BY <1>2, <2>2
    <3>2. k \in 0 .. n - 1 /\ s[k + 1] = u /\ new[u].pos = Splice(k, i)
      BY <1>1, <1>5, <3>1
    <3> HIDE DEF k
    <3>3. CASE k >= i
      <4>1. new[u].pos = k + 1
        BY <3>2, <3>3 DEF Splice
      <4>2. k + 1 + 1 \in h + 1 .. Len(s) + 1 /\ k + 1 + 1 - 1 = k + 1
        BY <1>1, <3>2, <3>3
      <4>3. a[k + 1 + 1] = s[k + 1 + 1 - 1]
        BY <1>1, <1>4, <3>2, <4>2
      <4> QED
        BY <3>2, <4>1, <4>2, <4>3
    <3>4. CASE ~(k >= i)
      <4>1. new[u].pos = k
        BY <3>2, <3>4 DEF Splice
      <4>2. k + 1 \in 1 .. h - 1
        BY <1>1, <3>2, <3>4
      <4> QED
        BY <1>4, <3>2, <4>1, <4>2
    <3> QED
      BY <3>3, <3>4
  <2> QED
    BY <2>1, <2>2
<1>8. IsOrder(a, new, c)
  BY <1>1, <1>3, <1>4, <1>7 DEF IsOrder
<1> QED
  BY <1>8, OrderIsUnique DEF s, a

\* Coming to the end is appending.
LEMMA ComingToTheEnd ==
  ASSUME NEW table, NEW c, Dense(table, c), NEW t \in Tasks
  PROVE  InsertAt(Left(table, t, c), Cardinality(In(table, c) \ {t}) + 1, t)
           = Append(Left(table, t, c), t)
<1> DEFINE n == Cardinality(In(table, c) \ {t})
           s == Left(table, t, c)
<1>1. s \in Seq(Tasks) /\ Len(s) = n
  BY LeftHasTasks
<1> HIDE DEF n, s
<1>2. InsertAt(s, n + 1, t) = Append(s, t)
  BY <1>1, InsertAtEnd
<1> QED
  BY <1>2 DEF n, s

\* What a Task leaves depends on the Column's rows only.
LEMMA LeftIsLocal ==
  ASSUME NEW a, NEW b, NEW c, NEW t,
         \A u \in Tasks : a[u].col = c \/ b[u].col = c => a[u] = b[u],
         Dense(a, c)
  PROVE  /\ In(a, c) = In(b, c)
         /\ OrderIn(a, c) = OrderIn(b, c)
         /\ Left(a, t, c) = Left(b, t, c)
<1>1. In(a, c) = In(b, c) /\ \A u \in In(b, c) : a[u] = b[u]
  BY DEF In
<1>2. OrderIn(a, c) = OrderIn(b, c)
  BY OrderIsLocal
<1> QED
  BY <1>1, <1>2 DEF Left

-----------------------------------------------------------------------------
(* The sequences that the plans of TasksService end in.                    *)

\* repositionTask, update's append included: the Task is taken out of its
\* sequence and inserted in the other one, and no other sequence changes.
LEMMA RepositionedOrders ==
  ASSUME NEW table \in [Tasks -> Row],
         NEW t \in Tasks, table[t].col \in Columns, NEW c \in Columns,
         Dense(table, table[t].col), Dense(table, c),
         NEW i \in Nat, i <= Cardinality(In(table, c) \ {t}),
         NEW orders, orders = Repositioned(table, t, c, i),
         NEW d \in Columns, Dense(table, d)
  PROVE  OrderIn(Over(table, orders), d) =
           IF d = c THEN InsertAt(Left(table, t, c), i + 1, t) ELSE Left(table, t, d)
<1> DEFINE s == table[t].col
           A == In(table, s) \cup In(table, c)
           new == Over(table, orders)
           k(u) == Rank(table, In(table, table[u].col) \ {t}, u)
           Index(u) == IF table[u].col = c THEN Splice(k(u), i) ELSE k(u)
<1>1. orders = [u \in A |-> IF u = t THEN [col |-> c, pos |-> i]
                                     ELSE [col |-> table[u].col, pos |-> Index(u)]]
  BY DEF Repositioned
<1>2. A \subseteq Tasks /\ t \in A
  BY DEF In
<1>3. Dense(new, d)
  BY RepositionedIsDense
<1> HIDE DEF A, Index
<1>4. /\ DOMAIN orders = A
      /\ orders[t] = [col |-> c, pos |-> i]
      /\ \A u \in A \ {t} : orders[u] = [col |-> table[u].col, pos |-> Index(u)]
  BY <1>1, <1>2
<1>5. /\ new[t].col = c /\ new[t].pos = i
      /\ \A u \in A \ {t} : new[u].col = table[u].col /\ new[u].pos = Index(u)
      /\ \A u \in Tasks \ A : new[u] = table[u]
  BY <1>2, <1>4 DEF Over
<1> HIDE DEF new
<1>6. \A u \in Tasks \ {t} : new[u].col = table[u].col
  BY <1>5
<1>7. \A e : \A u \in In(table, e) : e \in {s, c} => u \in A /\ table[u].col = e
  BY DEF A, In
<1>8. CASE d = c
  <2>1. In(new, c) = (In(table, c) \ {t}) \cup {t}
    BY <1>5, <1>6 DEF In
  <2>2. \A u \in In(table, c) \ {t} : new[u].pos = Splice(Rank(table, In(table, c) \ {t}, u), i)
    BY <1>5, <1>7 DEF Index
  <2>3. Comes(table, new, c, t, i)
    BY <1>5, <2>1, <2>2 DEF Comes
  <2>4. OrderIn(new, c) = InsertAt(Left(table, t, c), i + 1, t)
    BY <1>3, <1>8, <2>3, OrderAfterComing
  <2> QED
    BY <1>8, <2>4 DEF new
<1>9. CASE d = s /\ d # c
  <2>1. In(new, s) = In(table, s) \ {t}
    BY <1>5, <1>6, <1>9 DEF In
  <2>2. \A u \in In(new, s) : u \in A \ {t} /\ table[u].col = s
    BY <1>7, <2>1
  <2>3. \A u \in In(new, s) : new[u].pos = Rank(table, In(new, s), u)
    BY <1>5, <1>9, <2>1, <2>2 DEF Index
  <2>4. Leaves(table, new, s, t)
    BY <2>1, <2>3 DEF Leaves
  <2>5. OrderIn(new, s) = Left(table, t, s)
    BY <1>3, <1>9, <2>4, OrderAfterLeaving
  <2> QED
    BY <1>9, <2>5 DEF new
<1>10. CASE d # s /\ d # c
  <2>1. \A u \in Tasks : table[u].col = d \/ new[u].col = d => table[u] = new[u]
    BY <1>5, <1>6, <1>10 DEF A, In
  <2>2. OrderIn(new, d) = OrderIn(table, d)
    BY <2>1, OrderIsLocal
  <2>3. t \notin In(table, d)
    BY <1>10 DEF In
  <2> QED
    BY <1>10, <2>2, <2>3 DEF new, Left
<1> QED
  BY <1>8, <1>9, <1>10

\* remove: the Task is taken out of its sequence.
LEMMA NormalizedOrders ==
  ASSUME NEW table \in [Tasks -> Row], NEW c \in Columns, Dense(table, c),
         NEW t \in Tasks, table[t].col = c,
         NEW left, left[t].col = None, \A u \in Tasks \ {t} : left[u] = table[u],
         NEW orders, orders = Normalized(left, c),
         NEW d \in Columns, Dense(table, d)
  PROVE  OrderIn(Over(left, orders), d) = Left(table, t, d)
<1> DEFINE S == In(table, c) \ {t}
           new == Over(left, orders)
<1>1. None \notin Columns
  BY NoneAssumption
<1>2. In(left, c) = S
  BY <1>1 DEF In
<1>3. /\ DOMAIN orders = S
      /\ \A u \in S : orders[u] = [col |-> c, pos |-> Rank(left, S, u)]
  BY <1>2 DEF Normalized
<1>4. Dense(new, c)
  <2>1. /\ left[t].col = None /\ \A u \in Tasks \ {t} : left[u] = table[u]
        /\ orders = Normalized(left, c)
    OBVIOUS
  <2>2. Dense(Over(left, orders), c)
    BY <2>1, NormalizedIsDense
  <2> QED
    BY <2>2
<1>5. S \in SUBSET Tasks /\ t \notin S /\ \A u \in S : table[u].col = c
  BY DEF In
<1>6. \A u \in Tasks : table[u].col = c => u \in S \/ u = t
  BY DEF In
<1> HIDE DEF S
<1>7. \A u \in S : Rank(left, S, u) = Rank(table, S, u)
  <2> TAKE u \in S
  <2>1. \A v \in S : left[v] = table[v]
    BY <1>5
  <2>2. {v \in S : left[v].pos < left[u].pos} = {v \in S : table[v].pos < table[u].pos}
    BY <2>1
  <2> QED
    BY <2>2 DEF Rank
<1>8. /\ \A u \in S : new[u].col = c /\ new[u].pos = Rank(table, S, u)
      /\ \A u \in Tasks \ S : new[u] = left[u]
  BY <1>3, <1>5, <1>7 DEF Over
<1> HIDE DEF new
<1>9. CASE d = c
  <2>1. In(new, c) = S
    <3>1. \A u \in Tasks \ S : new[u].col # c
      BY <1>1, <1>6, <1>8
    <3> QED
      BY <1>5, <1>8, <3>1 DEF In
  <2>2. \A u \in In(new, c) : new[u].pos = Rank(table, In(new, c), u)
    BY <1>8, <2>1
  <2>3. Leaves(table, new, c, t)
    BY <2>1, <2>2 DEF Leaves, S
  <2>4. OrderIn(new, c) = Left(table, t, c)
    BY <1>4, <2>3, OrderAfterLeaving
  <2> QED
    BY <1>9, <2>4 DEF new
<1>10. CASE d # c
  <2>1. \A u \in Tasks : table[u].col = d \/ new[u].col = d => table[u] = new[u]
    <3> TAKE u \in Tasks
    <3>1. CASE u \in S
      BY <1>5, <1>8, <1>10, <3>1
    <3>2. CASE u = t
      BY <1>1, <1>5, <1>8, <1>10, <3>2
    <3>3. CASE u \notin S /\ u # t
      BY <1>8, <3>3
    <3> QED
      BY <3>1, <3>2, <3>3
  <2>2. OrderIn(new, d) = OrderIn(table, d)
    BY <2>1, OrderIsLocal
  <2>3. t \notin In(table, d)
    BY <1>10 DEF In
  <2> QED
    BY <2>2, <2>3 DEF new, Left
<1> QED
  BY <1>9, <1>10

\* The row that create plans.
Appended(table, t, c) ==
  [u \in {t} |-> [col |-> c, pos |-> NextPosition({table[v].pos : v \in In(table, c)})]]

\* create: the Task is appended to its sequence.
LEMMA CreatedOrders ==
  ASSUME NEW table \in [Tasks -> Row], NEW t \in Tasks, table[t].col = None,
         NEW c \in Columns, Dense(table, c),
         NEW rows, rows = Appended(table, t, c),
         NEW d \in Columns, Dense(table, d)
  PROVE  OrderIn(Over(table, rows), d) =
           IF d = c THEN Append(Left(table, t, c), t) ELSE Left(table, t, d)
<1> DEFINE S == In(table, c)
           n == Cardinality(S)
           row == [col |-> c, pos |-> NextPosition({table[u].pos : u \in S})]
           new == Over(table, [u \in {t} |-> row])
<1> SUFFICES OrderIn(new, d) = IF d = c THEN Append(Left(table, t, c), t) ELSE Left(table, t, d)
  BY DEF Appended
<1>1. None \notin Columns
  BY NoneAssumption
<1>2. n \in Nat /\ {table[u].pos : u \in S} = 0 .. n - 1
  BY InFinite DEF Dense
<1>3. row.pos = n
  <2> HIDE DEF S, n
  <2> QED
    BY <1>2, NextPositionOfInterval DEF S
<1>4. Dense(new, c)
  BY <1>1, AppendIsDense
<1>5. new[t] = row /\ \A u \in Tasks \ {t} : new[u] = table[u]
  BY DEF Over
<1> HIDE DEF new
<1>6. CASE d = c
  <2>1. In(new, c) = (S \ {t}) \cup {t} /\ S \ {t} = S
    BY <1>1, <1>5 DEF In
  <2>2. \A u \in S : Rank(table, S, u) = table[u].pos /\ table[u].pos \in 0 .. n - 1
    BY RankIsPosition, DenseIsInjective
  <2>3. \A u \in S : Splice(Rank(table, S, u), n) = table[u].pos
    <3> TAKE u \in S
    <3>1. Rank(table, S, u) = table[u].pos /\ table[u].pos \in 0 .. n - 1
      BY <2>2
    <3> HIDE DEF S, n
    <3>2. ~(table[u].pos >= n)
      BY <1>2, <3>1
    <3> QED
      BY <3>1, <3>2 DEF Splice
  <2>4. \A u \in S : new[u] = table[u]
    BY <1>1, <1>5 DEF In
  <2> HIDE DEF S
  <2>5. /\ n <= Cardinality(S \ {t})
        /\ new[t].pos = n
        /\ \A u \in S \ {t} : new[u].pos = Splice(Rank(table, S \ {t}, u), n)
    <3>1. n <= Cardinality(S \ {t})
      <4>1. Cardinality(S \ {t}) = n
        BY <2>1
      <4> HIDE DEF n
      <4> QED
        BY <1>2, <4>1
    <3>2. new[t].pos = n
      BY <1>3, <1>5
    <3> HIDE DEF n
    <3>3. \A u \in S \ {t} : new[u].pos = Splice(Rank(table, S \ {t}, u), n)
      BY <2>1, <2>3, <2>4
    <3> QED
      BY <3>1, <3>2, <3>3
  <2>6. Comes(table, new, c, t, n)
    BY <2>1, <2>5 DEF Comes, S
  <2>7. OrderIn(new, c) = InsertAt(Left(table, t, c), n + 1, t)
    <3> HIDE DEF n
    <3> QED
      BY <1>2, <1>4, <2>6, OrderAfterComing
  <2>8. InsertAt(Left(table, t, c), Cardinality(S \ {t}) + 1, t) = Append(Left(table, t, c), t)
    BY ComingToTheEnd DEF S
  <2>9. OrderIn(new, c) = Append(Left(table, t, c), t)
    BY <2>1, <2>7, <2>8
  <2> QED
    BY <1>6, <2>9
<1>7. CASE d # c
  <2>1. \A u \in Tasks : table[u].col = d \/ new[u].col = d => table[u] = new[u]
    BY <1>1, <1>5, <1>7
  <2>2. OrderIn(new, d) = OrderIn(table, d)
    BY <2>1, OrderIsLocal
  <2>3. t \notin In(table, d)
    BY <1>1 DEF In
  <2> QED
    BY <1>7, <2>2, <2>3 DEF Left
<1> QED
  BY <1>6, <1>7

-----------------------------------------------------------------------------
(* The promises of the open requests.                                      *)

\* What a request wants the sequence of Column d to be, given the table that it
\* takes effect on.
Wanted(table, request, d) ==
  IF d # request.col \/ request.kind = "remove"
  THEN Left(table, request.task, d)
  ELSE IF request.kind = "move"
       THEN InsertAt(Left(table, request.task, d), request.idx + 1, request.task)
       ELSE Append(Left(table, request.task, d), request.task)

\* It can have that.
Allowed(table, request) ==
  /\ request.kind # "create" => table[request.task].col # None
  /\ request.kind = "update" => table[request.task].col # request.col
  /\ request.kind = "move" => request.idx <= Cardinality(In(table, request.col) \ {request.task})
  /\ request.kind # "remove" => ProjectOf[request.col] = request.proj

\* From its read to its commit, what r is going to leave is what it was asked
\* for, of the table as it is committed at that moment.
Promised(r) ==
  Locked(r) /\ pc[r] # "read" =>
    /\ Allowed(task, op[r])
    /\ \A d \in Columns :
         ProjectOf[d] = op[r].proj => OrderIn(Post(r), d) = Wanted(task, op[r], d)

EInv == \A r \in Requests : Promised(r)

\* What is wanted of a Column depends on the Column's rows only.
LEMMA WantedIsLocal ==
  ASSUME NEW a, NEW b, NEW request, NEW d,
         \A u \in Tasks : a[u].col = d \/ b[u].col = d => a[u] = b[u],
         Dense(a, d)
  PROVE  Wanted(a, request, d) = Wanted(b, request, d)
<1>1. Left(a, request.task, d) = Left(b, request.task, d)
  BY LeftIsLocal
<1> QED
  BY <1>1 DEF Wanted

\* The others keep their promises.
LEMMA OthersKeepPromises ==
  ASSUME IInv, IInv', EInv, NEW q \in Requests, StepOf(q), NEW r \in Requests \ {q}
  PROVE  Promised(r)'
<1>1. /\ pc'[r] = pc[r] /\ op'[r] = op[r]
      /\ work'[r] = work[r] /\ plan'[r] = plan[r] /\ todo'[r] = todo[r]
  BY StepApart
<1>2. Locked(r)' = Locked(r)
  BY <1>1 DEF Locked
<1> SUFFICES ASSUME Locked(r), pc[r] # "read"
             PROVE  /\ Allowed(task', op[r])
                    /\ \A d \in Columns :
                         ProjectOf[d] = op[r].proj => OrderIn(Post(r)', d) = Wanted(task', op[r], d)
  BY <1>1, <1>2 DEF Promised
<1>3. /\ RequestInv(r) /\ DensePositions /\ TableInv /\ task \in [Tasks -> Row]
      /\ Allowed(task, op[r])
      /\ \A d \in Columns :
           ProjectOf[d] = op[r].proj => OrderIn(Post(r), d) = Wanted(task, op[r], d)
  BY DEF IInv, TypeOK, EInv, Promised
<1>4. /\ op[r].task \in Tasks /\ op[r].col \in Columns /\ home[op[r].task] = op[r].proj
  BY <1>3 DEF RequestInv, Shape, Locked
<1>5. Undisturbed(op[r].proj)
  BY StepUndisturbs
<1>6. \A d \in Columns : ProjectOf[d] = op[r].proj =>
        /\ Dense(task, d)
        /\ \A u \in Tasks : task[u].col = d \/ task'[u].col = d => task[u] = task'[u]
  BY <1>3, <1>5 DEF DensePositions, Undisturbed
<1>7. Allowed(task', op[r])
  <2>1. op[r].kind # "create" => task'[op[r].task] = task[op[r].task]
    <3> SUFFICES ASSUME op[r].kind # "create" PROVE task'[op[r].task] = task[op[r].task]
      OBVIOUS
    <3>1. task[op[r].task].col \in Columns /\ ProjectOf[task[op[r].task].col] = op[r].proj
      BY <1>3, <1>4 DEF Allowed, TableInv, Row
    <3> QED
      BY <1>4, <1>6, <3>1
  <2>2. op[r].kind = "move" => In(task', op[r].col) = In(task, op[r].col)
    <3> SUFFICES ASSUME op[r].kind = "move" PROVE In(task', op[r].col) = In(task, op[r].col)
      OBVIOUS
    <3>1. ProjectOf[op[r].col] = op[r].proj
      BY <1>3 DEF Allowed
    <3> QED
      BY <1>4, <1>6, <3>1 DEF In
  <2> QED
    BY <1>3, <2>1, <2>2 DEF Allowed
<1>8. ASSUME NEW d \in Columns, ProjectOf[d] = op[r].proj
      PROVE  OrderIn(Post(r)', d) = Wanted(task', op[r], d)
  <2>1. Dense(Post(r), d)
    BY <1>3, <1>8 DEF RequestInv, Planned
  <2>2. \A t \in Tasks : Post(r)[t].col = d \/ Post(r)'[t].col = d => Post(r)[t] = Post(r)'[t]
    <3> TAKE t \in Tasks
    <3>1. CASE t \in DOMAIN plan[r]
      BY <1>1, <3>1 DEF Post, Over
    <3>2. CASE t \notin DOMAIN plan[r] /\ t \in DOMAIN work[r]
      BY <1>1, <3>2 DEF Post, Over, Seen
    <3>3. CASE t \notin DOMAIN plan[r] /\ t \notin DOMAIN work[r]
      <4>1. Post(r)[t] = task[t] /\ Post(r)'[t] = task'[t]
        BY <1>1, <3>3 DEF Post, Over, Seen
      <4> QED
        BY <1>6, <1>8, <4>1
    <3> QED
      BY <3>1, <3>2, <3>3
  <2>3. OrderIn(Post(r), d) = OrderIn(Post(r)', d)
    BY <2>1, <2>2, OrderIsLocal
  <2>4. Wanted(task, op[r], d) = Wanted(task', op[r], d)
    BY <1>6, <1>8, WantedIsLocal
  <2> QED
    BY <1>3, <1>8, <2>3, <2>4
<1> QED
  BY <1>7, <1>8

\* A request that is not past its read has promised nothing.
LEMMA NoPromise ==
  ASSUME NEW q \in Requests,
         pc'[q] \notin {"shift", "place", "commit"} \/ op'[q].kind \notin TaskKinds
  PROVE  Promised(q)'
BY DEF Promised, Locked

\* Nor has one that has ended.
LEMMA EndPromises ==
  ASSUME IInv, NEW q \in Requests, End(q)
  PROVE  Promised(q)'
<1>1. pc'[q] = "idle"
  BY DEF End, Goto, IInv, TypeOK
<1> QED
  BY <1>1, NoPromise

\* The writes carry out the plan, and change nothing about where it ends.
LEMMA WritePromises ==
  ASSUME IInv, EInv, NEW q \in Requests, NEW t \in Tasks, Shift(q, t) \/ Place(q, t)
  PROVE  Promised(q)'
<1>1. RequestsTyped /\ RequestInv(q) /\ Promised(q)
  BY DEF IInv, TypeOK, RequestsTyped, EInv
<1>2. CASE Rollback(q)
  BY <1>2, EndPromises DEF Rollback
<1>3. CASE ~Rollback(q)
  <2>1. PICK row :
          /\ pc[q] \in {"shift", "place"} /\ t \in todo[q] /\ WriteRow(q, t, row)
          /\ UNCHANGED <<task, op, plan>>
    BY <1>3 DEF Shift, Place, NextToPlace
  <2>2. t \in DOMAIN plan[q] /\ Locked(q)
    BY <1>1, <2>1 DEF RequestsTyped, RequestInv, Shape, Locked
  <2>3. /\ DOMAIN work'[q] = DOMAIN work[q] \cup {t}
        /\ \A u \in DOMAIN work[q] \ {t} : work'[q][u] = work[q][u]
    BY <1>1, <2>1 DEF WriteRow, RequestsTyped
  <2>4. \A u \in Tasks \ DOMAIN plan[q] : Seen(q)'[u] = Seen(q)[u]
    BY <2>1, <2>2, <2>3 DEF Seen
  <2>5. Post(q)' = Post(q)
    BY <2>1, <2>4 DEF Post, Over
  <2> QED
    BY <1>1, <2>1, <2>2, <2>5 DEF Promised
<1> QED
  BY <1>2, <1>3

-----------------------------------------------------------------------------
(* How the reads make the promises.                                        *)

\* The read of create promises to append the Task.
LEMMA CreatePromises ==
  ASSUME IInv, NEW q \in Requests, ReadForCreate(q)
  PROVE  Promised(q)'
<1> DEFINE t == op[q].task
           c == op[q].col
           rows == Appended(task, t, c)
<1>1. CASE ~ColumnInProject(q)
  BY <1>1, EndPromises DEF ReadForCreate, Rollback
<1>2. CASE ColumnInProject(q)
  <2>1. /\ pc[q] = "read" /\ op[q].kind = "create" /\ Write(q, rows, "place")
        /\ task' = task /\ op' = op /\ work' = work
    BY <1>2 DEF ReadForCreate, Appended
  <2>2. RequestInv(q) /\ RequestsTyped /\ task \in [Tasks -> Row] /\ DensePositions
    BY DEF IInv, TypeOK, RequestsTyped
  <2>3. /\ t \in Tasks /\ c \in Columns /\ task[t].col = None /\ work[q] = Empty
        /\ ProjectOf[c] = op[q].proj
    BY <1>2, <2>1, <2>2 DEF RequestInv, Shape, OwnRows, Locked, TaskKinds, ColumnInProject
  <2>4. Seen(q)' = task
    BY <2>1, <2>2, <2>3 DEF Seen, Empty
  <2>5. plan'[q] = rows
    BY <2>1, <2>2 DEF Write, RequestsTyped
  <2>6. Post(q)' = Over(task, rows)
    BY <2>4, <2>5 DEF Post
  <2>7. rows = Appended(task, t, c)
    OBVIOUS
  <2> HIDE DEF t, c, rows
  <2>8. ASSUME NEW d \in Columns
        PROVE  OrderIn(Over(task, rows), d) =
                 IF d = c THEN Append(Left(task, t, c), t) ELSE Left(task, t, d)
    <3>1. Dense(task, c) /\ Dense(task, d)
      BY <2>2, <2>3 DEF DensePositions
    <3> QED
      BY <2>2, <2>3, <2>7, <3>1, CreatedOrders
  <2>9. \A d \in Columns : OrderIn(Post(q)', d) = Wanted(task', op'[q], d)
    BY <2>1, <2>6, <2>8 DEF Wanted, t, c
  <2>10. Allowed(task', op'[q])
    BY <2>1, <2>3 DEF Allowed, t, c
  <2> QED
    BY <2>9, <2>10 DEF Promised
<1> QED
  BY <1>1, <1>2

\* Those of update and move, to put it at the end or at the index.
LEMMA RepositionPromises ==
  ASSUME IInv, NEW q \in Requests, ReadForReposition(q)
  PROVE  Promised(q)'
<1> DEFINE t == op[q].task
           c == op[q].col
           index == IF op[q].kind = "update" THEN Cardinality(In(task, c)) ELSE op[q].idx
           orders == Repositioned(task, t, c, index)
           Refused == \/ task[t].col = None
                      \/ ~ColumnInProject(q)
                      \/ task[t].col = c /\ op[q].kind = "update"
                      \/ \E u \in DOMAIN orders : home[u] # op[q].proj
                      \/ index > Cardinality(In(task, c) \ {t})
                      \/ task[t].col = c /\ index = Rank(task, In(task, c), t)
<1>1. CASE Refused
  BY <1>1, EndPromises DEF ReadForReposition, Rollback
<1>2. CASE ~Refused
  <2>1. /\ pc[q] = "read" /\ op[q].kind \in {"update", "move"} /\ Write(q, orders, "shift")
        /\ task' = task /\ op' = op /\ work' = work
    BY <1>2 DEF ReadForReposition
  <2>2. /\ RequestInv(q) /\ RequestsTyped /\ task \in [Tasks -> Row] /\ op[q] \in Op
        /\ DensePositions
    BY DEF IInv, TypeOK, RequestsTyped
  <2>3. t \in Tasks /\ c \in Columns /\ work[q] = Empty
    BY <2>1, <2>2 DEF RequestInv, Shape, OwnRows, Locked, TaskKinds
  <2>4. ProjectOf[c] = op[q].proj /\ task[t].col \in Columns /\ task[t].col # None
    BY <1>2, <2>2, <2>3 DEF ColumnInProject, Row
  <2>5. op[q].kind = "update" => task[t].col # c
    BY <1>2
  <2>6. ~(index > Cardinality(In(task, c) \ {t}))
    BY <1>2
  <2>7. op[q].kind = "update" => index = Cardinality(In(task, c) \ {t})
    <3>1. task[t].col # c => In(task, c) \ {t} = In(task, c)
      BY DEF In
    <3> QED
      BY <2>5, <3>1
  <2>8. op[q].kind = "move" => index = op[q].idx
    OBVIOUS
  <2>9. orders = Repositioned(task, t, c, index)
    OBVIOUS
  <2>10. plan'[q] = orders
    BY <2>1, <2>2 DEF Write, RequestsTyped
  <2> HIDE DEF t, c, index, orders, Refused
  <2>11. Cardinality(In(task, c) \ {t}) \in Nat
    BY <2>2, <2>3, LeftHasTasks DEF DensePositions
  <2>12. index \in Nat /\ index <= Cardinality(In(task, c) \ {t})
    <3>1. op[q].idx \in Nat
      BY <2>2 DEF Op
    <3>2. index \in Nat
      BY <2>1, <2>7, <2>8, <2>11, <3>1
    <3> QED
      BY <2>6, <2>11, <3>2
  <2>13. Seen(q)' = task
    BY <2>1, <2>2, <2>3 DEF Seen, Empty
  <2>14. Post(q)' = Over(task, orders)
    BY <2>10, <2>13 DEF Post
  <2>15. ASSUME NEW d \in Columns
         PROVE  OrderIn(Over(task, orders), d) =
                  IF d = c THEN InsertAt(Left(task, t, c), index + 1, t) ELSE Left(task, t, d)
    <3>1. Dense(task, task[t].col) /\ Dense(task, c) /\ Dense(task, d)
      BY <2>2, <2>3, <2>4 DEF DensePositions
    <3> QED
      BY <2>2, <2>3, <2>4, <2>9, <2>12, <3>1, RepositionedOrders
  <2>16. op[q].kind = "update" =>
           InsertAt(Left(task, t, c), index + 1, t) = Append(Left(task, t, c), t)
    <3>1. Dense(task, c)
      BY <2>2, <2>3 DEF DensePositions
    <3> QED
      BY <2>3, <2>7, <3>1, ComingToTheEnd
  <2>17. \A d \in Columns : OrderIn(Post(q)', d) = Wanted(task', op'[q], d)
    BY <2>1, <2>8, <2>14, <2>15, <2>16 DEF Wanted, t, c
  <2>18. Allowed(task', op'[q])
    BY <2>1, <2>4, <2>5, <2>8, <2>12 DEF Allowed, t, c
  <2> QED
    BY <2>17, <2>18 DEF Promised
<1> QED
  BY <1>1, <1>2

\* And that of remove to take it out, whether there is a gap to close or not.
LEMMA RemovePromises ==
  ASSUME IInv, NEW q \in Requests, ReadForRemove(q)
  PROVE  Promised(q)'
<1> DEFINE t == op[q].task
           c == task[t].col
           left == [task EXCEPT ![t] = NoRow]
           orders == Normalized(left, c)
           NoGap == \A u \in DOMAIN orders : orders[u].pos = task[u].pos
           rows == IF NoGap THEN Empty ELSE orders
           Refused == c = None \/ \E u \in DOMAIN orders : home[u] # op[q].proj
<1>1. CASE Refused
  BY <1>1, EndPromises DEF ReadForRemove, Rollback
<1>2. CASE ~Refused
  <2>1. /\ pc[q] = "read" /\ op[q].kind = "remove"
        /\ WriteRow(q, t, NoRow)
        /\ plan' = [plan EXCEPT ![q] = rows]
        /\ task' = task /\ op' = op
    BY <1>2 DEF ReadForRemove, Write
  <2>2. RequestInv(q) /\ RequestsTyped /\ task \in [Tasks -> Row] /\ DensePositions
    BY DEF IInv, TypeOK, RequestsTyped
  <2>3. t \in Tasks /\ work[q] = Empty
    BY <2>1, <2>2 DEF RequestInv, Shape, OwnRows, Locked, TaskKinds
  <2>4. c \in Columns /\ c # None
    BY <1>2, <2>2, <2>3 DEF Row
  <2>5. /\ left[t].col = None
        /\ \A u \in Tasks \ {t} : left[u] = task[u]
        /\ left = [u \in Tasks |-> IF u = t THEN NoRow ELSE task[u]]
    BY <2>2, <2>3 DEF NoRow
  <2>6. plan'[q] = rows
    BY <2>1, <2>2 DEF RequestsTyped
  <2>7. work'[q] = [u \in {t} |-> NoRow]
    BY <2>1, <2>2, <2>3 DEF WriteRow, RequestsTyped, Empty
  <2>8. Seen(q)' = left
    BY <2>1, <2>5, <2>7 DEF Seen
  <2>9. Post(q)' = Over(left, rows)
    BY <2>6, <2>8 DEF Post
  <2>10. /\ DOMAIN orders = In(left, c)
         /\ \A u \in In(left, c) : orders[u] = [col |-> c, pos |-> orders[u].pos]
    BY DEF Normalized
  <2>11. \A u \in In(left, c) : u \in Tasks /\ left[u].col = c
    BY DEF In
  <2>12. /\ NoGap => rows = Empty
         /\ ~NoGap => rows = orders
         /\ NoGap => \A u \in DOMAIN orders : orders[u].pos = task[u].pos
    OBVIOUS
  <2>13. task[t].col = c /\ orders = Normalized(left, c)
    OBVIOUS
  <2> HIDE DEF t, c, left, orders, NoGap, rows, Refused
  <2>14. Over(left, rows) = Over(left, orders)
    <3>1. CASE NoGap
      <4>1. ASSUME NEW u \in DOMAIN orders PROVE orders[u] = left[u]
        <5>1. u \in Tasks \ {t} /\ left[u].col = c
          BY <2>4, <2>5, <2>10, <2>11
        <5>2. left[u] = task[u] /\ task[u] \in Row
          BY <2>2, <2>5, <5>1
        <5>3. orders[u] = [col |-> c, pos |-> task[u].pos]
          BY <2>10, <2>12, <3>1
        <5> QED
          BY <5>1, <5>2, <5>3 DEF Row
      <4>2. \A u \in Tasks :
              (IF u \in DOMAIN orders THEN orders[u] ELSE left[u]) = left[u]
        BY <4>1
      <4> QED
        BY <2>12, <3>1, <4>2 DEF Over, Empty
    <3>2. CASE ~NoGap
      BY <2>12, <3>2
    <3> QED
      BY <3>1, <3>2
  <2>15. ASSUME NEW d \in Columns
         PROVE  OrderIn(Over(left, orders), d) = Left(task, t, d)
    <3>1. Dense(task, c) /\ Dense(task, d)
      BY <2>2, <2>4 DEF DensePositions
    <3> QED
      BY <2>2, <2>3, <2>4, <2>5, <2>13, <3>1, NormalizedOrders
  <2>16. \A d \in Columns : OrderIn(Post(q)', d) = Wanted(task', op'[q], d)
    BY <2>1, <2>9, <2>14, <2>15 DEF Wanted, t
  <2>17. Allowed(task', op'[q])
    BY <2>1, <2>4, <2>13 DEF Allowed, t
  <2> QED
    BY <2>16, <2>17 DEF Promised
<1> QED
  BY <1>1, <1>2

\* So every step keeps the promises.
LEMMA NextPromises == IInv /\ IInv' /\ EInv /\ [Next]_vars => EInv'
<1> SUFFICES ASSUME IInv, IInv', EInv, [Next]_vars PROVE EInv'
  OBVIOUS
<1>1. ASSUME NEW q \in Requests, StepOf(q) PROVE EInv'
  <2>1. pc \in [Requests -> PCs] /\ op \in [Requests -> Op]
    BY DEF IInv, TypeOK
  <2>2. Promised(q)'
    <3>1. CASE StartCreate(q) \/ StartChange(q) \/ StartColumnChange(q)
      <4>1. pc'[q] \in {"lockProject", "lockBoard", "lockColumn"}
        BY <2>1, <3>1 DEF StartCreate, StartChange, StartColumnChange, Start, Goto
      <4> QED
        BY <4>1, NoPromise
    <3>2. CASE Fail(q) \/ Commit(q)
      BY <3>2, EndPromises DEF Fail, Rollback, Commit
    <3>3. CASE LockProject(q) \/ LockBoard(q)
      <4>1. pc'[q] \in {"read", "insertColumn"}
        BY <2>1, <3>3 DEF LockProject, LockBoard, Goto
      <4> QED
        BY <4>1, NoPromise
    <3>4. CASE InsertColumn(q) \/ LockColumn(q) \/ DropColumn(q)
      <4>1. Rollback(q) \/ op' = op
        BY <3>4 DEF InsertColumn, LockColumn, DropColumn
      <4>2. op[q].kind \notin TaskKinds
        BY <3>4 DEF InsertColumn, LockColumn, DropColumn, IInv, RequestInv, Shape
      <4> QED
        BY <4>1, <4>2, NoPromise, EndPromises DEF Rollback
    <3>5. CASE ReadForCreate(q) \/ ReadForReposition(q) \/ ReadForRemove(q)
      BY <3>5, CreatePromises, RepositionPromises, RemovePromises
    <3>6. CASE \E t \in Tasks : Shift(q, t) \/ Place(q, t)
      BY <3>6, WritePromises
    <3> QED
      BY <1>1, <3>1, <3>2, <3>3, <3>4, <3>5, <3>6 DEF StepOf, Step
  <2>3. \A r \in Requests \ {q} : Promised(r)'
    BY <1>1, OthersKeepPromises
  <2> QED
    BY <2>2, <2>3 DEF EInv
<1>2. CASE UNCHANGED vars
  <2>1. task' = task /\ pc' = pc /\ op' = op /\ work' = work /\ plan' = plan
    BY <1>2 DEF vars
  <2> QED
    BY <2>1 DEF EInv, Promised, Locked, Post, Seen
<1> QED
  BY <1>1, <1>2 DEF Next, StepOf, ReadOnly

\* Every reachable state satisfies the invariant of the promises: what a request
\* is going to leave is what it was asked for, of the table as it is by then.
THEOREM PromisesInvariance == Spec => []EInv
<1>1. Init => EInv
  BY DEF Init, EInv, Promised, Locked
<1>2. IInv /\ IInv' /\ EInv /\ [Next]_vars => EInv'
  BY NextPromises
<1> QED
  BY <1>1, <1>2, Invariance, PTL DEF Spec

-----------------------------------------------------------------------------
(* The steps of OrderedBoard.                                              *)

\* A request asks nothing any more once it is answered.
Rested == \A r \in Requests : pc[r] = "idle" => op[r] = NoOp

\* Only the answer makes a request idle again, and it clears what was asked.
LEMMA NextRested == IInv /\ Rested /\ [Next]_vars => Rested'
<1> SUFFICES ASSUME IInv, Rested, [Next]_vars PROVE Rested'
  OBVIOUS
<1>1. pc \in [Requests -> PCs] /\ op \in [Requests -> Op]
  BY DEF IInv, TypeOK
<1>2. ASSUME NEW q \in Requests, StepOf(q) PROVE Rested'
  <2>1. End(q) \/ (pc'[q] # "idle")
    <3>1. CASE StartCreate(q) \/ StartChange(q) \/ StartColumnChange(q)
      BY <1>1, <3>1 DEF StartCreate, StartChange, StartColumnChange, Start, Goto
    <3>2. CASE Fail(q) \/ Commit(q)
      BY <3>2 DEF Fail, Rollback, Commit
    <3>3. CASE LockProject(q) \/ LockBoard(q)
      BY <1>1, <3>3 DEF LockProject, LockBoard, Goto
    <3>4. CASE InsertColumn(q) \/ LockColumn(q) \/ DropColumn(q)
      BY <1>1, <3>4 DEF InsertColumn, LockColumn, DropColumn, Goto, Rollback
    <3>5. CASE ReadForCreate(q) \/ ReadForReposition(q) \/ ReadForRemove(q)
      BY <1>1, <3>5 DEF ReadForCreate, ReadForReposition, ReadForRemove, Write, Goto, Rollback
    <3>6. CASE \E t \in Tasks : Shift(q, t) \/ Place(q, t)
      BY <1>1, <3>6 DEF Shift, Place, NextToPlace, Goto, Rollback
    <3> QED
      BY <1>2, <3>1, <3>2, <3>3, <3>4, <3>5, <3>6 DEF StepOf, Step
  <2>2. End(q) => op'[q] = NoOp
    BY <1>1 DEF End
  <2>3. \A r \in Requests \ {q} : pc'[r] = pc[r] /\ op'[r] = op[r]
    BY <1>2, StepApart
  <2> QED
    BY <2>1, <2>2, <2>3 DEF Rested
<1>3. CASE UNCHANGED vars
  BY <1>3 DEF vars, Rested
<1> QED
  BY <1>2, <1>3 DEF Next, StepOf, ReadOnly

\* Every reachable state has the idle requests ask nothing.
THEOREM RestedInvariance == Spec => []Rested
<1>1. Init => Rested
  BY DEF Init, Rested
<1> QED
  BY <1>1, NextRested, Invariance, PTL DEF Spec

\* A request that has been answered, and one on Columns, asks nothing of the Tasks.
LEMMA AsksNothing ==
  ASSUME NEW r, op[r].kind \notin TaskKinds
  PROVE  AskedOf(r) = Board!Nothing
BY DEF AskedOf, Board!Nothing

\* A request on Tasks does ask something.
LEMMA AsksSomething ==
  ASSUME NEW r, op[r].kind \in TaskKinds
  PROVE  AskedOf(r) # Board!Nothing
BY NoneAssumption DEF AskedOf, Board!Nothing, TaskKinds, Kinds

\* A step that keeps the committed Tasks and what is asked is none of the board's.
LEMMA QuietStutter ==
  ASSUME NEW q \in Requests, task' = task, \A r \in Requests : AskedOf(r)' = AskedOf(r)
  PROVE  UNCHANGED Board!vars
BY DEF Board!vars

\* A request on Tasks is asked when it starts.
LEMMA StartAsks ==
  ASSUME IInv, Rested, NEW q \in Requests, StepOf(q), StartCreate(q) \/ StartChange(q)
  PROVE  Board!Ask(q)
<1>1. op \in [Requests -> Op] /\ pc \in [Requests -> PCs]
  BY DEF IInv, TypeOK
<1>2. /\ pc[q] = "idle" /\ task' = task
      /\ \E request \in [kind : TaskKinds, task : Tasks, proj : Projects \cup {None}, col : Columns, idx : Nat] :
           op'[q] = request
  <2>1. CASE StartCreate(q)
    <3>1. PICK t \in Tasks, p \in Projects, c \in Columns :
            Start(q, "lockProject", [NoOp EXCEPT !.kind = "create", !.task = t, !.proj = p, !.col = c])
      BY <2>1 DEF StartCreate
    <3>2. op'[q] = [kind |-> "create", task |-> t, proj |-> p, col |-> c, idx |-> 0]
      BY <1>1, <3>1 DEF Start, NoOp
    <3>3. pc[q] = "idle" /\ task' = task
      BY <3>1 DEF Start
    <3> QED
      BY <3>2, <3>3 DEF TaskKinds
  <2>2. CASE StartChange(q)
    <3>1. PICK t \in Tasks, kind \in {"update", "move", "remove"} :
            /\ task[t].col # None
            /\ \E c \in IF kind = "remove" THEN {task[t].col} ELSE Columns,
                  i \in IF kind = "move" THEN 0 .. Cardinality(Tasks) ELSE {0} :
                 Start(q, "lockProject",
                       [kind |-> kind, task |-> t, proj |-> home[t], col |-> c, idx |-> i])
      BY <2>2 DEF StartChange
    <3>2. PICK c \in IF kind = "remove" THEN {task[t].col} ELSE Columns,
               i \in IF kind = "move" THEN 0 .. Cardinality(Tasks) ELSE {0} :
            Start(q, "lockProject",
                  [kind |-> kind, task |-> t, proj |-> home[t], col |-> c, idx |-> i])
      BY <3>1
    <3>3. op'[q] = [kind |-> kind, task |-> t, proj |-> home[t], col |-> c, idx |-> i]
      BY <1>1, <3>2 DEF Start
    <3>4. pc[q] = "idle" /\ task' = task
      BY <3>2 DEF Start
    <3>5. c \in Columns
      BY <3>1, <3>2 DEF IInv, TypeOK, Row
    <3>6. i \in Nat
      BY <3>2
    <3>7. home[t] \in Projects \cup {None}
      BY DEF IInv, TypeOK
    <3> QED
      BY <3>3, <3>4, <3>5, <3>6, <3>7 DEF TaskKinds
  <2> QED
    BY <2>1, <2>2
<1>3. AskedOf(q) = Board!Nothing
  <2>1. op[q] = NoOp
    BY <1>2 DEF Rested
  <2>2. op[q].kind \notin TaskKinds
    BY <2>1, NoneAssumption DEF NoOp, TaskKinds, Kinds
  <2> QED
    BY <2>2, AsksNothing
<1>4. AskedOf(q)' \in Board!Questions
  BY <1>2 DEF AskedOf, Board!Questions, TaskKinds
<1>5. \A r \in Requests \ {q} : AskedOf(r)' = AskedOf(r)
  BY StepApart DEF AskedOf
<1> QED
  BY <1>2, <1>3, <1>4, <1>5 DEF Board!Ask

\* A request that asks nothing any more has been answered.
LEMMA Answered ==
  ASSUME NEW q \in Requests, AskedOf(q) # Board!Nothing, AskedOf(q)' = Board!Nothing,
         \A r \in Requests \ {q} : AskedOf(r)' = AskedOf(r)
  PROVE  Board!Answer(q)
<1> DEFINE asked == [r \in Requests |-> AskedOf(r)]
<1>1. asked[q] # Board!Nothing
  OBVIOUS
<1>2. asked' = [asked EXCEPT ![q] = Board!Nothing]
  <2>1. \A r \in Requests : asked'[r] = IF r = q THEN Board!Nothing ELSE asked[r]
    OBVIOUS
  <2> QED
    BY <2>1
<1> QED
  BY <1>1, <1>2 DEF Board!Answer

\* It is refused when it fails; the requests on Columns are none of the board's.
LEMMA RollbackRefuses ==
  ASSUME IInv, NEW q \in Requests, StepOf(q), End(q), task' = task
  PROVE  Board!Refuse(q) \/ UNCHANGED Board!vars
<1>1. op'[q].kind \notin TaskKinds
  BY EndKeeps
<1>2. AskedOf(q)' = Board!Nothing
  BY <1>1 DEF AskedOf, Board!Nothing
<1>3. \A r \in Requests \ {q} : AskedOf(r)' = AskedOf(r)
  BY StepApart DEF AskedOf
<1>4. CASE op[q].kind \in TaskKinds
  <2>1. AskedOf(q) # Board!Nothing
    BY <1>4, AsksSomething
  <2> QED
    BY <1>2, <1>3, <2>1, Answered DEF Board!Refuse
<1>5. CASE op[q].kind \notin TaskKinds
  <2>1. AskedOf(q) = Board!Nothing
    BY <1>5, AsksNothing
  <2> QED
    BY <1>2, <1>3, <2>1, QuietStutter
<1> QED
  BY <1>4, <1>5

\* What commits is what is wanted, and no other project's board changes.
LEMMA CommitDelivers ==
  ASSUME IInv, IInv', EInv, NEW q \in Requests, Commit(q), op[q].kind \in TaskKinds,
         NEW d \in Columns
  PROVE  OrderIn(task', d) = Wanted(task, op[q], d)
<1>1. /\ RequestsTyped /\ RequestInv(q) /\ Promised(q) /\ Dense(task, d)
      /\ TableInv /\ TableInv' /\ DensePositions
  BY DEF IInv, TypeOK, RequestsTyped, EInv, DensePositions
<1>2. pc[q] = "commit" /\ Locked(q) /\ task' = Seen(q) /\ home' = home
  BY DEF Commit, Locked
<1>3. /\ op[q].task \in Tasks /\ op[q].col \in Columns /\ home[op[q].task] = op[q].proj
      /\ op[q].proj \in Projects
  BY <1>1 DEF RequestInv, Shape
<1>4. CASE ProjectOf[d] = op[q].proj
  <2>1. \A t \in DOMAIN plan[q] : t \in DOMAIN work[q] /\ work[q][t] = plan[q][t]
    BY <1>1, <1>2 DEF RequestInv, Planned
  <2>2. \A t \in Tasks : Post(q)[t] = task'[t]
    BY <1>2, <2>1 DEF Post, Over, Seen
  <2>3. Dense(Post(q), d) /\ OrderIn(Post(q), d) = Wanted(task, op[q], d)
    BY <1>1, <1>2, <1>4 DEF RequestInv, Planned, Promised
  <2>4. OrderIn(Post(q), d) = OrderIn(task', d)
    BY <2>2, <2>3, OrderIsLocal
  <2> QED
    BY <2>3, <2>4
<1>5. CASE ProjectOf[d] # op[q].proj
  <2>1. None \notin Columns
    BY NoneAssumption
  <2>2. \A t \in Tasks : task[t].col = d \/ task'[t].col = d => task[t] = task'[t]
    <3> SUFFICES ASSUME NEW t \in Tasks, task[t].col = d \/ task'[t].col = d
                 PROVE  task[t] = task'[t]
      OBVIOUS
    <3>1. home[t] = ProjectOf[d]
      BY <1>1, <1>2, <2>1 DEF TableInv
    <3>2. t \notin DOMAIN work[q]
      BY <1>1, <1>5, <3>1 DEF RequestInv, OwnRows
    <3> QED
      BY <1>2, <3>2 DEF Seen
  <2>3. OrderIn(task, d) = OrderIn(task', d)
    BY <1>1, <2>2, OrderIsLocal
  <2>4. op[q].task \notin In(task, d)
    BY <1>1, <1>3, <1>5, <2>1 DEF TableInv, In
  <2>5. d # op[q].col \/ op[q].kind = "remove"
    BY <1>1, <1>2, <1>5 DEF Promised, Allowed
  <2> QED
    BY <2>3, <2>4, <2>5 DEF Wanted, Left
<1> QED
  BY <1>4, <1>5

\* The operators on sequences are the same on both sides.
LEMMA SameSequences ==
  /\ \A s : Board!ToSet(s) = ToSet(s)
  /\ \A s, k : Board!RemoveAt(s, k) = RemoveAt(s, k)
  /\ \A s, k, e : Board!InsertAt(s, k, e) = InsertAt(s, k, e)
<1>1. \A s : Board!ToSet(s) = ToSet(s)
  BY DEF ToSet, Board!ToSet
<1>2. \A s, k : Board!RemoveAt(s, k) = RemoveAt(s, k)
  BY DEF RemoveAt, Board!RemoveAt
<1>3. \A s, k, e : Board!InsertAt(s, k, e) = InsertAt(s, k, e)
  BY DEF InsertAt, Board!InsertAt
<1> QED
  BY <1>1, <1>2, <1>3

\* The abstract board, seen through the sequences of the Tasks.
LEMMA BoardOfTasks ==
  ASSUME DensePositions, NEW t
  PROVE  /\ t \in Board!Placed <=> \E d \in Columns : t \in In(task, d)
         /\ Board!Without(t) = [d \in Columns |-> Left(task, t, d)]
<1> DEFINE order == [d \in Columns |-> OrderIn(task, d)]
<1>1. ASSUME NEW d \in Columns
      PROVE  /\ ToSet(OrderIn(task, d)) = In(task, d)
             /\ t \in In(task, d) => Board!Index(OrderIn(task, d), t) = task[t].pos + 1
  BY OrderHasTasks DEF DensePositions
<1>2. t \in Board!Placed <=> \E d \in Columns : t \in ToSet(order[d])
  <2>1. Board!Placed = UNION {Board!ToSet(order[d]) : d \in Columns}
    BY DEF Board!Placed
  <2> HIDE DEF order
  <2> QED
    BY <2>1, SameSequences
<1>3. ASSUME NEW d \in Columns
      PROVE  (IF t \in ToSet(order[d])
              THEN RemoveAt(order[d], Board!Index(order[d], t)) ELSE order[d]) = Left(task, t, d)
  <2>1. order[d] = OrderIn(task, d)
    OBVIOUS
  <2> HIDE DEF order
  <2> QED
    BY <1>1, <2>1 DEF Left
<1>4. Board!Without(t) = [d \in Columns |-> Left(task, t, d)]
  <2>1. Board!Without(t) =
          [d \in Columns |->
             IF t \in Board!ToSet(order[d])
             THEN Board!RemoveAt(order[d], Board!Index(order[d], t)) ELSE order[d]]
    BY DEF Board!Without
  <2> HIDE DEF order
  <2>2. \A d \in Columns :
          (IF t \in Board!ToSet(order[d])
           THEN Board!RemoveAt(order[d], Board!Index(order[d], t)) ELSE order[d]) = Left(task, t, d)
    BY <1>3, SameSequences
  <2> QED
    BY <2>1, <2>2
<1> QED
  BY <1>1, <1>2, <1>4

\* A request on Tasks takes effect when it commits.
LEMMA CommitTakesEffect ==
  ASSUME IInv, IInv', EInv, NEW q \in Requests, Commit(q), op[q].kind \in TaskKinds
  PROVE  Board!TakeEffect(q)
<1> DEFINE t == op[q].task
           c == op[q].col
           i == op[q].idx
           order == [d \in Columns |-> OrderIn(task, d)]
           next == [d \in Columns |-> OrderIn(task', d)]
<1>1. /\ RequestsTyped /\ RequestInv(q) /\ Promised(q) /\ TableInv /\ DensePositions
      /\ task \in [Tasks -> Row]
  BY DEF IInv, TypeOK, RequestsTyped, EInv
<1>2. StepOf(q) /\ pc[q] = "commit" /\ Locked(q)
  BY DEF Commit, Locked, StepOf, Step
<1>3. Allowed(task, op[q])
  BY <1>1, <1>2 DEF Promised
<1>4. t \in Tasks /\ c \in Columns
  BY <1>1 DEF RequestInv, Shape
<1>5. AskedOf(q) = [kind |-> op[q].kind, task |-> t, col |-> c, idx |-> i]
  BY DEF AskedOf
<1>6. Board!Answer(q)
  <2>1. op'[q].kind \notin TaskKinds
    BY EndKeeps DEF Commit
  <2>2. AskedOf(q)' = Board!Nothing
    BY <2>1 DEF AskedOf, Board!Nothing
  <2>3. \A r \in Requests \ {q} : AskedOf(r)' = AskedOf(r)
    BY <1>2, StepApart DEF AskedOf
  <2>4. AskedOf(q) # Board!Nothing
    BY AsksSomething
  <2> QED
    BY <2>2, <2>3, <2>4, Answered
<1>7. /\ t \in Board!Placed <=> \E d \in Columns : t \in In(task, d)
      /\ Board!Without(t) = [d \in Columns |-> Left(task, t, d)]
  BY <1>1, BoardOfTasks
<1>8. \A d \in Columns : OrderIn(task', d) = Wanted(task, op[q], d)
  BY CommitDelivers
<1>9. CASE op[q].kind = "create"
  <2>1. task[t].col = None
    BY <1>1, <1>9 DEF RequestInv, Shape
  <2>2. \A d \in Columns : t \notin In(task, d)
    BY <2>1, NoneAssumption DEF In
  <2>3. t \notin Board!Placed
    BY <1>7, <2>2
  <2>4. next = [order EXCEPT ![c] = Append(@, t)]
    BY <1>4, <1>8, <1>9, <2>2 DEF Wanted, Left
  <2>5. Board!CreateTask(q, t, c)
    BY <1>5, <1>9, <2>3, <2>4 DEF Board!CreateTask
  <2> QED
    BY <1>5, <1>6, <2>5 DEF Board!TakeEffect
<1>10. ASSUME op[q].kind # "create" PROVE t \in Board!Placed
  <2>1. task[t].col \in Columns
    BY <1>1, <1>3, <1>4, <1>10 DEF Allowed, Row
  <2>2. t \in In(task, task[t].col)
    BY <1>4 DEF In
  <2> QED
    BY <1>7, <2>1, <2>2
<1>11. CASE op[q].kind = "update"
  <2>1. t \notin ToSet(OrderIn(task, c))
    <3>1. Dense(task, c)
      BY <1>1, <1>4 DEF DensePositions
    <3>2. t \notin In(task, c)
      BY <1>3, <1>11 DEF Allowed, In
    <3> QED
      BY <3>1, <3>2, OrderHasTasks
  <2>2. next = [[d \in Columns |-> Left(task, t, d)] EXCEPT ![c] = Append(@, t)]
    BY <1>4, <1>8, <1>11 DEF Wanted
  <2>3. next = [Board!Without(t) EXCEPT ![c] = Append(@, t)]
    BY <1>7, <2>2
  <2>4. t \notin Board!ToSet(order[c])
    BY <1>4, <2>1, SameSequences
  <2>5. Board!UpdateColumn(q, t, c)
    BY <1>5, <1>10, <1>11, <2>3, <2>4 DEF Board!UpdateColumn
  <2> QED
    BY <1>5, <1>6, <2>5 DEF Board!TakeEffect
<1>12. CASE op[q].kind = "move"
  <2>1. i <= Len(Left(task, t, c))
    <3>1. Dense(task, c)
      BY <1>1, <1>4 DEF DensePositions
    <3>2. Len(Left(task, t, c)) = Cardinality(In(task, c) \ {t})
      BY <3>1, LeftHasTasks
    <3> QED
      BY <1>3, <1>12, <3>2 DEF Allowed
  <2>2. next = [[d \in Columns |-> Left(task, t, d)] EXCEPT ![c] = InsertAt(@, i + 1, t)]
    BY <1>4, <1>8, <1>12 DEF Wanted
  <2>3. next = [Board!Without(t) EXCEPT ![c] = Board!InsertAt(@, i + 1, t)]
    BY <1>7, <2>2, SameSequences
  <2>4. i <= Len(Board!Without(t)[c])
    BY <1>4, <1>7, <2>1
  <2>5. Board!MoveTask(q, t, c, i)
    BY <1>5, <1>10, <1>12, <2>3, <2>4 DEF Board!MoveTask
  <2> QED
    BY <1>5, <1>6, <2>5 DEF Board!TakeEffect
<1>13. CASE op[q].kind = "remove"
  <2>1. next = [d \in Columns |-> Left(task, t, d)]
    BY <1>8, <1>13 DEF Wanted
  <2>2. Board!RemoveTask(q, t)
    BY <1>5, <1>7, <1>10, <1>13, <2>1 DEF Board!RemoveTask
  <2> QED
    BY <1>5, <1>6, <2>2 DEF Board!TakeEffect
<1> QED
  BY <1>9, <1>11, <1>12, <1>13 DEF TaskKinds

\* Every step is one of the abstract board, or changes nothing there.
LEMMA NextImplements ==
  IInv /\ IInv' /\ EInv /\ Rested /\ [Next]_vars => [Board!Next]_Board!vars
<1> SUFFICES ASSUME IInv, IInv', EInv, Rested, [Next]_vars
             PROVE  Board!Next \/ UNCHANGED Board!vars
  OBVIOUS
<1>1. ASSUME NEW q \in Requests, StepOf(q) PROVE Board!Next \/ UNCHANGED Board!vars
  <2>1. op \in [Requests -> Op] /\ pc \in [Requests -> PCs] /\ RequestInv(q)
    BY DEF IInv, TypeOK
  <2>2. \A r \in Requests \ {q} : AskedOf(r)' = AskedOf(r)
    BY <1>1, StepApart DEF AskedOf
  <2>3. CASE StartCreate(q) \/ StartChange(q)
    BY <1>1, <2>3, StartAsks DEF Board!Next
  <2>4. CASE End(q) /\ task' = task
    BY <1>1, <2>4, RollbackRefuses DEF Board!Next
  <2>5. CASE Commit(q) /\ op[q].kind \in TaskKinds
    BY <2>5, CommitTakesEffect DEF Board!Next
  <2>6. CASE Commit(q) /\ op[q].kind \notin TaskKinds
    <3>1. work[q] = Empty
      BY <2>1, <2>6 DEF RequestInv, OwnRows, Locked
    <3>2. task' = task
      <4>1. task' = [t \in Tasks |-> task[t]]
        BY <2>6, <3>1 DEF Commit, Seen, Empty
      <4> QED
        BY <4>1 DEF IInv, TypeOK
    <3> QED
      BY <1>1, <2>6, <3>2, RollbackRefuses DEF Commit, Board!Next
  <2>7. CASE StartColumnChange(q) \/ LockBoard(q)
    <3>1. op[q].kind \notin TaskKinds
      <4>1. CASE StartColumnChange(q)
        <5>1. op[q] = NoOp
          BY <4>1 DEF StartColumnChange, Start, Rested
        <5> QED
          BY <5>1, NoneAssumption DEF NoOp, TaskKinds, Kinds
      <4>2. CASE LockBoard(q)
        BY <2>1, <4>2 DEF LockBoard, RequestInv, Shape
      <4> QED
        BY <2>7, <4>1, <4>2
    <3>2. op'[q].kind \notin TaskKinds
      <4>1. CASE StartColumnChange(q)
        BY <2>1, <4>1 DEF StartColumnChange, Start, NoOp, TaskKinds
      <4>2. CASE LockBoard(q)
        BY <2>1, <3>1, <4>2 DEF LockBoard
      <4> QED
        BY <2>7, <4>1, <4>2
    <3>3. AskedOf(q)' = AskedOf(q)
      BY <3>1, <3>2 DEF AskedOf
    <3>4. task' = task
      BY <2>7 DEF StartColumnChange, Start, LockBoard
    <3> QED
      BY <2>2, <3>3, <3>4, QuietStutter
  <2>8. CASE task' = task /\ op' = op
    BY <2>8, QuietStutter DEF AskedOf
  <2>9. \/ StartCreate(q) \/ StartChange(q) \/ StartColumnChange(q) \/ LockBoard(q) \/ Commit(q)
        \/ End(q) /\ task' = task
        \/ task' = task /\ op' = op
    <3>1. Rollback(q) => End(q) /\ task' = task
      BY DEF Rollback
    <3>2. CASE Fail(q) \/ LockProject(q) \/ InsertColumn(q) \/ LockColumn(q) \/ DropColumn(q)
      BY <3>1, <3>2 DEF Fail, LockProject, InsertColumn, LockColumn, DropColumn
    <3>3. CASE ReadForCreate(q) \/ ReadForReposition(q) \/ ReadForRemove(q)
      BY <3>1, <3>3 DEF ReadForCreate, ReadForReposition, ReadForRemove
    <3>4. CASE \E t \in Tasks : Shift(q, t) \/ Place(q, t)
      BY <3>1, <3>4 DEF Shift, Place
    <3> QED
      BY <1>1, <3>2, <3>3, <3>4 DEF StepOf, Step
  <2> QED
    BY <2>3, <2>4, <2>5, <2>6, <2>7, <2>8, <2>9
<1>2. CASE UNCHANGED vars
  <2>1. task' = task /\ op' = op
    BY <1>2 DEF vars
  <2> QED
    BY <2>1 DEF Board!vars, AskedOf
<1> QED
  BY <1>1, <1>2 DEF Next, StepOf, ReadOnly

\* The board starts empty.
LEMMA InitImplements == Init => Board!Init
<1> SUFFICES ASSUME Init PROVE Board!Init
  OBVIOUS
<1>1. None \notin Columns
  BY NoneAssumption
<1>2. ASSUME NEW d \in Columns PROVE OrderIn(task, d) = <<>>
  <2>1. In(task, d) = {}
    BY <1>1 DEF Init, In, NoRow
  <2>2. Cardinality(In(task, d)) = 0
    BY <2>1, FS_EmptySet
  <2> QED
    BY <2>2 DEF OrderIn
<1>3. ASSUME NEW r \in Requests PROVE AskedOf(r) = Board!Nothing
  <2>1. op[r].kind \notin TaskKinds
    BY NoneAssumption DEF Init, NoOp, TaskKinds, Kinds
  <2> QED
    BY <2>1, AsksNothing
<1> QED
  BY <1>2, <1>3 DEF Board!Init

\* The transactions implement the board of sequences: each request on Tasks takes
\* the effect it asked for in one step, when it commits, or none.
THEOREM BoardImplementsOrder == Spec => ImplementsOrderedBoard
<1>1. Init => Board!Init
  BY InitImplements
<1>2. IInv /\ IInv' /\ EInv /\ Rested /\ [Next]_vars => [Board!Next]_Board!vars
  BY NextImplements
<1> QED
  BY <1>1, <1>2, Invariance, PromisesInvariance, RestedInvariance, PTL
     DEF Spec, ImplementsOrderedBoard, Board!Spec
=============================================================================
