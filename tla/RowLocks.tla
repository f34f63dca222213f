------------------------------ MODULE RowLocks ------------------------------
(***************************************************************************)
(* The row locks of PostgreSQL that the services rely on: SELECT ... FOR   *)
(* UPDATE (also taken by DELETE and by an UPDATE of a column of a unique   *)
(* index), and the FOR KEY SHARE lock that a foreign key check takes on    *)
(* the referenced row.  FOR UPDATE conflicts with both, KEY SHARE only     *)
(* with FOR UPDATE, and every lock is held until the transaction ends.     *)
(*                                                                         *)
(* The database is not under src/: the locks are modelled from the way the *)
(* services' transactions use them.                                        *)
(***************************************************************************)
CONSTANT None            \* no transaction, no row

VARIABLES
  holder,                \* holder[x]: the transaction that has x FOR UPDATE
  sharers                \* sharers[x]: the transactions with KEY SHARE on x

locks == <<holder, sharers>>

LocksTypeOK(Rows, Txns) ==
  /\ holder \in [Rows -> Txns \cup {None}]
  /\ sharers \in [Rows -> SUBSET Txns]

LocksInit(Rows) ==
  /\ holder = [x \in Rows |-> None]
  /\ sharers = [x \in Rows |-> {}]

-----------------------------------------------------------------------------
CanForUpdate(txn, x) == holder[x] \in {None, txn} /\ sharers[x] \subseteq {txn}

CanKeyShare(txn, x) == holder[x] \in {None, txn}

\* txn has every row of X FOR UPDATE from now on.
ForUpdate(txn, X) ==
  /\ \A x \in X : CanForUpdate(txn, x)
  /\ holder' = [x \in DOMAIN holder |-> IF x \in X THEN txn ELSE holder[x]]

\* The foreign key checks of one statement, on the referenced rows X.
KeyShare(txn, X) ==
  /\ \A x \in X : CanKeyShare(txn, x)
  /\ sharers' = [x \in DOMAIN sharers |->
                   IF x \in X THEN sharers[x] \cup {txn} ELSE sharers[x]]

\* COMMIT and ROLLBACK.
ReleaseLocks(txn) ==
  /\ holder' = [x \in DOMAIN holder |->
                  IF holder[x] = txn THEN None ELSE holder[x]]
  /\ sharers' = [x \in DOMAIN sharers |-> sharers[x] \ {txn}]

\* A transaction that has a row FOR UPDATE shares it with nobody.
LockExclusion ==
  \A x \in DOMAIN holder : holder[x] # None => sharers[x] \subseteq {holder[x]}
=============================================================================
