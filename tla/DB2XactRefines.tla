--------------------------- MODULE DB2XactRefines ---------------------------
(***************************************************************************)
(* DB2Xact with one server implements NestedXact: DB2 sees the nested      *)
(* transactions of PostgreSQL, although db2_fdw sets a savepoint only when *)
(* a level first uses the connection, never releases one, and reuses names.*)
(***************************************************************************)
EXTENDS DB2Xact, TLC

EntrySymmetry == Permutations(Conn)

Live == {c \in Conn : link[c] = "open"}

\* DB2's unit of work.
UowWork == UNION {pending[c] : c \in Live}

\* The nesting DB2 is at.  The outermost level ends when the unit of work
\* does, a subtransaction when no connection has its savepoint level left.
UowDepth ==
  CASE phase \in {"idle", "commit", "exit"} -> 0
    [] phase \in {"precommit", "abort"} \/ (phase = "error" /\ nest = 1) ->
         IF \E c \in Live : uow[c] THEN 1 ELSE 0
    [] phase = "subabort" ->
         IF \E c \in Live : level[c] >= nest THEN nest ELSE nest - 1
    [] OTHER -> nest

\* Where a level without a savepoint began: nothing was done since.
UowBase ==
  [n \in Levels |->
     IF n \notin 2..UowDepth THEN {}
     ELSE IF \E c \in Live : level[c] >= n
            THEN UNION {saved[c][n] : c \in {d \in Live : level[d] >= n}}
            ELSE UowWork]

Remote == INSTANCE NestedXact WITH
  Work <- Writes, MaxDepth <- MaxNest,
  depth <- UowDepth, work <- UowWork, base <- UowBase, done <- durable

\* The remote side follows the local transaction: every step of the backend
\* is a step of a properly nested transaction in DB2, or none.
RemoteFollowsLocal == Remote!NSpec
=============================================================================
