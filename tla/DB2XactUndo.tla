---------------------------- MODULE DB2XactUndo ----------------------------
(***************************************************************************)
(* The other half of the inductive invariant: what a connection holds is   *)
(* no more than what is owed, so that nothing that was rolled back becomes *)
(* durable.  Unlike CommittedIsDurable this needs assumptions on what may  *)
(* fail; the runs v_rollback_to and v_dml_flag show that it does.          *)
(***************************************************************************)
EXTENDS DB2XactInv

\* Nothing ends a unit of work, or leaves a connection without one, behind
\* PostgreSQL's back; ROLLBACK TO SAVEPOINT works where there is a savepoint.
KeepsUow ==
  /\ Faults \cap {"deadlock", "autocommit", "rollbackto"} = {}
  /\ "truncate" \notin Ops

\* The session uses one server with one user and token.
OneKey == \A k, l \in Keys : k = l

\* xact_level 0 means no unit of work; outside a transaction nothing is owed.
RestInv ==
  /\ \A c \in Conn : level[c] = 0 => pending[c] = {} /\ ~uow[c]
  /\ phase = "idle" => owed = {}

\* A connection that exists has autocommit off and its callbacks.
LiveInv ==
  \A c \in Conn : link[c] \in {"open", "broken"} =>
    ~autocommit[c] /\ c \in RangeOf(callbacks)

\* A statement that writes has savepoints up to the current level.
StmtInv ==
  stmt # <<>> => /\ stmt[1] \in Ops
                 /\ stmt[1] \in Writers => level[stmt[2]] = nest

\* A connection holds nothing that is not owed.  For each level of the
\* transaction it either has a savepoint that holds no more than what was
\* owed when the level started, or nothing was written since.
HeldInv ==
  \A c \in RangeOf(connlist) : link[c] = "open" =>
    /\ phase \in {"run", "precommit"} => pending[c] \subseteq owed
    /\ phase \in {"run", "error", "subabort"} =>
         \A n \in 2..nest :
           IF n <= level[c] THEN n \in sp[c] /\ saved[c][n] \subseteq owedAt[n]
                            ELSE pending[c] \subseteq owedAt[n]

\* The writes of a connection are its own and not yet durable; no write has
\* a number that is still to come.
Fresh(c, ws) == \A w \in ws : w[1] = c /\ w[2] <= nw /\ w \notin durable
FreshInv ==
  /\ \A c \in Conn : Fresh(c, pending[c])
  /\ \A c \in Conn : \A n \in sp[c] : Fresh(c, saved[c][n])
  /\ \A w \in durable \cup owed : w[2] <= nw

\* The transaction can go on.
Going == phase = "run" \/ (phase \in {"error", "subabort"} /\ nest > 1)

\* Nothing that is owed is durable before the commit.
OwedInv == Going => owed \cap durable = {}

\* dml_in_transaction is set from the first write to the end.
DmlInv == Going /\ owed # {} => dml

\* With one key the cache holds the one connection that exists.
OneInv ==
  /\ \A c \in RangeOf(connlist) : key[c] \in Keys
  /\ \A c, d \in RangeOf(connlist) : c = d
  /\ \A c \in Conn : link[c] \in {"open", "broken"} => c \in RangeOf(connlist)

\* IInv with what holds whatever fails, and with what KeepsUow adds.
RInv == IInv /\ RestInv
UndoInv == StmtInv /\ HeldInv /\ FreshInv /\ OwedInv
UInv == RInv /\ LiveInv /\ UndoInv
=============================================================================
