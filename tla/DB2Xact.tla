------------------------------ MODULE DB2Xact ------------------------------
(***************************************************************************)
(* The connection cache and the transaction control of db2_fdw.            *)
(*                                                                         *)
(* One PostgreSQL backend keeps at most one DB2 environment, a list of     *)
(* cached connections and, per connection, the counter xact_level.         *)
(* PostgreSQL drives it through foreign statements (each starts with       *)
(* db2GetSession) and through the transaction callbacks registered per     *)
(* connection.  DB2 keeps a unit of work and named savepoints for each     *)
(* connection.  A write is <<c, i>>: the i-th write of the session, made   *)
(* on connection c.                                                        *)
(*                                                                         *)
(* PostgreSQL (nest, phase, todo, owed, owedAt, committed) and DB2         *)
(* (pending, sp, saved, uow, durable) are external; everything else is     *)
(* state of the foreign data wrapper.                                      *)
(***************************************************************************)
EXTENDS Naturals, Sequences, FiniteSets

CONSTANTS Keys,       \* (dbserver, user, jwt_token) triples the session uses
          NoKey,      \* no triple: the entry is not in use
          Conn,       \* DB2ConnEntry objects the session may allocate
          MaxNest,    \* deepest PostgreSQL transaction nesting level
          MaxWrites,  \* writes in one session
          Faults,     \* which DB2 or PostgreSQL calls may fail
          Ops         \* which operations the session uses

AllFaults == {"connect", "autocommit", "savepoint", "stmt", "deadlock",
              "commit", "ackloss", "rollbackto", "commlost", "local"}
AllStmts  == {"read", "dml", "direct", "truncate", "diag", "import"}
Writers   == {"dml", "direct", "truncate"}
AllOps    == AllStmts \cup {"close", "prepare"}

ASSUME ConstAssumption ==
  /\ NoKey \notin Keys
  /\ MaxNest \in Nat \ {0}
  /\ MaxWrites \in Nat
  /\ Faults \subseteq AllFaults
  /\ Ops \subseteq AllOps

VARIABLES
  \* PostgreSQL
  nest,       \* GetCurrentTransactionNestLevel(), 0 outside a transaction
  phase,      \* what the backend is doing
  todo,       \* connections whose callback for the current event is due
  owed,       \* writes of the live subtransactions of this transaction
  owedAt,     \* owed when level n started
  committed,  \* writes of locally committed transactions
  nw,         \* writes made so far
  stmt,       \* <<kind, c>>: a statement has its session on c; <<>>: none
  \* db2_fdw
  rootenv,    \* rootenvEntry # NULL
  sqlInit,    \* sql_initialized
  strayDbc,   \* an hdbc of the environment that the walk does not reach
  connlist,   \* entries reachable from rootenvEntry->connlist through ->right
  key,        \* srvname, uid and jwt_token of an entry
  level,      \* xact_level of an entry
  callbacks,  \* entries with registered callbacks, last registered first
  dml,        \* dml_in_transaction
  \* DB2, per connection
  link,       \* state of the hdbc
  autocommit, \* SQL_ATTR_AUTOCOMMIT
  uow,        \* a unit of work is in progress
  pending,    \* uncommitted writes
  sp,         \* savepoints s<n> that exist
  saved,      \* pending when s<n> was set
  durable     \* committed in DB2

pgVars    == <<nest, phase, todo, owed, owedAt, committed, nw, stmt>>
cacheVars == <<rootenv, sqlInit, strayDbc, connlist, key, callbacks, link, autocommit>>
spVars    == <<level, sp, saved>>
workVars  == <<dml, uow, pending, durable>>
vars      == <<pgVars, cacheVars, spVars, workVars>>

Levels  == 1..MaxNest
Writes  == Conn \X (1..MaxWrites)
Phases  == {"idle", "run", "error", "subabort", "precommit", "commit", "abort", "exit"}
RangeOf(s) == {s[i] : i \in DOMAIN s}
On(c, ws) == {w \in ws : w[1] = c}

TypeOK ==
  /\ nest \in 0..MaxNest
  /\ phase \in Phases
  /\ todo \in Seq(Conn)
  /\ owed \subseteq Writes
  /\ owedAt \in [Levels -> SUBSET Writes]
  /\ committed \subseteq Writes
  /\ nw \in 0..MaxWrites
  /\ stmt \in {<<>>} \cup (AllStmts \X Conn)
  /\ rootenv \in BOOLEAN /\ sqlInit \in BOOLEAN /\ strayDbc \in BOOLEAN
  /\ connlist \in Seq(Conn)
  /\ key \in [Conn -> Keys \cup {NoKey}]
  /\ level \in [Conn -> 0..MaxNest]
  /\ callbacks \in Seq(Conn)
  /\ dml \in BOOLEAN
  /\ link \in [Conn -> {"none", "open", "broken", "closed"}]
  /\ autocommit \in [Conn -> BOOLEAN]
  /\ uow \in [Conn -> BOOLEAN]
  /\ pending \in [Conn -> SUBSET Writes]
  /\ sp \in [Conn -> SUBSET Levels]
  /\ saved \in [Conn -> [Levels -> SUBSET Writes]]
  /\ durable \subseteq Writes

Init ==
  /\ nest = 0 /\ phase = "idle" /\ todo = <<>>
  /\ owed = {} /\ owedAt = [n \in Levels |-> {}] /\ committed = {} /\ nw = 0 /\ stmt = <<>>
  /\ rootenv = FALSE /\ sqlInit = FALSE /\ strayDbc = FALSE
  /\ connlist = <<>> /\ callbacks = <<>> /\ dml = FALSE
  /\ key = [c \in Conn |-> NoKey]
  /\ level = [c \in Conn |-> 0]
  /\ link = [c \in Conn |-> "none"]
  /\ autocommit = [c \in Conn |-> TRUE]
  /\ uow = [c \in Conn |-> FALSE]
  /\ pending = [c \in Conn |-> {}]
  /\ sp = [c \in Conn |-> {}]
  /\ saved = [c \in Conn |-> [n \in Levels |-> {}]]
  /\ durable = {}

----------------------------------------------------------------------------
(* The connection cache.                                                   *)

\* Mutant: the comparison of the three names never succeeds.
NeverFound(k) == {}

\* findconnEntry: an entry of the walk from connlist through ->right.
findconnEntry(k) == {c \in RangeOf(connlist) : key[c] = k}

\* insertconnEntry hangs the new entry behind the last one; its caller then
\* makes connlist point to that new entry, so every later walk starts there.
insertconnEntry(list, c) == Append(list, c)
WalkFrom(list, c) ==
  LET i == CHOOSE j \in DOMAIN list : list[j] = c
  IN  SubSeq(list, i, Len(list))

\* A new entry for k enters the cache (and the environment, if there is none).
CacheEntry(k, c) ==
  /\ findconnEntry(k) = {} /\ link[c] = "none"
  /\ rootenv' = TRUE /\ sqlInit' = TRUE
  /\ connlist' = WalkFrom(insertconnEntry(connlist, c), c)
  /\ strayDbc' = (strayDbc \/ \E d \in RangeOf(connlist) : d \notin RangeOf(connlist'))
  /\ key' = [key EXCEPT ![c] = k]
  /\ link' = [link EXCEPT ![c] = "open"]

\* Mutant: the callbacks are not registered for the new connection.
AllocWithoutCallback(k, c) ==
  \/ /\ c \in findconnEntry(k)
     /\ UNCHANGED cacheVars
  \/ /\ CacheEntry(k, c)
     /\ autocommit' = [autocommit EXCEPT ![c] = FALSE]
     /\ UNCHANGED callbacks

\* c is the cached connection for k, or a new one with autocommit off and
\* its callbacks registered.
db2AllocConnHdl(k, c) ==
  \/ /\ c \in findconnEntry(k)
     /\ UNCHANGED cacheVars
  \/ /\ CacheEntry(k, c)
     /\ autocommit' = [autocommit EXCEPT ![c] = FALSE]
     /\ callbacks' = <<c>> \o callbacks

\* No environment handle, or one that cannot be set to ODBC 3.
EnvFails ==
  /\ "connect" \in Faults /\ ~rootenv
  /\ sqlInit' \in {sqlInit, TRUE}
  /\ UNCHANGED <<rootenv, strayDbc, connlist, key, link>>

\* The connection is refused; its hdbc is not freed.
ConnectFails ==
  /\ "connect" \in Faults
  /\ rootenv' = TRUE /\ sqlInit' = TRUE /\ strayDbc' = TRUE
  /\ UNCHANGED <<connlist, key, link>>

\* Autocommit cannot be switched off: the entry is cached already, and no
\* callback is registered for it.
AutocommitFails(k) ==
  /\ "autocommit" \in Faults
  /\ \E c \in Conn : CacheEntry(k, c)

AllocFails(k) ==
  /\ findconnEntry(k) = {}
  /\ EnvFails \/ ConnectFails \/ AutocommitFails(k)
  /\ UNCHANGED <<callbacks, autocommit>>

\* Mutant: one savepoint for the current level, none for those it skips.
OnlyTopSavepoint(c, from, to) ==
  /\ level' = [level EXCEPT ![c] = to]
  /\ sp' = [sp EXCEPT ![c] = IF from < to THEN @ \cup {to} ELSE @]
  /\ saved' = [saved EXCEPT ![c][to] = IF from < to THEN pending[c] ELSE @]
  /\ uow' = [uow EXCEPT ![c] = @ \/ from < to]

\* db2SetSavepoint: savepoints for the levels above from, up to to.  Under
\* autocommit a savepoint does not outlive its own statement.
db2SetSavepoint(c, from, to) ==
  /\ level' = [level EXCEPT ![c] = to]
  /\ sp' = [sp EXCEPT ![c] = IF autocommit'[c] THEN @ ELSE @ \cup ((from + 1)..to)]
  /\ saved' = [saved EXCEPT ![c] =
                 [n \in Levels |-> IF n \in (from + 1)..to THEN pending[c] ELSE @[n]]]
  /\ uow' = [uow EXCEPT ![c] = @ \/ (from < to /\ ~autocommit'[c])]

\* xact_level once db2GetSession has seen it; the level a caller asks for;
\* xact_level when its savepoints are set.
StartLevel(c)  == IF level[c] <= 0 THEN 1 ELSE level[c]
CurLevel(kind) == IF kind \in {"diag", "import"} THEN 1 ELSE nest
\* Mutant: one level too many.
EndLevelPlusOne(c, kind) == IF StartLevel(c) < CurLevel(kind) THEN CurLevel(kind) + 1 ELSE StartLevel(c)
EndLevel(c, kind) == IF StartLevel(c) < CurLevel(kind) THEN CurLevel(kind) ELSE StartLevel(c)

\* A statement may start; one that writes has a write left (MaxWrites).
CanStart(kind) ==
  /\ phase = "run" /\ stmt = <<>> /\ kind \in Ops
  /\ kind \in Writers => nw < MaxWrites

\* A statement of this kind gets its session.
db2GetSession(kind, k) ==
  /\ CanStart(kind)
  /\ \E c \in Conn :
       /\ db2AllocConnHdl(k, c)
       /\ db2SetSavepoint(c, StartLevel(c), EndLevel(c, kind))
       /\ link[c] = "broken" => EndLevel(c, kind) = StartLevel(c)
       /\ stmt' = <<kind, c>>
  /\ UNCHANGED <<nest, phase, todo, owed, owedAt, committed, nw, dml, pending, durable>>

\* It gets an ERROR instead: no connection, or a savepoint that cannot be
\* set after some that could.
GetSessionError(kind, k) ==
  /\ CanStart(kind)
  /\ phase' = "error"
  /\ \/ /\ AllocFails(k)
        /\ UNCHANGED <<spVars, uow>>
     \/ \E c \in Conn : \E to \in StartLevel(c)..(EndLevel(c, kind) - 1) :
          /\ "savepoint" \in Faults \/ link[c] = "broken"
          /\ link[c] = "broken" => to = StartLevel(c)
          /\ db2AllocConnHdl(k, c)
          /\ db2SetSavepoint(c, StartLevel(c), to)
  /\ UNCHANGED <<nest, todo, owed, owedAt, committed, nw, stmt, dml, pending, durable>>

----------------------------------------------------------------------------
(* Statements: the connection is stmt[2].                                  *)

Running(kinds) == phase = "run" /\ stmt # <<>> /\ stmt[1] \in kinds

\* DB2 executes the statement on c, with the writes new.
Execute(c, new) ==
  /\ link[c] = "open"
  /\ uow' = [uow EXCEPT ![c] = ~autocommit[c]]
  /\ pending' = [pending EXCEPT ![c] = IF autocommit[c] THEN @ ELSE @ \cup new]
  /\ durable' = IF autocommit[c] THEN durable \cup new ELSE durable
  /\ UNCHANGED <<sp, level, saved>>

\* The statement fails: DB2 undoes it, or it worked and the caller rejects
\* its row count, or the connection is gone.
ExecuteFails(c, new) ==
  \/ "stmt" \in Faults /\ \E done \in {{}, new} : Execute(c, done)
  \/ link[c] = "broken" /\ UNCHANGED <<spVars, uow, pending, durable>>

\* SQLCODE -911, or a commit before TRUNCATE that fails: DB2 has rolled back
\* the unit of work, savepoints included, and the statement with it.
Deadlock(c) ==
  /\ "deadlock" \in Faults
  /\ link[c] = "open" /\ ~autocommit[c]
  /\ pending' = [pending EXCEPT ![c] = {}]
  /\ uow' = [uow EXCEPT ![c] = FALSE]
  /\ sp' = [sp EXCEPT ![c] = {}]
  /\ UNCHANGED <<level, saved, durable>>

\* A scan, or the catalog queries of IMPORT FOREIGN SCHEMA.
Read ==
  /\ Running({"read", "import"})
  /\ Execute(stmt[2], {})
  /\ stmt' = <<>>
  /\ UNCHANGED <<nest, phase, todo, owed, owedAt, committed, nw, dml, cacheVars>>

\* db2_diag asks the driver, not the server.
db2_diag ==
  /\ Running({"diag"})
  /\ stmt' = <<>>
  /\ UNCHANGED <<nest, phase, todo, owed, owedAt, committed, nw>>
  /\ UNCHANGED <<cacheVars, spVars, workVars>>

\* The write of the current statement.
NewWrite == <<stmt[2], nw + 1>>

\* Mutant: dml_in_transaction is not set.
InsertForgetsDml ==
  /\ Running({"dml"})
  /\ Execute(stmt[2], {NewWrite})
  /\ owed' = owed \cup {NewWrite}
  /\ nw' = nw + 1
  /\ stmt' = <<>>
  /\ UNCHANGED <<nest, phase, todo, owedAt, committed, dml, cacheVars>>

\* One row through db2ExecForeignInsert, Update or Delete.
db2ExecForeignInsert ==
  /\ Running({"dml"})
  /\ Execute(stmt[2], {NewWrite})
  /\ owed' = owed \cup {NewWrite}
  /\ nw' = nw + 1
  /\ dml' = TRUE
  /\ stmt' = <<>>
  /\ UNCHANGED <<nest, phase, todo, owedAt, committed, cacheVars>>

\* A whole UPDATE or DELETE as one remote statement.
db2IterateDirectModify ==
  /\ Running({"direct"})
  /\ Execute(stmt[2], {NewWrite})
  /\ owed' = owed \cup {NewWrite}
  /\ nw' = nw + 1
  /\ stmt' = <<>>
  /\ UNCHANGED <<nest, phase, todo, owedAt, committed, dml, cacheVars>>

\* The unit of work of c ends in DB2, and with it every savepoint.
EndUow(c) ==
  /\ pending' = [pending EXCEPT ![c] = {}]
  /\ sp' = [sp EXCEPT ![c] = {}]
  /\ uow' = [uow EXCEPT ![c] = FALSE]
  /\ UNCHANGED saved

\* db2ExecuteTruncate commits the unit of work; TRUNCATE ... IMMEDIATE then
\* takes effect at once.
db2ExecuteTruncate ==
  /\ Running({"truncate"})
  /\ link[stmt[2]] = "open"
  /\ EndUow(stmt[2])
  /\ durable' = durable \cup pending[stmt[2]] \cup {NewWrite}
  /\ owed' = owed \cup {NewWrite}
  /\ nw' = nw + 1
  /\ stmt' = <<>>
  /\ UNCHANGED <<nest, phase, todo, owedAt, committed, dml, level, cacheVars>>

\* The current statement raises an ERROR.  An INSERT, UPDATE or DELETE may
\* have set dml_in_transaction before; a TRUNCATE may have committed.
StatementError ==
  /\ Running(AllStmts)
  /\ \/ /\ stmt[1] # "diag"
        /\ \/ ExecuteFails(stmt[2], IF stmt[1] = "dml" THEN {NewWrite} ELSE {})
           \/ Deadlock(stmt[2])
     \/ /\ stmt[1] = "truncate" /\ "stmt" \in Faults /\ link[stmt[2]] = "open"
        /\ EndUow(stmt[2])
        /\ durable' = durable \cup pending[stmt[2]]
        /\ UNCHANGED level
     \/ /\ stmt[1] = "diag" /\ "stmt" \in Faults
        /\ UNCHANGED <<spVars, uow, pending, durable>>
  /\ dml' \in (IF stmt[1] = "dml" THEN {dml, TRUE} ELSE {dml})
  /\ nw' = IF stmt[1] \in Writers THEN nw + 1 ELSE nw
  /\ phase' = "error"
  /\ stmt' = <<>>
  /\ UNCHANGED <<nest, todo, owed, owedAt, committed, cacheVars>>

----------------------------------------------------------------------------
(* Closing.                                                                *)

\* db2_close_connections in a transaction that is known to modify DB2 data.
CloseRefused ==
  /\ "close" \in Ops /\ phase = "run" /\ stmt = <<>> /\ dml
  /\ phase' = "error"
  /\ UNCHANGED <<nest, todo, owed, owedAt, committed, nw, stmt>>
  /\ UNCHANGED <<cacheVars, spVars, workVars>>

\* The first registration of c goes.
UnregisterCallback(s, c) ==
  IF c \in RangeOf(s)
    THEN LET i == CHOOSE j \in DOMAIN s : s[j] = c
         IN  [j \in 1..(Len(s) - 1) |-> IF j < i THEN s[j] ELSE s[j + 1]]
    ELSE s

\* db2FreeConnHdl of the first entry: its callbacks go, connlist is NULL.
db2FreeConnHdl(c) ==
  /\ link' = [link EXCEPT ![c] = "closed"]
  /\ callbacks' = UnregisterCallback(callbacks, c)

\* db2FreeEnvHdl forgets the environment whether or not DB2 frees it.
db2FreeEnvHdl ==
  /\ rootenv' = FALSE /\ sqlInit' = (sqlInit /\ ~rootenv) /\ strayDbc' = FALSE
  /\ connlist' = <<>>

\* Mutant: the result of SQLDisconnect is not looked at.
CloseIgnoresDisconnect ==
  /\ "close" \in Ops /\ phase = "run" /\ stmt = <<>> /\ ~dml
  /\ IF connlist # <<>> THEN db2FreeConnHdl(Head(connlist))
                        ELSE UNCHANGED <<link, callbacks>>
  /\ db2FreeEnvHdl
  /\ phase' = IF rootenv /\ strayDbc THEN "error" ELSE phase
  /\ UNCHANGED <<key, autocommit, nest, todo, owed, owedAt, committed, nw, stmt, spVars, workVars>>

\* SQLDisconnect is refused during a unit of work (SQLSTATE 25000).  If the
\* connection is lost already, it may fail, too, or report that with
\* SQL_SUCCESS_WITH_INFO, which db2CheckErr takes for success.
DisconnectFails(c) == uow[c] \/ link[c] = "broken"
DisconnectWorks(c) == ~uow[c]

\* db2_close_connections.  An environment with open connections cannot be
\* freed (SQLFreeHandle), and that is an ERROR.
db2CloseConnections ==
  /\ "close" \in Ops /\ phase = "run" /\ stmt = <<>> /\ ~dml
  /\ \/ /\ connlist # <<>> /\ DisconnectFails(Head(connlist))
        /\ phase' = "error"
        /\ UNCHANGED cacheVars
     \/ /\ IF connlist # <<>> THEN DisconnectWorks(Head(connlist)) /\ db2FreeConnHdl(Head(connlist))
                              ELSE UNCHANGED <<link, callbacks>>
        /\ db2FreeEnvHdl
        /\ phase' = IF rootenv /\ strayDbc THEN "error" ELSE phase
        /\ UNCHANGED <<key, autocommit>>
  /\ UNCHANGED <<nest, todo, owed, owedAt, committed, nw, stmt, spVars, workVars>>

\* The backend exits (PostgreSQL has ended its transaction): db2Shutdown,
\* which reports no errors.
db2Shutdown ==
  /\ phase = "idle"
  /\ phase' = "exit"
  /\ IF connlist # <<>> THEN db2FreeConnHdl(Head(connlist))
                        ELSE UNCHANGED <<link, callbacks>>
  /\ db2FreeEnvHdl
  /\ UNCHANGED <<nest, todo, owed, owedAt, committed, nw, stmt, key, autocommit>>
  /\ UNCHANGED <<spVars, workVars>>

----------------------------------------------------------------------------
(* Transactions: PostgreSQL calls the callback of each entry in callbacks. *)

Begin ==
  /\ phase = "idle"
  /\ phase' = "run" /\ nest' = 1 /\ owed' = {}
  /\ UNCHANGED <<todo, owedAt, committed, nw, stmt, cacheVars, spVars, workVars>>

SubBegin ==
  /\ phase = "run" /\ stmt = <<>> /\ nest < MaxNest
  /\ nest' = nest + 1
  /\ owedAt' = [owedAt EXCEPT ![nest + 1] = owed]
  /\ UNCHANGED <<phase, todo, owed, committed, nw, stmt, cacheVars, spVars, workVars>>

\* Mutant: a subtransaction commit leaves xact_level alone.
SubCommitKeepsLevel ==
  /\ phase = "run" /\ stmt = <<>> /\ nest > 1
  /\ nest' = nest - 1
  /\ UNCHANGED <<phase, todo, owed, owedAt, committed, nw, stmt, cacheVars, spVars, workVars>>

\* SUBXACT_EVENT_PRE_COMMIT_SUB, every entry: db2EndSubtransaction only
\* lowers xact_level, the savepoint stays.
SubCommit ==
  /\ phase = "run" /\ stmt = <<>> /\ nest > 1
  /\ level' = [c \in Conn |-> IF c \in RangeOf(callbacks) /\ level[c] >= nest
                                THEN nest - 1 ELSE level[c]]
  /\ nest' = nest - 1
  /\ UNCHANGED <<phase, todo, owed, owedAt, committed, nw, stmt, cacheVars, sp, saved, workVars>>

\* The event starts: ROLLBACK TO, a caught error, or the end of the session.
StartUnwind ==
  /\ phase = "error" \/ (phase = "run" /\ stmt = <<>>)
  /\ phase' = IF nest > 1 THEN "subabort" ELSE "abort"
  /\ todo' = callbacks
  /\ UNCHANGED <<nest, owed, owedAt, committed, nw, stmt, cacheVars, spVars, workVars>>

Reachable(c) == c \in RangeOf(connlist)

\* Mutants: xact_level is lowered after the rollback, and not when it fails;
\* the rollback is to the savepoint of the level below; there is none.
LevelLoweredLast(c) ==
  \/ /\ Reachable(c) /\ link[c] = "open" /\ nest \in sp[c]
     /\ pending' = [pending EXCEPT ![c] = saved[c][nest]]
     /\ sp' = [sp EXCEPT ![c] = {n \in @ : n <= nest}]
     /\ level' = [level EXCEPT ![c] = nest - 1]
     /\ todo' = Tail(todo)
  \/ /\ \/ "rollbackto" \in Faults \/ ~Reachable(c)
        \/ link[c] # "open" \/ nest \notin sp[c]
     /\ todo' = callbacks
     /\ UNCHANGED <<level, pending, sp>>
RollbackTooFar(c) ==
  /\ level' = [level EXCEPT ![c] = nest - 1]
  /\ pending' = [pending EXCEPT ![c] = saved[c][nest - 1]]
  /\ sp' = [sp EXCEPT ![c] = {n \in @ : n < nest}]
  /\ todo' = Tail(todo)
NoRollbackTo(c) ==
  /\ level' = [level EXCEPT ![c] = nest - 1]
  /\ todo' = Tail(todo)
  /\ UNCHANGED <<pending, sp>>

\* SUBXACT_EVENT_ABORT_SUB for one entry: db2EndSubtransaction lowers
\* xact_level first, then rolls back to the savepoint of this level.  An
\* ERROR makes PostgreSQL start the subtransaction abort again.
db2EndSubtransaction(c) ==
  /\ level' = [level EXCEPT ![c] = nest - 1]
  /\ \/ /\ Reachable(c) /\ link[c] = "open" /\ nest \in sp[c]
        /\ pending' = [pending EXCEPT ![c] = saved[c][nest]]
        /\ sp' = [sp EXCEPT ![c] = {n \in @ : n <= nest}]
        /\ todo' = Tail(todo)
     \/ /\ \/ "rollbackto" \in Faults \/ ~Reachable(c)
           \/ link[c] # "open" \/ nest \notin sp[c]
        /\ todo' = callbacks
        /\ UNCHANGED <<pending, sp>>

SubAbortCallback ==
  /\ phase = "subabort" /\ todo # <<>>
  /\ IF level[Head(todo)] < nest
       THEN todo' = Tail(todo) /\ UNCHANGED <<level, pending, sp>>
       ELSE db2EndSubtransaction(Head(todo))
  /\ UNCHANGED <<nest, phase, owed, owedAt, committed, nw, stmt, cacheVars, saved, dml, uow, durable>>

SubAbortDone ==
  /\ phase = "subabort" /\ todo = <<>>
  /\ phase' = "run"
  /\ owed' = owedAt[nest]
  /\ nest' = nest - 1
  /\ UNCHANGED <<todo, owedAt, committed, nw, stmt, cacheVars, spVars, workVars>>

\* COMMIT of the top-level transaction.
StartCommit ==
  /\ phase = "run" /\ stmt = <<>> /\ nest = 1
  /\ phase' = "precommit"
  /\ todo' = callbacks
  /\ UNCHANGED <<nest, owed, owedAt, committed, nw, stmt, cacheVars, spVars, workVars>>

\* PREPARE TRANSACTION: the first callback refuses; without one there is no
\* DB2 work and PostgreSQL prepares.
PrepareTransaction ==
  /\ "prepare" \in Ops /\ phase = "run" /\ stmt = <<>> /\ nest = 1
  /\ IF callbacks # <<>>
       THEN phase' = "error" /\ UNCHANGED <<nest, committed, owed>>
       ELSE phase' = "idle" /\ nest' = 0 /\ committed' = committed \cup owed /\ owed' = {}
  /\ UNCHANGED <<todo, owedAt, nw, stmt, cacheVars, spVars, workVars>>

\* Mutants: xact_level is not reset; it is not reset after a rollback.
EndTransactionNoReset(c, is_commit) ==
  /\ EndUow(c)
  /\ durable' = IF is_commit THEN durable \cup pending[c] ELSE durable
  /\ UNCHANGED level
RollbackNoReset(c, is_commit) ==
  /\ level' = [level EXCEPT ![c] = IF is_commit THEN 0 ELSE @]
  /\ EndUow(c)
  /\ durable' = IF is_commit THEN durable \cup pending[c] ELSE durable

\* db2EndTransaction has worked: commit or rollback, xact_level 0.
EndTransactionOk(c, is_commit) ==
  /\ level' = [level EXCEPT ![c] = 0]
  /\ EndUow(c)
  /\ durable' = IF is_commit THEN durable \cup pending[c] ELSE durable

\* SQLEndTran(SQL_COMMIT) fails: DB2 has rolled back, or it has committed
\* and the answer is lost with the connection, or there is no connection.
CommitFails(c) ==
  /\ \/ /\ "commit" \in Faults /\ link[c] = "open"
        /\ EndUow(c)
        /\ UNCHANGED <<durable, link>>
     \/ /\ "ackloss" \in Faults /\ link[c] = "open"
        /\ EndUow(c)
        /\ durable' = durable \cup pending[c]
        /\ link' = [link EXCEPT ![c] = "broken"]
     \/ /\ link[c] # "open"
        /\ UNCHANGED <<pending, sp, saved, uow, durable, link>>
  /\ UNCHANGED level

\* XACT_EVENT_PRE_COMMIT for one entry.
PreCommitCallback ==
  /\ phase = "precommit" /\ todo # <<>>
  /\ LET c == Head(todo) IN
       \/ /\ \/ /\ level[c] = 0
                /\ UNCHANGED <<spVars, uow, pending, durable>>
             \/ /\ level[c] # 0 /\ Reachable(c) /\ link[c] = "open"
                /\ EndTransactionOk(c, TRUE)
          /\ dml' = FALSE
          /\ todo' = Tail(todo)
          /\ UNCHANGED <<phase, link>>
       \/ /\ level[c] # 0
          /\ \/ Reachable(c) /\ CommitFails(c)
             \/ ~Reachable(c) /\ UNCHANGED <<spVars, uow, pending, durable, link>>
          /\ phase' = "error" /\ todo' = <<>>
          /\ UNCHANGED dml
  /\ UNCHANGED <<nest, owed, owedAt, committed, nw, stmt>>
  /\ UNCHANGED <<rootenv, sqlInit, strayDbc, connlist, key, callbacks, autocommit>>

\* PostgreSQL itself fails after the callbacks, or commits.
LocalCommitFails ==
  /\ "local" \in Faults /\ phase = "precommit" /\ todo = <<>>
  /\ phase' = "error"
  /\ UNCHANGED <<nest, todo, owed, owedAt, committed, nw, stmt, cacheVars, spVars, workVars>>

LocalCommit ==
  /\ phase = "precommit" /\ todo = <<>>
  /\ phase' = "commit"
  /\ todo' = callbacks
  /\ committed' = committed \cup owed
  /\ owed' = {}
  /\ UNCHANGED <<nest, owedAt, nw, stmt, cacheVars, spVars, workVars>>

\* XACT_EVENT_COMMIT for one entry: db2EndTransaction has nothing to do.
CommitCallback ==
  /\ phase = "commit" /\ todo # <<>>
  /\ level[Head(todo)] = 0
  /\ dml' = FALSE
  /\ todo' = Tail(todo)
  /\ UNCHANGED <<nest, phase, owed, owedAt, committed, nw, stmt, cacheVars, spVars, uow, pending, durable>>

\* XACT_EVENT_ABORT for one entry.  A failed rollback is ignored (DB2 rolls
\* back when the connection goes); an entry that is not found is an ERROR
\* all the same, and PostgreSQL starts the abort again.
AbortCallback ==
  /\ phase = "abort" /\ todo # <<>>
  /\ LET c == Head(todo) IN
       \/ /\ level[c] = 0
          /\ dml' = FALSE /\ todo' = Tail(todo)
          /\ UNCHANGED <<spVars, uow, pending, durable>>
       \/ /\ level[c] # 0 /\ Reachable(c)
          /\ EndTransactionOk(c, FALSE)
          /\ dml' = FALSE /\ todo' = Tail(todo)
       \/ /\ level[c] # 0 /\ ~Reachable(c)
          /\ todo' = callbacks
          /\ UNCHANGED <<spVars, workVars>>
  /\ UNCHANGED <<nest, phase, owed, owedAt, committed, nw, stmt, cacheVars>>

EndXact ==
  /\ phase \in {"commit", "abort"} /\ todo = <<>>
  /\ phase' = "idle" /\ nest' = 0 /\ owed' = {}
  /\ UNCHANGED <<todo, owedAt, committed, nw, stmt, cacheVars, spVars, workVars>>

\* The connection to DB2 goes: DB2 rolls the unit of work back.
ConnectionLost(c) ==
  /\ "commlost" \in Faults /\ link[c] = "open" /\ phase # "exit"
  /\ link' = [link EXCEPT ![c] = "broken"]
  /\ EndUow(c)
  /\ UNCHANGED <<pgVars, rootenv, sqlInit, strayDbc, connlist, key, callbacks, autocommit>>
  /\ UNCHANGED <<level, dml, durable>>

Exited == phase = "exit" /\ UNCHANGED vars

----------------------------------------------------------------------------
Statement ==
  \/ \E kind \in AllStmts, k \in Keys : db2GetSession(kind, k) \/ GetSessionError(kind, k)
  \/ Read \/ db2_diag \/ db2ExecForeignInsert \/ db2IterateDirectModify
  \/ db2ExecuteTruncate \/ StatementError
  \/ CloseRefused \/ db2CloseConnections

\* Steps the backend is in the middle of: it takes them by itself.
Callback ==
  \/ SubAbortCallback \/ SubAbortDone
  \/ PreCommitCallback \/ LocalCommitFails \/ LocalCommit \/ CommitCallback
  \/ AbortCallback \/ EndXact

Next ==
  \/ Begin \/ SubBegin \/ SubCommit \/ StartUnwind \/ StartCommit
  \/ PrepareTransaction \/ Statement \/ Callback
  \/ db2Shutdown \/ Exited
  \/ \E c \in Conn : ConnectionLost(c)

Spec == Init /\ [][Next]_vars

\* A backend in a callback, or with an ERROR raised, goes on.
Fairness == WF_vars(Callback) /\ WF_vars(phase = "error" /\ StartUnwind)
FairSpec == Spec /\ Fairness

----------------------------------------------------------------------------
(* Properties.                                                             *)

\* What PostgreSQL has committed locally, DB2 has committed: a COMMIT whose
\* remote part failed in transactionCallback(XACT_EVENT_PRE_COMMIT) is never
\* reported as done, and no write of a live subtransaction gets lost on the
\* way through savepoints, rollbacks and reconnects.
\* It needs that db2_close_connections is refused while a write is owed on a lost
\* connection, which dml_in_transaction only ensures for row-wise modifications.
CommittedIsDurable == committed \subseteq durable

\* The converse: DB2 makes writes durable only when PostgreSQL is about to
\* commit, and only those it still counts on, so never one of a rolled back
\* transaction or subtransaction.  (If PostgreSQL itself fails after that, or
\* DB2's answer is lost, they stay: db2_fdw has no two-phase commit.)
NoAbortedWriteDurable ==
  [][durable' # durable => phase = "precommit" /\ durable' \ durable \subseteq owed]_vars

\* While a transaction runs, the unit of work of a connection holds exactly
\* the writes of the subtransactions that PostgreSQL still counts on:
\* db2EndSubtransaction undoes what was aborted and nothing else.
PendingIsOwed ==
  phase = "run" =>
    \A c \in Conn : link[c] = "open" => pending[c] = On(c, owed) \ durable

\* Every subtransaction level that xact_level covers has its savepoint in
\* DB2, set when DB2 held exactly what was owed when that level started.
SavepointsUpToLevel ==
  phase = "run" =>
    \A c \in Conn : link[c] = "open" =>
      \A n \in 2..level[c] :
        /\ n <= nest /\ n \in sp[c]
        /\ saved[c][n] = On(c, owedAt[n])

\* Between transactions no connection is left inside one: xact_level is 0
\* and DB2 has no unit of work for it.
IdleIsClean ==
  phase = "idle" =>
    \A c \in Conn : link[c] \in {"open", "broken"} =>
      level[c] = 0 /\ pending[c] = {} /\ ~uow[c]

\* dml_in_transaction is set while the transaction holds DB2 modifications.
DmlFlagSet == phase = "run" /\ owed # {} => dml

\* "In 9.3 or higher, the transaction must already be closed, so this does
\* nothing": at XACT_EVENT_COMMIT no connection has a transaction left.
PostCommitNoop == phase = "commit" => \A c \in RangeOf(todo) : level[c] = 0

\* The cache is looked up before a connection is made: no two connections
\* of the session have the same server, user and token.
OneConnectionPerKey ==
  \A c, d \in Conn :
    link[c] = "open" /\ link[d] = "open" /\ key[c] = key[d] => c = d

\* Closing a connection never discards work that is still owed.
CloseLosesNothing ==
  [][\A c \in Conn : link[c] = "open" /\ link'[c] = "closed"
       => pending[c] = {} /\ On(c, owed) \subseteq durable]_vars

\* Every commit, abort, subtransaction abort and ERROR is worked off: the
\* callbacks cannot keep PostgreSQL from getting back to the session.
CallbacksFinish ==
  phase \in {"error", "subabort", "precommit", "commit", "abort"}
    ~> phase \in {"idle", "run"}
=============================================================================
