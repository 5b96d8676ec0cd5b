# TLA+ models of db2_fdw

db2_fdw is a PostgreSQL foreign data wrapper for IBM Db2. One PostgreSQL
backend, a single process, loads it; it talks to Db2 servers through the CLI
(ODBC) library. Nothing in it runs concurrently with itself, but three parties
keep the state of one transaction: PostgreSQL (nesting levels, aborts, the
local commit), the wrapper (a connection cache with one counter per connection)
and each Db2 server (a unit of work with named savepoints). What is hard is to
keep the three in step when any call can fail.

Paths below are relative to the repository; `db2X.c` stands for
`source/db2X.c`.

## 1. Inventory

| Component | State it keeps | Operations | Talks to |
|---|---|---|---|
| Connection cache (`db2AllocEnvHdl.c`, `db2AllocConnHdl.c`, `db2CloseConnections.c`, `db2FreeEnvHdl.c`, `db2Shutdown.c`) | `rootenvEntry`, `sql_initialized`, `connlist` with `left`/`right`, per entry the names, `hdbc`, `xact_level` | look up, connect, insert, close all, shut down at exit | CLI; registers callbacks with PostgreSQL |
| Transactions (`db2Callbacks.c`, `db2GetSession.c`, `db2SetSavepoint.c`, `db2EndTransaction.c`, `db2EndSubtransaction.c`) | `xact_level`, `dml_in_transaction`, PostgreSQL's list of registered callbacks | start a session, set savepoints, commit, roll back, roll back to a savepoint | called by every statement and by PostgreSQL's transaction end |
| Statement handles (`db2AllocStmtHdl.c`, `db2FreeStmtHdl.c`, `db2CloseStatement.c`, `db2IsStatementOpen.c`, `db2Cancel.c`) | `handlelist` of a connection, `stmtp` of a session | allocate, free, close, cancel, release all | scans, modifications, savepoints, catalog queries; the end of the transaction |
| Statement execution (`db2PrepareQuery.c`, `db2ExecuteQuery.c`, `db2ExecuteInsert.c`, `db2ExecuteTruncate.c`, `db2ExecForeign*.c`, `db2*DirectModify.c`, `db2BindParameter.c`) | prepared statement, parameter list, the global `output_funcs` | row-wise DML, direct modification, TRUNCATE | handles, transactions |
| Foreign scans (`db2*ForeignScan.c`, `db2FetchNext.c`, `db2Describe.c`) | open cursor, result column buffers, row count | begin, iterate, rescan, end | handles, transactions |
| Values and LOBs (`db2GetLob.c`, `db2_fdw_utils.c`, `db2_utils.c`, `db2CopyText.c`) | buffers | chunked LOB fetch, conversion to datums | scans |
| Options and table description (`db2_fdw.c`, `db2GetFdwState.c`) | option list, `DB2Table` | validate, merge, describe | planner, ANALYZE, TRUNCATE |
| Plan state (`db2_de_serialize.c`) | a list of constants in `fdw_private` | serialize, deserialize | planner to executor |
| Planner (`db2GetForeign*.c`, `db2Plan*.c`, `db2_deparse.c`) | `DB2FdwState` of each relation | decide what is pushed down, build SQL | plan state |
| IMPORT FOREIGN SCHEMA, ANALYZE, EXPLAIN, `db2_diag` | none of their own | catalog reads, sampling, text | sessions |
| Error translation (`db2CheckErr.c`) | `err_code`, `db2Message` | map CLI diagnostics | everything |

How they interact. A statement calls `db2GetSession`, which finds or makes the
connection and sets savepoints up to the current nesting level. It takes
statement handles from the connection and gives them back when it ends. A new
connection registers two callbacks; PostgreSQL calls them, last registered
first, before commit (`PRE_COMMIT`: the remote commit), after it (`COMMIT`: a
no-op), at abort, and at the end of each subtransaction. An ERROR anywhere
unwinds the stack: nothing after the failing line runs, and PostgreSQL starts
an abort. An ERROR in an abort callback starts the abort again.

What is hard, and what correctness means:

* Cache: no two connections for one server, user and token; every connection
  that holds a unit of work gets its callbacks; closing never discards work
  that is still owed; a close closes everything.
* Transactions: a local commit implies the remote one; an aborted level's
  writes disappear and no others; between transactions nothing is left open.
  The cases that are hard to test are failures half way: between two savepoints,
  between the remote commits of two servers, between remote and local commit,
  in a callback, or after Db2 committed but before its answer arrived.
* Handles: the list is exactly the set of handles in use whatever order plan
  nodes end in, and errors leave none behind the transaction.
* Scans: rows are delivered once per scan and again after a rescan.
* Plan state: the executor reads back what the planner wrote.
* Planner: only what the remote side can evaluate is pushed down.
* LOBs, ANALYZE: loops that end, with no byte or row lost.

`PROJECT.json` lists the hazards line by line with the properties that cover
them.

## 2. Modules

| Module | Models | Extends or instantiates |
|---|---|---|
| `DB2Xact` | connection cache and transaction control, with PostgreSQL and Db2 as environment | |
| `NestedXact` | abstract specification: what one server should see, a properly nested transaction | |
| `DB2XactRefines` | the refinement mapping from `DB2Xact` with one server to `NestedXact` | extends `DB2Xact`, instantiates `NestedXact` |
| `DB2XactInv`, `DB2XactUndo` | the two halves of the inductive invariant: what is owed is not lost, and what is held is owed | extends `DB2Xact` |
| `DB2XactProofs`, `DB2XactUndoProofs` | the proofs about `DB2Xact`, and that it implements `NestedXact` | extend the modules above and `TLAPS` |
| `StmtHandles` | the handle list of one connection, pointer by pointer | |
| `StmtHandlesProofs` | the proofs about it | extends `StmtHandles`, `TLAPS` |
| `Orders`, `Lists` | a finite set of numbers as an ascending sequence; lists that are taken out of lists or put one after the other | `Lists` extends `Orders` |
| `PgNodes` | PostgreSQL's expression nodes and what can be asked of them | extends `Lists` |
| `Shippable` | `foreign_expr_walker` and the functions that call it | extends `PgNodes` |
| `DeparseExpr`, `DeparseStmt` | the text of expressions and statements as trees | extend `Shippable` |
| `Planner` | planning a query: base relations, join, upper relations, the plan and direct modification | extends `DeparseStmt` |
| `PlannerProps` | what a plan must be | extends `Planner` |
| `PlannerInv` | the inductive invariant of planning | extends `PlannerProps` |
| `Answers` | what expressions and texts mean, and that plans keep it | extends `PlannerInv` |
| `PlannerProofs`, `SentProofs` | the proofs about plans, and about what they send | extend `Answers` and `OrdersProofs`; `PlannerProofs` |
| `ForeignScan` | a scan with its parameters, its answer and its slot | |
| `ForeignModify` | INSERT, UPDATE, DELETE and direct modification, from plan to rows | |
| `ForeignExec` | the executor with a scan or several modifications | extends both |
| `ForeignExecProofs` | the proofs about it | extends `ForeignExec`, `OrdersProofs` |
| `OrdersProofs` | the lemmas about both, and about finite sets and sequences | extends `Lists`; `ForeignModify` and `ForeignTable` extend `Orders` |
| `ForeignTable` | options, IMPORT FOREIGN SCHEMA, ALTER, the description of a table | |
| `PlanData` | serialization of the plan's state | |
| `Lob` | the loop of `db2GetLob` | |
| `Analyze` | the sampling loop | |
| `Tables` | a backend that does one of these at a time | extends `ForeignTable`, `PlanData`, `Lob`, `Analyze` |
| `TablesProofs` | the proofs about all of `Tables` | extends `Tables`, `OrdersProofs` |
| `MCDB2Xact`, `MCStmtHandles`, `MCPlanner`, `MCForeignExec`, `MCTables` | the instances for TLC: tables, queries, statements, symmetry | |

An operator whose comment starts with `Mutant:` is a wrong variant of the
definition after it. Substituted for it, it makes a property fail that
otherwise holds, so the property does depend on that piece of code.

### DB2Xact

Wrapper state: `rootenv`, `sqlInit`, `connlist`, `key` (the three names an entry
is found by), `level` (`xact_level`), `callbacks`, `dml`. `connlist` is the list
the walk through `->right` sees. `insertconnEntry` hangs a new entry behind the
last one and its caller makes `connlist` point to the new entry, so `CacheEntry`
keeps only the suffix from there: with a second server earlier entries drop
out of sight while their callbacks and connections live on. `strayDbc` records
that such an unreachable `hdbc` (or one of a refused connect) keeps the environment
from being freed.

Db2 state, per connection: `link`, `autocommit`, `uow`, `pending`, `sp`, `saved`,
and `durable`. Savepoints are `ON ROLLBACK RETAIN CURSORS`, not `UNIQUE`:
setting one again replaces it, rolling back to one keeps it and drops the later
ones. Under autocommit a write is durable at once.

PostgreSQL state: `nest`, `phase`, `todo` (callbacks still to call for the
current event), `owed` (writes of the live subtransactions), `owedAt` (what was
owed when a level began) and `committed`. `owed` is what makes the properties
statements about data and not about counters.

Each handler is an action: `db2GetSession` with its failures
`GetSessionError`; the statements `Read`, `db2ExecForeignInsert` (also UPDATE
and DELETE, which set the flag and execute in the same order),
`db2IterateDirectModify`, `db2ExecuteTruncate`, `db2_diag`; `StatementError` for
a statement that fails before or after Db2 has done it;
`db2CloseConnections`, `CloseRefused`, `db2Shutdown`; and one action per
callback and entry (`PreCommitCallback`, `CommitCallback`, `AbortCallback`,
`SubAbortCallback`). `SubCommit` covers all entries in one step, because
`db2EndSubtransaction` with `is_commit` only lowers counters and cannot fail.
Catalog queries of IMPORT FOREIGN SCHEMA are reads of a session at level 1, the
literal the code passes.

`Faults` selects which calls may fail: connect, switching autocommit off, a
savepoint, a statement, a statement in which Db2 rolls back the whole unit of
work (`deadlock`: SQLCODE -911, or a failed commit before TRUNCATE), commit, the
loss of the answer to a commit, ROLLBACK TO SAVEPOINT, the connection, and
PostgreSQL's own commit after the remote one. `Ops` selects the statements.

What SQLDisconnect answers is an assumption about the CLI library. During a unit of work
it is refused (SQLSTATE 25000). On a connection that is lost already the library may
report an error, or the loss as SQL_SUCCESS_WITH_INFO, which `db2CheckErr` turns into
SQL_SUCCESS (`db2CheckErr.c:104-106`): `db2CloseConnections` has both outcomes. The second
frees the entry and unregisters its callbacks, so the loss is not met again at the commit.

### NestedXact and DB2XactRefines

`NestedXact` has a depth, the work of the open transaction, the work at the start
of each level, and what the database keeps. `DB2XactRefines` maps Db2's unit of
work to it. The mapping shows what lazy savepoints mean: a level that has not used
the connection began with the work present now, and the outermost level ends when
the unit of work does, which is at `PRE_COMMIT` and not at the local commit.

### StmtHandles

`handlelist`, `next` and the set `malloced` are the list with its pointers;
`findhdlEntry` returns what the C function returns, including the head when the
head is sought and the last entry when nothing is found. `memory` becomes `null`
or `freed` when the code would use such memory; what happens afterwards is left
open (`Undefined`). Plan nodes begin at a nesting level and end in any
order, which is what a LIMIT or a merge join does; an ERROR ends none of them and
`Abandon` forgets their `stmtp` while the handles stay listed. Handles taken and
returned within one call (savepoints, descriptions) appear only when the call
fails in between, since otherwise they are the head and the list is as before.

### Planner

An expression is a tree of PostgreSQL's nodes. `Shippable` is the walker of
`db2_deparse.c` with its contexts of collations; its answer says what may be
sent. `DeparseExpr` is what the deparse functions make of an expression: a tree
of keywords, operands and markers, or nothing when a function returns NULL, with
the parameters it met on the way. The two are separate functions in the code that
must agree, and here too: a hole is a part that the deparser left out of a text it
went on with. What is spelled inside a leaf (names, quotes, dates) is left out.

What recurses over an expression is a constant operator: `Nodes`,
`pull_var_and_aggregates`, `strip_relabel`, `Walk` (the walker), `Render` (the
deparser), `Flat` and `Marked` (what is in a text), `getUsedColumns`, and `EvalPg`
and `EvalDb2` of `Answers`. One step of it is a definition (`NodesOf`,
`foreign_expr_walker`, `deparseExpr`, ...) that takes what has been computed
below the node, and a named assumption says that the operator solves the equation for all
expressions: `Walk(e, ...) = foreign_expr_walker(e, ..., [i \in ... |-> Walk(...)], ...)`.
`MCPlanner` gives the solutions as recursive operators, and TLC evaluates the
assumptions with them. Without recursive operators the modules can be proved about.

`Answers` evaluates expressions as PostgreSQL does (`PgValue`) and texts as DB2 does
(`Db2Value`), with three-valued logic. A function none of whose details matter is any
one-to-one combination of its arguments, so it matters which function is called and
with which arguments in which order, and nothing else.

`Planner` has one action per callback: `db2GetForeignRelSize` and
`db2GetForeignPaths` for each base relation, `db2GetForeignJoinPaths`, the upper
stages grouping, window, distinct, ordered and final, `db2GetForeignPlan`, and
`db2PlanDirectModify`. A path carries the order it claims and what it stores for
the plan. Which path wins depends on costs, which are left out: `db2GetForeignPlan`
takes any. The plan has the expressions of the scan list, the remote and local
conditions, the parameters, the statement and `resultList`, whose positions
`getUsedColumns` and its callers assign. The properties compare the plan with the
query, never with the steps in between.

### ForeignScan, ForeignModify, ForeignExec

`ForeignScan`: a query is the order of its markers, the types of the parameters and
the columns of its answer with the sizes Db2 has described. `db2BeginForeignScan`
builds the parameter list, `db2IterateForeignScan` binds, executes and fetches,
`db2ReScanForeignScan` closes the statement, and between calls the executor may
change the parameters' values. `BufferSize`, `Bound` and `GetData` are what
`db2PrepareQuery` allocates and how SQLGetData or a bound buffer cut a value short.

`ForeignModify`: a table has columns in Db2's order, some of which the foreign table
may lack; a statement is what PostgreSQL asks for. `Sql` is the statement
`db2PlanForeignModify` builds, `ParamList` the parameters after they have been
collected, reversed, written to the plan and read back. `db2BeginForeignModify`
sets the global `output_funcs`, the `db2ExecForeign*` actions bind, execute and look
at the count of rows, and another session changes rows in between. `wanted` keeps
what the executor asked for, so that `remote` can be compared with it. An UPDATE
whose new row is already another row of the table fails, as it does in Db2 for a table
with a primary key: rows are a set, and two must not become one.

`ForeignExec` composes them: a backend scans or modifies, with several
modifications begun at once.

### ForeignTable, PlanData, Lob, Analyze, Tables

`ForeignTable`: a name is a base and a case, for case is what the code folds and
compares. `db2ImportForeignSchema` reads the catalog, filters twice and creates
tables with the options it writes; `DropColumn`, `AddColumn` and `SetOptions` are
ALTER FOREIGN TABLE under `db2_fdw_validator`; `Describe` is `db2GetFdwState`, which
takes the options if all are there and asks Db2 otherwise.

`PlanData`: writer and reader with the order of fields that each of them has.

`Lob`: one turn of the loop (`GetChunk`) per call of SQLGetData, which may tell how much was
left or not; `Continues` decides whether the loop goes on. A byte is its position.

`Analyze`: `acquireSampleRowsFunc`, whose loop runs its body once before the first
fetch.

`Tables` lets one of them run at a time; ANALYZE waits for a table that can be
described.

## 3. Runs

| Run | Bounds | Shows |
|---|---|---|
| `xact_one_server` | 1 server, 2 entries, 3 levels, 2 writes, row-wise and direct; failing connects, savepoints, statements, commits, local commits, lost answers | `RemoteFollowsLocal`: refinement of `NestedXact`; `NoAbortedWriteDurable`, `CommittedIsDurable`, `CloseLosesNothing`, `PendingIsOwed`, `SavepointsUpToLevel`, `IdleIsClean`, `PostCommitNoop`, `OneConnectionPerKey`: within its assumptions the wrapper keeps the three parties in step |
| `xact_any_fault` | 2 servers, 2 entries, 2 levels, 2 writes; every failure but a deadlock, every statement but direct modifications | `CommittedIsDurable`, also when a lost connection is closed unnoticed, and `IInv`, the invariant of the proof |
| `xact_progress` | 1 server, 2 entries, 2 levels, 2 writes; every failure that can meet a cached connection, row-wise modifications, closing | `CallbacksFinish`: errors and callbacks are worked off; `DmlFlagSet`: the flag stays set as long as a write is owed |
| `handles` | 2 scans, 1 modification, 3 handles, 2 levels | `ListExact`, `OpenIsListedUnlessSecondFreed`, `NoHandleLeft`, `ReleaseEnds` |
| `plan` | the queries of `MCPlanner`: every kind of expression node as a condition, and conditions, sorts, limits, locks, groupings, HAVING, joins and modifications in combination; 3 columns of 2 types and 2 collations | `AnswersSurvive`, `CollationComesFromColumn`, `OperatorsHaveTexts`, `EveryClauseOnce`, `LimitIsExact`, `OrderedAsClaimed`, `ScanListCoversNeeds`, `PlainResultsMatch`, `ParamsFollowMarkers`, `DirectModifyComplete` |
| `exec` | scans: 8 queries of up to 2 parameters, 4 rows of 3 columns, 2 rescans; modifications: 8 tables, 16 statements, 2 at a time, 2 calls, 1 change by another session | `RowsOfOneRun`, `SlotIsRow`, `ChosenRowsOnly`, `UpdateNamesItsColumns`, `RowByRow` |
| `tables` | 3 schemas and one that does not exist, one import, 3 changes; lists of up to 2 entries; LOBs of up to 6 bytes in chunks of 2; 3 rows, samples of 2 | `ColumnsDescribed`, `ImportedAsListed`, `ImportedIsUsable`, `DeserializedAsWritten`, `LobWhole`, `SampleCounted` |

`xact_any_fault` leaves direct modifications out because with them, a lost connection and
`db2_close_connections` the code does lose a write (see the deviations below);
`CommittedIsDurable` is checked with direct modifications in `xact_one_server`, without lost
connections.

Why the bounds suffice. Three levels are needed for a savepoint that is set,
skipped and overwritten by a sibling at the same level. Two entries for
one server let a session close its connection and make another; two
servers are the smallest case in which `connlist` loses an entry and in
which one remote commit succeeds and the next fails. Three handles give the list a
head, a second and a last entry, and the second entry is where freeing goes wrong.
`MaxWrites` is the only cap on a counter of `DB2Xact`; statements that write are
disabled when it is reached. What does not depend on these bounds is proved (section
4). `handles` uses no symmetry, because it checks a liveness property.

A planner's answer depends on one query, so `plan` has many queries and few states
for each; two relations are the smallest join, and relation 9 stands for one outside
of it. `exec` has tables whose columns are in another order, are missing in the
middle or at the end, or have a wrong key option. A LOB of 6 bytes takes up to
four chunks, with the last one full, partial or empty. `Tables` never runs its
parts together, which is why one run is enough for all of them; planning a
statement and fetching a LOB concern no particular table.

`plan`, `exec` and `tables` check no deadlock, since planning and executing end.

The following run each show one disagreement of the code with what it says of itself:

| Run | Property | What the code does |
|---|---|---|
| `v_dml_flag` | `DmlFlagSet` | a direct UPDATE or DELETE leaves `dml_in_transaction` false, so `db2_close_connections` is not refused; a write may be lost by that |
| `v_rollback_to` | `NoAbortedWriteDurable` | `xact_level` is lowered before ROLLBACK TO SAVEPOINT; when that fails, the repeated abort does nothing and the aborted writes are committed |
| `v_unrendered` | `SentIsWhole` | the walker accepts arrays and CASE forms that the deparser renders as nothing, and the statement goes out without them |
| `v_result_positions` | `ResultsMatchSelectList` | with a system column or a whole row in the list, `resultList` and the SELECT list do not match |
| `v_param_order` | `ParamsInMarkerOrder` | the parameter list is reversed by the planner and again by the reader, so two parameters are bound to each other's markers |

`v_rollback_to` runs under `FairSpec`, so that the repeated abort does happen.

### Fairness

`DB2Xact!Fairness` is weak fairness of the callback steps and of unwinding after an
ERROR. A backend that has entered `CommitTransaction` or `AbortTransaction` runs its
callbacks without waiting for a client, so these steps happen. Nothing
is assumed about clients: a session may stay idle in a transaction forever.
`StmtHandles!FairSpec` assumes the same of the release loop.

### Known deviations

Passing properties name the cases they exclude; these are the cases, and further
ones the modelling brought up. Most have no run of their own.

Transactions and handles
* After a direct modification `db2_close_connections` is not refused (`v_dml_flag`). If the
  connection is lost meanwhile, say with a failed savepoint whose subtransaction is rolled
  back, closing it succeeds: the loss is reported with SQL_SUCCESS_WITH_INFO
  (`db2CheckErr.c:104-106`), and entry and callbacks are gone
  (`db2CloseConnections.c:51-72`). The COMMIT that follows calls no callback and succeeds,
  and Db2 has lost the modification. With `"direct"` among its `Ops`, `xact_any_fault`
  violates `CommittedIsDurable` in this way: begin, direct modification, loss, close, commit.
* TRUNCATE commits: the savepoints are gone and `xact_level` still counts them
  (`db2ExecuteTruncate.c:26`).
* The entry is cached before autocommit is off (`db2AllocConnHdl.c:107`): after a
  failure there the next session uses it in autocommit mode and without callbacks.
* After SQLCODE -911 in a subtransaction PostgreSQL undoes that subtransaction only;
  the writes of the outer levels are gone in Db2 (`db2EndSubtransaction.c:35`).
* With two servers an entry may not be found and the abort callback raises an ERROR
  although `noerror` is set (`db2EndTransaction.c:43`); the abort starts again.
* Freeing the second entry of a handle list drops the first
  (`db2FreeStmtHdl.c:34`).
* A failure between the remote and the local commit leaves an aborted transaction's
  writes in Db2: there is no two-phase commit, and PREPARE TRANSACTION is refused.

Planner and deparser
* An aggregate's FILTER is dropped and an ORDER BY over another column gives a
  malformed list (`db2_deparse.c:3238-3310`).
* CASE with an argument is inverted (`:2859`); an array element that cannot be printed
  is freed twice (`:2685`, `:2700`); the sign of an interval is lost and a zero
  interval is empty (`:3588-3667`).
* Parameters met in a rendering that failed stay in the list; TRANSLATE swaps the
  order of its markers; a parameter used twice has two markers and one value.
* Join conditions do not pass the walker (`db2GetForeignJoinPaths.c:190`), and the join
  takes no `jwt_token` from its inputs (`:246-248`).
* Whole-row references (`db2GetForeignPlan.c:229-235`, `:243`, `:463`), and system
  columns in the target list.
* Before PostgreSQL 18 `find_em_for_rel` takes members of other relations
  (`db2_deparse.c:3897-3911`).
* `lookup_shippable` never answers yes and `qp_is_pushdown_safe` is never set: less is
  pushed down than the code provides for.

Execution
* `output_funcs` is one array for all modifications (`db2BeginForeignModifyCommon.c:36`).
  `db2_fdw.c:79-82` says: "It is ok to hold this cache in a static variable because there
  cannot be more than one foreign table modified at the same time." There can: a trigger, a
  function, or a common table expression that modifies begins a second modification while the
  first still has rows to come. The model reaches that state; the values of the first then go
  through the functions of the second, or through freed memory once the second has ended.
  `garbled` records it, and `ChosenRowsOnly` is about runs without it. No property says that
  the functions are a modification's own, since they need not be.
* A scan binds two or more parameters in reverse order, and number-typed ones raise
  "unsupported sql number type"; several markers for the current time have one
  parameter (`db2BeginForeignScan.c:34`).
* Direct modifications never bind their parameters.
* Values too long for a bound buffer are cut silently; when SQLGetData reports
  truncation the retry fetches what is left and not the whole
  (`db2FetchNext.c:131-139`).
* UPDATE and DELETE find a row by a key that was NULL or zero alike
  (`db2ExecForeignDelete.c:107`); UPDATE of a key column sends the old value (`:94-98`).
* Columns that only Db2 has shift the positions of an INSERT's parameters beyond its
  markers when they come before the last column (`db2ExecuteInsert.c:56`).
* The lengths of the result and parameter lists are taken with `sizeof` of a pointer and
  so always 1: a batch is neither disabled for a table without columns nor limited by the
  number of its parameters (`db2GetForeignModifyBatchSize.c:51`, `:59`).
* `copyPlanData` leaves out `jwt_token` (`db2PlanForeignModify.c:342-346`).
* RETURNING gets a row of NULLs.

Tables
* `README.md:335-336` says that columns are mapped in the order of their definition; the code
  maps them by name (`db2GetFdwState.c:439-461`), and so do the models.
* Binary types and NUMERIC are imported with types `checkDataType` rejects
  (`db2PlanForeignModify.c:445`).
* Two tables whose names differ in case only share their catalog rows and overrun an
  array (`db2ImportForeignSchemaData.c:436`).
* A dropped column leaves an empty entry in a description made from options; a Db2 column
  without an attribute has no type and stops ANALYZE.
* The validator reads numbers with base 0 and the options are used with base 10;
  `batch_size` -1 is accepted; the check of `readonly` in
  `db2ImportForeignSchema.c:69` never refuses; `column_name` is no valid option.
* Binary LOBs lose a byte at the end of each chunk, and an empty one gives NULL.
* ANALYZE collects one row more than there are, all of NULLs, and `rowstoskip` is
  always 0.

## 4. Proofs

TLAPS checks eight modules of proofs. They hold for any sets of servers, connections,
plan nodes and handles, any nesting depth, any number of writes, any chunk and
sample size, and for any queries, answers, tables, statements and databases that meet
the named assumptions, which TLC evaluates on the instances:

* `QueriesAssumption`: each parameter has a marker, `resultList` numbers its entries
  differently, and a DECFLOAT has 16 or 34 digits (the only two there are).
* `AnswerAssumption`: an answer is a sequence of rows whose values are NULL or have a length.
* `TableAssumption`, `StatementsAssumption`: no two columns of a table have one name or one
  attribute number (`db2GetFdwState` assigns the number 0 where there is no attribute), its
  rows are finitely many and have its columns, a statement assigns finitely many attributes.
* `RemoteAssumption`: a schema has no two tables, and a table no two columns, of one name
  (names that differ in case are two names); not all columns of a table are hidden; integers
  have no scale, decimals and times a size.
* `ListsAssumption`: LIMIT TO and EXCEPT list names.

Those of the planner are:

* `QueriesAssumption` (of `Planner`) and `ColumnsAssumption`: queries and tables are built of
  `Expressions`, over one or both of the two relations, and row locks come without grouping.
* `ExpressionsAssumption`: nodes are formed as PostgreSQL forms them (`WellFormed`: how many
  arguments a node has, a constant's fields), and the operators over trees solve their equations.
* `WalkAssumption`, `RenderAssumption`, `TextsAssumption`, `EvalAssumption`: so do the walker,
  the deparser, what is asked of texts, and the two evaluations.

### No write is lost (`DB2XactProofs`)

* `Inductive`, `Invariance`: `IInv` is preserved by every step and holds always.
* `TypeCorrect`: `TypeOK`.
* `CommitEventIsNoop`: `PostCommitNoop`, the comment in `transactionCallback` that
  the second commit does nothing.
* `Durability`: `CommittedIsDurable`. Locally committed implies remotely committed.

Only the last has assumptions. `NoDeadlock`: after SQLCODE -911 the work of the outer levels
is gone in Db2. `~UnguardedClose`: either every modification is row-wise, or no connection
is lost, or `db2_close_connections` is not called; with all three the code loses a write (section
3). The parts of `IInv` that are about writes (`SavedInv`, `DueInv`, `KeptInv`) are
stated under `NoDeadlock`, the others hold whatever fails.

`CommittedIsDurable` is not inductive: a local commit adds `owed`
to `committed`, so one must know that by then every owed write is durable. `Due`
is the set of writes that may still be committed locally: `owed` while running or
in `PRE_COMMIT`; only what the level began with when an error or a subtransaction
abort is about to undo it; nothing in an abort. `DueInv` says that a due write is
`Covered`: durable, or its connection has its callbacks, a level of at least 1, and either
holds the write or is broken (or, with `UnguardedClose` only, was lost and may have been
closed). That a broken connection with a due write keeps its callbacks is not a matter of
connections alone: nothing stops SQLDisconnect there. `FlagInv` says what does: with row-wise
modifications `dml_in_transaction` is set as long as a due write is not durable, up to
`PRE_COMMIT`, and then `db2_close_connections` is refused. A connection that still has a level is on `todo` in
`precommit` (`LevelInv`), so when `todo` is empty only the first case is left. A
broken connection cannot be committed, so its callback fails and the commit
with it. `SavedInv` and `NestInv` carry `DueInv` across ROLLBACK TO SAVEPOINT,
and `LinkInv` says which connections can hold work at all. The proof has one lemma per
action for the conjunction `WorkInv` of all but `FlagInv`, four for `FlagInv`, and lemmas for what the cache and the savepoints change.

### No write stays that was undone (`DB2XactUndoProofs`)

* `ClosingIsSafe` (`CloseLosesNothing`), which needs no more than `NoDeadlock`, and
  `IdleClean` (`IdleIsClean`), which needs only that autocommit can be switched off.
* `NothingUndoneIsDurable` (`NoAbortedWriteDurable`), assuming `KeepsUow`: no
  deadlock, no failing autocommit switch or ROLLBACK TO SAVEPOINT, no TRUNCATE.
  `v_rollback_to` shows a behaviour that the third of these excludes.
* `UowIsOwed` (`PendingIsOwed`) and `SavepointsExact` (`SavepointsUpToLevel`), which
  need `OneKey`, too: with two servers a callback may not find its entry.
* `FlagSet` (`DmlFlagSet`), assuming `KeepsUow` and `RowWise`, no direct
  modification: `v_dml_flag` is the other case.
* `OneConnection` (`OneConnectionPerKey`), assuming `OneKey`.

`NoAbortedWriteDurable` needs that a connection never holds more than is owed when
it commits. An abort of a level must therefore find what was there when the level
began. `HeldInv` says so: for each level above the transaction's, either the
connection has a savepoint of that level that holds no more than was owed at the
level's start, or what it holds now is no more than that, because nothing has been written
through it since. The second case is the lazy savepoint: the level has not used the
connection. `FreshInv` says that what a connection holds or has saved is its own and not
durable yet, so that a commit adds just what it holds.

### Db2 follows PostgreSQL (`DB2XactUndoProofs`)

`Refinement`: `Spec => RemoteFollowsLocal`, assuming `KeepsUow`, `OneKey` and no broken
connections. Every step of `DB2Xact` is shown to be a step of `NestedXact` under the
mapping or to leave the mapped state alone. Setting several savepoints at once, a callback
that does nothing and a session's beginning are of the second kind. The proof uses the
invariants above: under them at most one connection is open, so the mapped work is that
connection's, and the mapped start of each level is its savepoint or the present work.

### Handles (`StmtHandlesProofs`)

`HandleTypes`, `ListIsExact`, `OpenStatementsAreListed` and `NoHandleIsLeft`: the four
invariants of the run. `Chain(s)` says that the sequence `s` of blocks is the list:
no block twice, the head is the first, `->next` leads from each to the following one, and
the blocks in use are those of `s`. The invariant is that, until a second entry is freed,
such a sequence exists, open statements have blocks of their own, and there is none before the
connection has a level. Allocating prepends to the sequence and freeing any but the
second removes an element (`AllocChain`, `FreeChain`). The walk along
`->next` is a recursive function; that it visits `s` is shown with a smallest index at which it
would not (`ChainSteps`).

### Scans and modifications (`ForeignExecProofs`)

`ExecInvariant`: the conjunction `ExecInv` of the following holds always; TLC has checked it
on the instance of `exec`. Scanning and modifying share no variables, so each half is
carried by its own steps.

* `ScanRowsOfOneRun` (`RowsOfOneRun`). That the rows handed out are the beginning of an answer
  is not inductive: nothing is said of the rows to come. `RowsInv` adds that with at most one
  marker, while the statement is open, what was fetched followed by what is left in the
  cursor is the answer to the values the executor has now. Those values may
  change between calls, but only together with a rescan, which closes the statement.
* `ScanSlotIsRow` (`SlotIsRow`). `SlotInv`: the slot is `convertTuple` of the last row fetched.
  `BufferHolds` then compares the size `db2PrepareQuery` allocates with the longest text of
  a value, case by case.
* `ModifyUpdateNamesItsColumns` (`UpdateNamesItsColumns`). The planner walks the columns with one
  index over the attributes, a recursive function here. Its value is shown to exist and to be
  unique by a least counterexample, and to be the set asked for when the columns are in order.
* `ModifyChosenRowsOnly` (`ChosenRowsOnly`), inductive beside `PlansInv` and `TablesInv`:
  `ParamList` is the list of markers reversed twice, hence each value of an INSERT
  is in its own column, and a DELETE by a single key column removes the chosen row if and only if
  it is there.
* `ModifyRowByRow` (`RowByRow`): the action property follows from `ExecInv` at every step,
  with the cardinality of a finite set that loses a row and gains at most one.

### Foreign tables and plan state (`TablesProofs`)

`TablesInvariant`: `TablesInv`, checked by TLC on the instance of `tables`, is the
conjunction of one invariant per part, and each part leaves the variables of the others alone.

* `TablesDescribed` (`ColumnsDescribed`) and `TablesImportedUsable` (`ImportedIsUsable`), from
  `CatalogInv`: an attribute keeps, through ALTER, the type it was imported with, its name up
  to case and the column it stands for, and every description is that of the table as it now is.
  Without the first, nothing would be known of the options that `db2GetFdwState` trusts. The
  rest is about `db2GetFdwState` in both of its branches: positions among the visible columns,
  which name is found, and which types `checkDataType` accepts.
* `TablesImportedAsListed` (`ImportedAsListed`), inductive as it is.
* `TablesDeserialized` (`DeserializedAsWritten`), from `PlanInv`: the list of constants is what
  the writer makes of the state, and what is executed is what the reader makes of the list.
  `SerializedLayout` gives the position of each field in the list, for any number of columns,
  parameters and results, and `DeserializedLayout` that the reader looks there.

### The planner (`PlannerProofs`, `SentProofs`)

For every query, table, expression of any depth, and choice of paths:

* `PlannerInvariant` and `PlannerPlans`: `PInv`, the inductive invariant, and `PlanFacts`, which
  says that a plan is made from the lists of its relation and one of its paths. `PInv` has a
  part per relation: what a base relation, the join and each upper relation keep of conditions,
  clauses, target lists and paths, and at which stage that is settled. All of the
  following theorems take a plan apart with it.
* `PlannerClauses` (`EveryClauseOnce`): conditions are counted as bags, through the
  classification, the pull-up by the join and the split of HAVING.
* `PlannerLimits` (`LimitIsExact`) and `PlannerOrders` (`OrderedAsClaimed`). The latter assumes
  `PG18`: before, `find_em_for_rel` takes members of other relations.
* `PlannerModifies` (`DirectModifyComplete`) and `PlannerScans` (`ScanListCoversNeeds`).
* `PlannerOperators` (`OperatorsHaveTexts`) and `PlannerCollations` (`CollationComesFromColumn`).
  Each list that is sent has been through the walker (`Seen`); for the lists
  of a grouping that is an invariant of its own (`GroupListInv`). What the walker accepts it
  has accepted at each node below, in one of the contexts of a CASE (`NodesPassed`), and the
  collations it has merged lead back to a column (`InputsHaveColumns`).
* `PlannerParams` (`ParamsFollowMarkers`). A rendering is `Listed` if the parameters it has seen
  are those of the markers in its text, in their order, whenever the text is `Clean` (no hole, no
  TRANSLATE): one lemma per kind of node, then lists, clauses and statements.
* `PlannerAnswers` (`AnswersSurvive`). The values of a node and of its text agree if those of what
  is rendered below it do (`Met`, `ArmAgrees`): operators and functions that are
  renamed keep their meaning, `= ANY` and `<> ALL` are what IN and NOT IN are, the pairs of a CASE
  stay in place, and TRANSLATE gets its arguments in DB2's order.

The claims about expressions need an induction over trees, which the library's
induction theorems cannot give here. Instead each is proved from an expression with the fewest
nodes (`Size`) among those that break it: `LeastExpression` finds it, what is below it is
smaller (`NodesSplit`, `OperandsLess`) and so does not break the claim, and the equation of the operator
leads to a contradiction. Lists are handled the same way, with a least position.

### Loops (`TablesProofs`)

`LobArrivesWhole` and `SampleIsCounted`, for every `Chunk`, `MaxLength`, `TargRows` and
`MaxRows`: loop invariants that say which bytes have arrived, or which rows have been
counted and kept, after each turn.

### Model-checked only

Liveness (`CallbacksFinish`, `ReleaseEnds`) is outside of what TLAPS proves, and
`PlainResultsMatch` is only model-checked: `getUsedColumns` hands one result through a list
of expressions and `BaseResults` folds over the scan list. The five properties
of the disagreements in section 3 have counterexamples.

## 5. Not modelled

* The spelling of names, literals, dates, numbers and types in SQL, and the conversion of
  single values: formatting without state that a property is about.
* Costs and estimates of paths (`db2GetForeignUpperPaths.c:958-1375`): any path may win.
* `db2GetForeignPlanOld.c`, which the Makefile does not compile.
* `err_code` and SQLSTATE texts of `db2CheckErr.c`; only what a return code means for the
  caller is in the models.
* EXPLAIN, tracing, versions and memory helpers.
* Parallel workers: the callbacks handle their events like the ordinary ones, but
  the wrapper does not mark its scans parallel safe.
* Signal handling (`db2SetHandlers.c`, `db2Cancel.c`): cancelling ends a statement
  with an error, which the models have; the handlers themselves are process state.
* Windows and packaging files, tests as such.

## 6. Plan

Done: the modules in the order of section 2. What would add most next:

1. `ForeignScan` composed with `StmtHandles`, so that a fetch through a dropped handle is
   seen as a wrong row and not only as a broken list.
2. Joins of more than two tables and subqueries in `Planner`, where a join's inputs are joins.
3. The widths of numbers in `PlanData` (`noencerr`, `prefetch`, `fetch_size`, `colSize`).
4. `NothingUndoneIsDurable` with TRUNCATE in the outermost level, where it has no savepoints
   to lose.
