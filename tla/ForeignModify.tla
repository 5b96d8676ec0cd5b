--------------------------- MODULE ForeignModify ---------------------------
(***************************************************************************)
(* INSERT, UPDATE and DELETE on foreign tables: the statement and the      *)
(* parameters db2PlanForeignModify makes, the way they take to the         *)
(* executor, and what the calls of the executor do to the table in DB2.    *)
(*                                                                         *)
(* A table is a record                                                     *)
(*   cols     its columns in DB2's order, of records [name, attnum, key];  *)
(*            attnum 0: not in the foreign table; key: the option is set   *)
(*   primary  the columns of DB2's primary key                             *)
(*   rows     its rows at first, functions from column names to values     *)
(*   readonly, batch_size                                                  *)
(* A statement is a record                                                 *)
(*   op       INSERT, COPY (rows routed to the table, too), UPDATE,        *)
(*            DELETE, or DIRECT: a DELETE executed as one remote statement *)
(*   table; set: attributes an UPDATE assigns; returning: attributes of    *)
(*   RETURNING; trigger: an AFTER trigger; onConflict                      *)
(*   where, params: of DIRECT, the rows it means and its "?"s              *)
(***************************************************************************)
EXTENDS Naturals, FiniteSets, Sequences, SequencesExt, FiniteSetsExt, Orders

CONSTANTS Node,       \* nodes of the executing plans
          Table,      \* tables by name
          Statements, \* what a node may have to do
          ColValues,  \* values of a column
          NullValue,
          MaxCalls,   \* bound on calls
          MaxOthers   \* bound on changes by other sessions

\* Neither DB2 nor PostgreSQL has two columns of one name or one number.
ASSUME TableAssumption ==
  \A t \in DOMAIN Table :
    LET cols == Table[t].cols
    IN  /\ cols \in Seq([name : STRING, attnum : Nat, key : BOOLEAN])
        /\ \A i, j \in DOMAIN cols : cols[i].name = cols[j].name => i = j
        /\ \A i, j \in DOMAIN cols : cols[i].attnum = cols[j].attnum /\ cols[i].attnum # 0 => i = j
        /\ IsFiniteSet(Table[t].rows)
        /\ \A r \in Table[t].rows : DOMAIN r = {cols[i].name : i \in DOMAIN cols}

ASSUME StatementsAssumption ==
  \A s \in Statements :
    /\ s.op \in {"INSERT", "COPY", "UPDATE", "DELETE", "DIRECT"} /\ s.table \in DOMAIN Table
    /\ s.set \subseteq Nat \ {0} /\ IsFiniteSet(s.set)

VARIABLES
  state,        \* of a node: idle, run, called (a direct one), ended
  stmt,         \* its statement
  sql,          \* fdw_state->query: the columns the "?"s of the text stand for
  params,       \* fdw_state->paramList: columns, in list order
  chosen,       \* rows its scan has found and it has not changed yet
  calls,        \* calls of ExecForeign... so far
  output_funcs, \* the one array of output functions: who filled in each entry
  remote,       \* the tables in DB2
  error,        \* an ERROR was raised
  wanted,       \* the tables as the statements and other sessions ask for
  garbled,      \* a value went through a function that is not its own
  others        \* changes by other sessions

modifyVars == <<state, stmt, sql, params, chosen, calls, output_funcs, remote, error, wanted, garbled, others>>

ModifyInit ==
  /\ state = [n \in Node |-> "idle"] /\ stmt = [n \in Node |-> [op |-> "none"]]
  /\ params = [n \in Node |-> <<>>] /\ chosen = [n \in Node |-> {}] /\ sql = [n \in Node |-> <<>>]
  /\ calls = 0
  /\ output_funcs = <<>> /\ remote = [t \in DOMAIN Table |-> Table[t].rows] /\ error = FALSE
  /\ wanted = remote /\ garbled = FALSE /\ others = 0

----------------------------------------------------------------------------
(* db2PlanForeignModify.  Columns are meant by their position in cols.     *)

Cols(s) == Table[s.table].cols
Having(s, Test(_)) == Ascending({i \in DOMAIN Cols(s) : Test(Cols(s)[i])})

\* db2AddForeignUpdateTargets: the columns whose old values the scan returns.
Keys(s) == Having(s, LAMBDA col : col.attnum > 0 /\ col.key)

\* Mutant: the columns before the attribute are not skipped.
NextColumnAtOnce(s, from, attno) == {i \in DOMAIN Cols(s) : i >= from}

\* The columns from here on that can be the one of this attribute.
NextColumn(s, from, attno) == {i \in DOMAIN Cols(s) : i >= from /\ Cols(s)[i].attnum >= attno}

\* The first of them is taken: right if cols is in the order of the attributes.
FindColumn(s, found, attno) ==
  LET next == NextColumn(s, IF found = <<>> THEN 1 ELSE Last(found), attno)
  IN  IF next = {} THEN found ELSE Append(found, Min(next))

SetColumns(s) ==
  LET attnos == Ascending(s.set)
      found[k \in 0 .. Len(attnos)] == IF k = 0 THEN <<>> ELSE FindColumn(s, found[k - 1], attnos[k])
  IN  found[Len(attnos)]

\* Columns marked for RETURNING: all of them for a trigger.
Returned(s) == Having(s, LAMBDA col : col.attnum > 0 /\ (s.trigger \/ col.attnum \in s.returning))

InTable(s) == Having(s, LAMBDA col : col.attnum > 0)

\* The columns of the "?"s: in VALUES or SET, and in WHERE.
Sql(s) ==
  [columns |-> CASE s.op \in {"INSERT", "COPY"} -> InTable(s) [] s.op = "UPDATE" -> SetColumns(s) [] OTHER -> <<>>,
   keys |-> IF s.op \in {"UPDATE", "DELETE"} THEN Keys(s) ELSE <<>>]

Markers(q) == q.columns \o q.keys

PlanFails(s) ==
  \/ Table[s.table].readonly                            \* db2IsForeignRelUpdatable
  \/ s.onConflict
  \/ s.op = "UPDATE" /\ Sql(s).columns = <<>>
  \/ s.op \in {"UPDATE", "DELETE"} /\ Sql(s).keys = <<>>   \* db2AddForeignUpdateTargets

\* addParam puts each one in front.
ParamsBuilt(q) == Reverse(Markers(q))
reverseParamList(list) == Reverse(list)

\* serializePlanData writes the list as it is, deserializePlanData puts each
\* entry in front.
deserializePlanData(list) == Reverse(list)

\* db2BuildInsertFdwState, for COPY, neither reverses the list nor writes it.
ParamList(s, q) == IF s.op = "COPY" THEN ParamsBuilt(q) ELSE deserializePlanData(reverseParamList(ParamsBuilt(q)))

----------------------------------------------------------------------------
(* DB2 executing a statement whose i-th "?" has the value bound[i].        *)

Failed == [ok |-> FALSE, count |-> 0, rows |-> {}]

KeysUnique(t, rows) ==
  \A r1, r2 \in rows : (\A c \in Table[t].primary : r1[c] = r2[c]) => r1 = r2

Done(t, count, rows) == IF KeysUnique(t, rows) THEN [ok |-> TRUE, count |-> count, rows |-> rows] ELSE Failed

\* The value that the statement gives to a column, if it does.
Given(s, q, bound, name, default) ==
  LET at == {i \in DOMAIN q.columns : Cols(s)[q.columns[i]].name = name}
  IN  IF at = {} THEN default ELSE bound[Max(at)]

Insertion(s, q, bound, rows) ==
  LET new == [c \in {Cols(s)[i].name : i \in DOMAIN Cols(s)} |-> Given(s, q, bound, c, NullValue)]
  IN  IF new \in rows THEN Failed ELSE Done(s.table, 1, rows \cup {new})

\* The key columns of the row have the values of the last markers.
Matches(s, q, bound, r) ==
  \A k \in DOMAIN q.keys :
    LET v == bound[Len(q.columns) + k] IN v # NullValue /\ r[Cols(s)[q.keys[k]].name] = v

Changed(s, q, bound, r) == [c \in DOMAIN r |-> Given(s, q, bound, c, r[c])]

Replaced(s, q, bound, rows, matching) ==
  LET new == IF s.op = "DELETE" THEN {} ELSE {Changed(s, q, bound, r) : r \in matching}
  IN  IF new \cap (rows \ matching) # {} THEN Failed
      ELSE Done(s.table, Cardinality(matching), (rows \ matching) \cup new)

\* DB2 refuses to assign a column twice.
Execution(s, q, bound, rows) ==
  CASE ~IsInjective(q.columns) -> Failed
    [] s.op \in {"INSERT", "COPY"} -> Insertion(s, q, bound, rows)
    [] OTHER -> Replaced(s, q, bound, rows, {r \in rows : Matches(s, q, bound, r)})

----------------------------------------------------------------------------
(* One call: setModifyParameters, then db2ExecuteQuery or db2ExecuteInsert. *)

\* A column of the key has its old value, even if the UPDATE assigns it; if
\* that is NULL the new one, of which a zero counts as NULL.
ParamValue(s, col, new, old) ==
  LET attr == Cols(s)[col].attnum
  IN  IF s.op \in {"UPDATE", "DELETE"} /\ Cols(s)[col].key
        THEN IF old[Cols(s)[col].name] # NullValue THEN old[Cols(s)[col].name]
             ELSE IF new[attr] = 0 THEN NullValue ELSE new[attr]
        ELSE new[attr]

\* Mutant: an INSERT counts positions along the list, too.
PositionsInList(s, list) == [i \in DOMAIN list |-> i]

\* What each position has: db2ExecuteQuery counts positions along the list,
\* db2ExecuteInsert takes the column's place in the table.
Positions(s, list) == IF s.op \in {"INSERT", "COPY"} THEN list ELSE [i \in DOMAIN list |-> i]

BoundValues(s, list, at, new, old) ==
  [pos \in {at[i] : i \in DOMAIN at} |-> ParamValue(s, list[CHOOSE i \in DOMAIN at : at[i] = pos], new, old)]

\* Every marker must have a value.
Result(s, q, bound, rows) == IF DOMAIN bound # DOMAIN Markers(q) THEN Failed ELSE Execution(s, q, bound, rows)

\* Mutant: the count of rows is not looked at.
AnyCount(result) == result

\* The callers raise an ERROR unless one row was changed.
OneRow(result) == IF result.count = 1 THEN result ELSE Failed

ExecForeign(s, q, list, new, old, rows) ==
  OneRow(Result(s, q, BoundValues(s, list, Positions(s, list), new, old), rows))

----------------------------------------------------------------------------
(* The table as the statement asks for it.                                 *)

SameKey(t, r1, r2) == \A c \in Table[t].primary : r1[c] = r2[c]

Asked(s, new, old, rows) ==
  LET attr == [c \in {Cols(s)[i].name : i \in DOMAIN Cols(s)} |-> Cols(s)[CHOOSE i \in DOMAIN Cols(s) : Cols(s)[i].name = c].attnum]
  IN  CASE s.op \in {"INSERT", "COPY"} -> rows \cup {[c \in DOMAIN attr |-> IF attr[c] = 0 THEN NullValue ELSE new[attr[c]]]}
        [] s.op = "DELETE" -> {r \in rows : ~SameKey(s.table, r, old)}
        [] OTHER -> {IF SameKey(s.table, r, old) THEN [c \in DOMAIN r |-> IF attr[c] \in s.set THEN new[attr[c]] ELSE r[c]] ELSE r : r \in rows}

----------------------------------------------------------------------------

Alive(n) == state[n] \in {"run", "called"}

\* Looked up for the columns that are parameters.
output_functions(n, s, list) == [i \in DOMAIN Cols(s) |-> IF i \in Range(list) THEN <<n, i>> ELSE <<>>]

ModifyFails(n) ==
  /\ error' = TRUE
  /\ UNCHANGED <<state, stmt, sql, params, chosen, calls, output_funcs, remote, wanted, garbled, others>>

\* Planning and db2BeginForeignModify or db2BeginForeignInsert.  DB2 does not
\* know RETURNING ... INTO and refuses to prepare it.
db2BeginForeignModify(n) ==
  /\ state[n] = "idle" /\ ~error
  /\ \E s \in Statements :
       /\ s.op # "DIRECT"
       /\ IF PlanFails(s) \/ (s.op # "COPY" /\ Returned(s) # <<>>)
            THEN ModifyFails(n)
            ELSE /\ state' = [state EXCEPT ![n] = "run"]
                 /\ stmt' = [stmt EXCEPT ![n] = s]
                 /\ sql' = [sql EXCEPT ![n] = Sql(s)]
                 /\ params' = [params EXCEPT ![n] = ParamList(s, Sql(s))]
                 /\ chosen' = [chosen EXCEPT ![n] = IF s.op \in {"UPDATE", "DELETE"} THEN remote[s.table] ELSE {}]
                 /\ output_funcs' = output_functions(n, s, ParamList(s, Sql(s)))
                 /\ UNCHANGED <<calls, remote, error, wanted, garbled, others>>

\* Values go through the functions of the global array.
OwnFunctions(n) ==
  \A i \in DOMAIN params[n] : params[n][i] \in DOMAIN output_funcs /\ output_funcs[params[n][i]] = <<n, params[n][i]>>

Executed(n, result, ask) ==
  /\ garbled' = (garbled \/ ~OwnFunctions(n))
  /\ IF result.ok
       THEN /\ remote' = [remote EXCEPT ![stmt[n].table] = result.rows]
            /\ wanted' = [wanted EXCEPT ![stmt[n].table] = ask]
            /\ error' = error
       ELSE error' = TRUE /\ UNCHANGED <<remote, wanted>>
  /\ calls' = calls + 1
  /\ UNCHANGED <<state, stmt, sql, params, output_funcs, others>>

Attnums(s) == {Cols(s)[i].attnum : i \in DOMAIN Cols(s)}
NewRows(s) == [Attnums(s) \ {0} -> ColValues]

CallOf(n, ops) == state[n] = "run" /\ ~error /\ calls < MaxCalls /\ stmt[n].op \in ops

\* db2GetForeignModifyBatchSize: sizeof makes both of its list lengths 1, so a
\* batch has the configured size, at most PQ_QUERY_PARAM_MAX_LIMIT.
BatchSize(s) == IF s.trigger \/ s.returning # {} THEN 1 ELSE Min({Table[s.table].batch_size, 65535})

db2ExecForeignInsert(n) ==
  /\ CallOf(n, {"INSERT", "COPY"})
  /\ \E new \in NewRows(stmt[n]) :
       Executed(n, ExecForeign(stmt[n], sql[n], params[n], new, <<>>, remote[stmt[n].table]),
                Asked(stmt[n], new, <<>>, wanted[stmt[n].table]))
  /\ UNCHANGED chosen

\* db2ExecForeignBatchInsert: one INSERT after the other.
db2ExecForeignBatchInsert(n) ==
  /\ CallOf(n, {"INSERT", "COPY"}) /\ BatchSize(stmt[n]) > 1
  /\ \E new1, new2 \in NewRows(stmt[n]) :
       LET first == ExecForeign(stmt[n], sql[n], params[n], new1, <<>>, remote[stmt[n].table])
       IN  Executed(n, IF first.ok THEN ExecForeign(stmt[n], sql[n], params[n], new2, <<>>, first.rows) ELSE Failed,
                    Asked(stmt[n], new2, <<>>, Asked(stmt[n], new1, <<>>, wanted[stmt[n].table])))
  /\ UNCHANGED chosen

\* db2ExecForeignUpdate: the columns that are not assigned are as before.
db2ExecForeignUpdate(n) ==
  /\ CallOf(n, {"UPDATE"})
  /\ \E old \in chosen[n], new \in NewRows(stmt[n]) :
       /\ \A i \in DOMAIN Cols(stmt[n]) : LET col == Cols(stmt[n])[i] IN col.attnum \notin stmt[n].set \cup {0} => new[col.attnum] = old[col.name]
       /\ Executed(n, ExecForeign(stmt[n], sql[n], params[n], new, old, remote[stmt[n].table]),
                   Asked(stmt[n], new, old, wanted[stmt[n].table]))
       /\ chosen' = [chosen EXCEPT ![n] = @ \ {old}]

\* db2ExecForeignDelete: there are no new values.
db2ExecForeignDelete(n) ==
  /\ CallOf(n, {"DELETE"})
  /\ \E old \in chosen[n] :
       /\ Executed(n, ExecForeign(stmt[n], sql[n], params[n], [a \in Attnums(stmt[n]) |-> NullValue], old, remote[stmt[n].table]),
                   Asked(stmt[n], <<>>, old, wanted[stmt[n].table]))
       /\ chosen' = [chosen EXCEPT ![n] = @ \ {old}]

\* db2EndForeignModify, db2EndForeignInsert: the functions of whichever
\* modification has begun last are freed.
db2EndForeignModifyCommon(n) ==
  /\ Alive(n) /\ ~error /\ stmt[n].op # "DIRECT"
  /\ state' = [state EXCEPT ![n] = "ended"]
  /\ output_funcs' = <<>>
  /\ UNCHANGED <<stmt, sql, params, chosen, calls, remote, error, wanted, garbled, others>>

----------------------------------------------------------------------------
(* Direct modification.                                                    *)

db2BeginDirectModify(n) ==
  /\ state[n] = "idle" /\ ~error
  /\ \E s \in Statements :
       /\ s.op = "DIRECT"
       /\ state' = [state EXCEPT ![n] = "run"]
       /\ stmt' = [stmt EXCEPT ![n] = s]
  /\ UNCHANGED <<sql, params, chosen, calls, output_funcs, remote, error, wanted, garbled, others>>

\* dmstate->paramList is NULL: DB2 refuses a statement with a marker.  It is
\* called once: the slot it returns is empty.
db2IterateDirectModify(n) ==
  /\ CallOf(n, {"DIRECT"})
  /\ LET s == stmt[n]
     IN  IF s.params > 0
           THEN ModifyFails(n)
           ELSE /\ remote' = [remote EXCEPT ![s.table] = @ \ s.where]
                /\ wanted' = [wanted EXCEPT ![s.table] = @ \ s.where]
                /\ state' = [state EXCEPT ![n] = "called"]
                /\ calls' = calls + 1
                /\ UNCHANGED <<stmt, sql, params, chosen, output_funcs, error, garbled, others>>

\* Frees output_funcs, too, though it has none of its own.
db2EndDirectModify(n) ==
  /\ Alive(n) /\ ~error /\ stmt[n].op = "DIRECT"
  /\ state' = [state EXCEPT ![n] = "ended"]
  /\ output_funcs' = <<>>
  /\ UNCHANGED <<stmt, sql, params, chosen, calls, remote, error, wanted, garbled, others>>

\* Another session commits a change of a table between the scan and the calls
\* for the rows it has found.
OtherSession ==
  /\ others < MaxOthers /\ ~error
  /\ \E t \in {stmt[n].table : n \in {m \in Node : chosen[m] # {}}} : \E r \in remote[t] : \E c \in DOMAIN r : \E v \in ColValues :
       /\ remote' = [remote EXCEPT ![t] = {IF q = r THEN [r EXCEPT ![c] = v] ELSE q : q \in @}]
       /\ KeysUnique(t, remote'[t]) /\ Cardinality(remote'[t]) = Cardinality(remote[t])
       /\ wanted' = [wanted EXCEPT ![t] = {IF q = r THEN [r EXCEPT ![c] = v] ELSE q : q \in @}]
  /\ others' = others + 1
  /\ UNCHANGED <<state, stmt, sql, params, chosen, calls, output_funcs, error, garbled>>

ModifyNext ==
  \/ \E n \in Node : \/ db2BeginForeignModify(n) \/ db2ExecForeignInsert(n) \/ db2ExecForeignBatchInsert(n)
                     \/ db2ExecForeignUpdate(n) \/ db2ExecForeignDelete(n) \/ db2EndForeignModifyCommon(n)
                     \/ db2BeginDirectModify(n) \/ db2IterateDirectModify(n) \/ db2EndDirectModify(n)
  \/ OtherSession
=============================================================================
