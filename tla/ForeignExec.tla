---------------------------- MODULE ForeignExec ----------------------------
(***************************************************************************)
(* The executor with a statement on foreign tables: either it reads with a *)
(* scan, or it modifies, with several modifications at once if a trigger,  *)
(* a function or a common table expression brings another one.             *)
(***************************************************************************)
EXTENDS ForeignScan, ForeignModify

vars == <<scanVars, modifyVars>>

Init == ScanInit /\ ModifyInit

Next ==
  \/ /\ \A n \in Node : state[n] = "idle"
     /\ ScanNext /\ UNCHANGED modifyVars
  \/ /\ scan = "idle"
     /\ ModifyNext /\ UNCHANGED scanVars

Spec == Init /\ [][Next]_vars

Begun(n) == state[n] # "idle"

----------------------------------------------------------------------------

\* Statements whose parameters cannot be confused: one that inserts, one that
\* deletes by a key of one column, which is DB2's primary key, too, and one
\* that is executed in DB2 as a whole.
Unambiguous(s, q) ==
  \/ s.op \in {"INSERT", "COPY", "DIRECT"}
  \/ s.op = "DELETE" /\ Len(q.keys) = 1 /\ Table[s.table].primary = {Cols(s)[q.keys[1]].name}

\* Without an ERROR such statements have done to the tables in DB2 what they
\* were asked for and nothing else: each value is in its own column, also if
\* DB2 has columns the foreign table lacks or in another order, and the rows
\* that were chosen are gone, whatever other sessions did meanwhile.  Nothing is
\* said once a value has gone through a function of another modification.
ChosenRowsOnly ==
  ~error /\ ~garbled /\ (\A n \in Node : Begun(n) => Unambiguous(stmt[n], sql[n])) => remote = wanted

\* A call for one row that raises no ERROR changes one row, even if the key
\* option is missing on a column of the primary key.
RowByRow ==
  [][\A n \in Node : chosen'[n] # chosen[n] /\ state'[n] = state[n] /\ ~error' /\ stmt[n].op \in {"UPDATE", "DELETE"} =>
       LET old == remote[stmt[n].table]
           new == remote'[stmt[n].table]
       IN  /\ Cardinality(old \ new) <= 1
           /\ Cardinality(new) = Cardinality(old) - (IF stmt[n].op = "DELETE" THEN 1 ELSE 0)]_vars

InOrder(cols) == \A i, j \in DOMAIN cols : i < j /\ cols[j].attnum > 0 => cols[i].attnum < cols[j].attnum

\* An UPDATE assigns the columns it was asked to assign, if DB2 has them all
\* and in the order of the foreign table.
UpdateNamesItsColumns ==
  \A n \in Node :
    Begun(n) /\ stmt[n].op = "UPDATE" /\ InOrder(Cols(stmt[n])) =>
      LET attnums == {Cols(stmt[n])[i].attnum : i \in DOMAIN Cols(stmt[n])}
      IN  stmt[n].set \subseteq attnums => {Cols(stmt[n])[i].attnum : i \in Range(sql[n].columns)} = stmt[n].set

\* "db2ExecuteQuery() binds parameters in list traversal order (1..N)": each
\* "?" of an UPDATE or DELETE has the value of its own column.
ParamsInMarkerOrder ==
  \A n \in Node : Begun(n) /\ stmt[n].op \in {"UPDATE", "DELETE"} => params[n] = Markers(sql[n])
=============================================================================
