--------------------------- MODULE MCForeignExec ---------------------------
EXTENDS ForeignExec

Perms == Permutations(Node)

(* Scans: a text column, a decimal and a DECFLOAT, in another order than the *)
(* slot has them; the slot's fourth attribute is not in the result.          *)
Res(resnum, exact, decfloat, val_size, colSize, colScale) ==
  [resnum |-> resnum, exact |-> exact, decfloat |-> decfloat, val_size |-> val_size, colSize |-> colSize, colScale |-> colScale]
MCResults == <<Res(3, TRUE, TRUE, 8, 34, 0), Res(1, FALSE, FALSE, 5, 4, 0), Res(2, TRUE, FALSE, 4, 5, 2)>>
Select(markers, types) == [markers |-> markers, types |-> types, results |-> MCResults, natts |-> 4]

MCQueries == {Select(<<>>, <<>>), Select(<<1>>, <<"string">>), Select(<<0>>, <<>>), Select(<<1>>, <<"number">>),
              Select(<<1, 0>>, <<"string">>), Select(<<1, 2>>, <<"string", "string">>), Select(<<0, 0>>, <<>>),
              [Select(<<>>, <<>>) EXCEPT !.natts = 2]}

V(text, len) == [text |-> text, len |-> len]
Rows == <<<<V("t1", 4), V("d1", 7), V("f1", 42)>>, <<Null, V("d2", 3), Null>>, <<V("t3", 5), V("d3", 8), V("f3", 3)>>,
          <<V("", 0), Null, V("f4", 64)>>>>
MCAnswer(q, mv) ==
  IF mv = <<>> THEN Rows
  ELSE IF mv[1] = "p" THEN SubSeq(Rows, 1, 2) ELSE IF mv[1] = "now" THEN SubSeq(Rows, 2, 3) ELSE <<>>

(* Tables. *)
C(name, attnum, key) == [name |-> name, attnum |-> attnum, key |-> key]
T(cols, primary, rows) == [cols |-> cols, primary |-> primary, rows |-> rows, readonly |-> FALSE, batch_size |-> 1]
R2(k, a) == [k |-> k, a |-> a]
MCTable ==
  [plain   |-> T(<<C("k", 1, TRUE), C("a", 2, FALSE)>>, {"k"}, {R2(0, 1), R2(1, 1)}),
   empty   |-> [T(<<C("k", 1, TRUE), C("a", 2, FALSE)>>, {"k"}, {}) EXCEPT !.batch_size = 2],
   swapped |-> T(<<C("a", 2, FALSE), C("k", 1, TRUE)>>, {"k"}, {R2(1, 0)}),
   gap     |-> T(<<C("k", 1, TRUE), C("x", 0, FALSE), C("a", 2, FALSE)>>, {"k"}, {[k |-> 1, x |-> 0, a |-> 0]}),
   tail    |-> T(<<C("k", 1, TRUE), C("a", 2, FALSE), C("x", 0, FALSE)>>, {"k"}, {[k |-> 1, x |-> 0, a |-> 0]}),
   wide    |-> T(<<C("k", 1, TRUE), C("j", 2, TRUE), C("a", 3, FALSE)>>, {"k", "j"},
                 {[k |-> 0, j |-> 1, a |-> 0], [k |-> 1, j |-> 0, a |-> 1]}),
   partial |-> T(<<C("k", 1, FALSE), C("a", 2, TRUE)>>, {"k"}, {R2(0, 1), R2(1, 1)}),
   fixed   |-> [T(<<C("k", 1, TRUE), C("a", 2, FALSE)>>, {"k"}, {}) EXCEPT !.readonly = TRUE]]

S(op, table) == [op |-> op, table |-> table, set |-> {}, returning |-> {}, trigger |-> FALSE, onConflict |-> FALSE, where |-> {}, params |-> 0]
Update(table, set) == [S("UPDATE", table) EXCEPT !.set = set]
MCStatements ==
  {S("INSERT", t) : t \in {"empty", "swapped", "gap", "fixed"}} \cup {[S("COPY", "tail") EXCEPT !.trigger = TRUE]}
  \cup {S("DELETE", t) : t \in {"plain", "wide", "partial"}}
  \cup {Update("plain", {1, 2}), Update("plain", {3}), Update("swapped", {2}), Update("wide", {2, 3})}
  \cup {[S("INSERT", "plain") EXCEPT !.returning = {2}], [S("INSERT", "plain") EXCEPT !.onConflict = TRUE]}
  \cup {[S("DIRECT", "plain") EXCEPT !.where = {R2(0, 1)}], [S("DIRECT", "plain") EXCEPT !.where = {R2(0, 1)}, !.params = 1]}
=============================================================================
