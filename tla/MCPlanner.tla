----------------------------- MODULE MCPlanner -----------------------------
(* Queries over two tables with an integer column and two text columns, of  *)
(* which the second has a collation of its own.                             *)
EXTENDS Answers

(***************************************************************************)
(* The solutions of the equations: below a node the same is computed.      *)
(***************************************************************************)
RECURSIVE MCNodes(_), MCVarsAndAggregates(_), MCStripRelabel(_), MCWalk(_, _, _), MCRender(_, _), MCFlat(_), MCMarked(_),
          MCUsedColumns(_, _, _), MCEvalPg(_, _), MCEvalDb2(_, _)
MCNodes(e) == NodesOf(e, [i \in DOMAIN Children(e) |-> MCNodes(Children(e)[i])])
MCVarsAndAggregates(e) == VarsAndAggregates(e, [i \in DOMAIN Children(e) |-> MCVarsAndAggregates(Children(e)[i])])
MCStripRelabel(e) == StripRelabel(e, MCStripRelabel(e.args[1]))
MCWalk(e, glob, case) ==
  LET arg == MCWalk(Argument(e), glob, case)
  IN  foreign_expr_walker(e, glob, case, arg,
                          [i \in DOMAIN Aside(e) |-> MCWalk(Aside(e)[i], glob, AsideCase(e, case, arg))],
                          [i \in DOMAIN Merged(e) |-> MCWalk(Merged(e)[i], glob, case)])
MCRender(e, relids) == deparseExpr(e, [i \in DOMAIN Operands(e) |-> MCRender(Operands(e)[i], relids)], relids)
MCFlat(t) == FlatOf(t, [i \in DOMAIN t.parts |-> MCFlat(t.parts[i])])
MCMarked(t) == MarkedOf(t, [i \in DOMAIN t.parts |-> MCMarked(t.parts[i])])
MCUsedColumns(e, cols, res) ==
  UsedColumns(e, cols, res, FoldLeft(LAMBDA acc, c : MCUsedColumns(c, cols, acc), res, UsedIn(e)))
MCEvalPg(e, env)  == PgValue(e, [k \in DOMAIN Inputs(e) |-> MCEvalPg(Inputs(e)[k], env)], env)
MCEvalDb2(t, env) == Db2Value(t, [k \in DOMAIN t.parts |-> MCEvalDb2(t.parts[k], env)], env)

MCColumns == [r \in 1..2 |-> <<[relid |-> r, attno |-> 1, type |-> "int4", coll |-> "none"],
                               [relid |-> r, attno |-> 2, type |-> "text", coll |-> "default"],
                               [relid |-> r, attno |-> 3, type |-> "text", coll |-> "C"]>>]

(* Leaves; relation 9 is one outside the scan. *)
A(r) == Var(r, 1, "int4", "none")
B(r) == Var(r, 2, "text", "default")
C(r) == Var(r, 3, "text", "C")
IntC(v)  == Const("int4", "none", FALSE, <<v>>, TRUE)
NoInt   == Const("int4", "none", TRUE, <<>>, TRUE)
Str(v, coll) == Const("text", coll, FALSE, <<v>>, TRUE)
IntP(i) == Param("extern", i, "int4", "none")

IntOp(name, l, r) == OpNode("Op", name, "int4", "int4", <<l, r>>, TRUE, IF name \in {"+", "-"} THEN "int4" ELSE "bool", "none")
StrOp(tag, name, l, r, coll) == OpNode(tag, name, "text", "text", <<l, r>>, TRUE, "bool", coll)
Fn(name, args, type, incoll) == Func(name, "call", args, TRUE, FALSE, type, incoll, incoll)
Array(vs) == Const("int4[]", "none", FALSE, vs, TRUE)
InOp(name, useOr, l, arr) == ScalarArray(name, useOr, "int4", <<l, arr>>, TRUE, "none")

IntValues == {A(1), IntC("1"), NoInt, IntP(1), A(9), IntOp("+", A(1), IntC("1")), Fn("abs", <<A(1)>>, "int4", "none"),
              OpNode("NullIf", "=", "int4", "int4", <<A(1), IntC("1")>>, TRUE, "int4", "none"),
              ListNode("Coalesce", <<A(1), IntP(1)>>, "int4", "none"),
              CaseNode(NoExpr, <<<<IntOp("=", A(1), IntC("1")), IntC("2")>>>>, IntP(1), "int4", "none"),
              CaseNode(NoExpr, <<<<IntOp("<", A(1), IntC("1")), IntC("2")>>>>, NoExpr, "int4", "none"),
              Func("random", "call", <<>>, TRUE, TRUE, "int4", "none", "none"),
              Func("mine", "call", <<A(1)>>, FALSE, FALSE, "int4", "none", "none")}
IntConds == {IntOp(name, A(1), v) : name \in {"=", "<", "/"}, v \in IntValues}
            \cup {OpNode("Distinct", "=", "int4", "int4", <<A(1), v>>, TRUE, "bool", "none") : v \in {NoInt, IntP(1)}}
            \cup {InOp("=", TRUE, A(1), arr) : arr \in {Array(<<"1", "2">>), Array(<<"1", "NULL">>), ListNode("Array", <<IntC("1"), IntP(1)>>, "int4[]", "none"),
                                                        Const("int4[]", "none", TRUE, <<>>, TRUE), Param("exec", 2, "int4[]", "none")}}
            \cup {InOp("<>", FALSE, A(1), arr) : arr \in {Array(<<"1", "2">>), Array(<<"1", "NULL">>)}}
            \cup {NullTest(isNull, v) : isNull \in BOOLEAN, v \in {A(1), IntOp("+", A(1), IntP(1))}}

(* A text comparison with the input collation PostgreSQL derives for it. *)
Collated(e, coll) == Coerce("Relabel", e, FALSE, "text", coll)
StrPairs == {<<B(1), Str("x", "default"), "default">>, <<C(1), Str("x", "default"), "C">>, <<B(1), C(1), "C">>,
             <<B(1), Str("x", "C"), "C">>, <<Collated(B(1), "C"), Str("x", "default"), "C">>,
             <<C(1), Var(9, 3, "text", "C"), "C">>, <<Var(9, 3, "text", "C"), Str("x", "default"), "C">>,
             <<B(1), Str("", "default"), "default">>, <<Param("extern", 3, "text", "default"), B(1), "default">>,
             <<Fn("lower", <<B(1)>>, "text", "default"), Str("x", "default"), "default">>,
             <<Fn("lower", <<Str("x", "default")>>, "text", "default"), C(1), "C">>,
             <<Fn("translate", <<B(1), Str("x", "default"), Str("y", "default")>>, "text", "default"), Str("x", "default"), "default">>,
             <<Fn("translate", <<B(1), Str("x", "default"), Param("extern", 3, "text", "default")>>, "text", "default"), Str("x", "default"), "default">>}
StrConds == {StrOp(t[1], t[2], q[1], q[2], q[3]) : t \in {<<"Op", "=">>, <<"Op", "~~">>, <<"Distinct", "=">>}, q \in StrPairs}

(* The collation of the column that is the argument of a CASE. *)
CaseOf(e, coll) == CaseNode(e, <<<<StrOp("Op", "=", CaseTest("text", coll), Str("x", "default"), coll), IntC("2")>>>>, IntC("0"), "int4", "none")
CaseConds == {IntOp("=", CaseOf(e[1], e[2]), IntC("1")) : e \in {<<C(1), "C">>, <<B(1), "default">>, <<Var(9, 3, "text", "C"), "C">>}}

Some == {IntOp("=", A(1), IntC("1")), IntOp("<", A(1), IntP(1)), StrOp("Op", "=", B(1), Str("x", "default"), "default"),
         InOp("<>", FALSE, A(1), Array(<<"1", "NULL">>)), NullTest(TRUE, A(1)),
         StrOp("Op", "=", B(1), Str("x", "C"), "C")}
Conds == IntConds \cup StrConds \cup CaseConds \cup {Bool("NOT", <<e>>) : e \in Some} \cup {Bool(op, <<e, f>>) : op \in {"AND", "OR"}, e \in Some, f \in Some}

(***************************************************************************)
(* Queries.                                                                *)
(***************************************************************************)
Col(e) == [expr |-> e, ref |-> 0]
NoLimit == [count |-> NoExpr, offset |-> NoExpr, ties |-> FALSE]
Select == [cmd |-> "SELECT", rels |-> {1}, restrict |-> <<<<>>, <<>>>>, lateral |-> <<<<>>, <<>>>>,
           joinquals |-> <<>>, jointype |-> "INNER", joinVars |-> <<>>,
           target |-> <<<<Col(A(1))>>, <<Col(A(2))>>, <<Col(A(1)), Col(A(2))>>>>, grouped |-> <<>>, groupClause |-> <<>>, hasAggs |-> FALSE,
           groupingSets |-> FALSE, having |-> <<>>, sort |-> <<>>, sortrefs |-> {}, pathkeys |-> <<>>,
           distinct |-> FALSE, window |-> FALSE, srf |-> FALSE, limit |-> NoLimit, rowmark |-> <<"none", "none">>,
           set |-> <<>>, returning |-> FALSE, result |-> 0]
Where(q, r, es) == [q EXCEPT !.restrict[r] = es]
Limited(q, count, offset) == [q EXCEPT !.limit = [count |-> count, offset |-> offset, ties |-> FALSE]]
Outputs(q, r, es) == [q EXCEPT !.target[r] = [k \in DOMAIN es |-> Col(es[k])]]

Cond1 == IntOp("=", A(1), IntC("1"))
Cond2 == IntOp("<", A(1), IntP(1))
LocalCond == IntOp("/", A(1), IntC("1"))
Translated == Fn("translate", <<B(1), Str("x", "default"), Str("y", "default")>>, "text", "default")

(* A condition on another relation, too, is not one of the scan itself: it comes *)
(* with a lateral reference, and its columns are in the target list.             *)
OneCondition == {IF 9 \in pull_varnos(e)
                   THEN [Outputs(Select, 1, SelectSeq(pull_var_clause(e), LAMBDA v : v.varno = 1)) EXCEPT !.lateral[1] = <<e>>]
                   ELSE Where(Select, 1, <<e>>) : e \in Conds}
Scans == {Outputs(Where(Select, 1, w), 1, t) :
            w \in {<<>>, <<Cond1, LocalCond>>, <<StrOp("Op", "=", C(1), Str("x", "default"), "C"), Cond2>>},
            t \in {<<>>, <<B(1), A(1)>>, <<IntOp("+", A(1), IntP(2)), C(1)>>, <<Translated, B(1)>>, <<A(1), Translated>>}}
         \cup {[Where(Select, 1, <<Cond1>>) EXCEPT !.lateral[1] = <<IntOp("=", A(1), A(9))>>]}
         \cup {[Select EXCEPT !.rowmark[1] = m] : m \in {"share", "update"}}

(* Sorted: the members of a key's class, over one table or both. *)
Key(members) == [members |-> members, desc |-> FALSE, nulls |-> "LAST", shippable |-> TRUE, volatile |-> FALSE]
Down(key) == [key EXCEPT !.desc = TRUE, !.nulls = "FIRST"]
SortKeys == {<<Key(<<A(1)>>)>>, <<Down(Key(<<A(1)>>)), Key(<<B(1)>>)>>, <<Key(<<A(2), A(1)>>)>>, <<Key(<<IntC("1"), A(1)>>)>>,
             <<Key(<<A(9)>>)>>, <<Key(<<A(1)>>), Key(<<IntOp("/", A(1), IntC("1"))>>)>>,
             <<[Key(<<A(1)>>) EXCEPT !.volatile = TRUE]>>, <<[Key(<<A(1)>>) EXCEPT !.shippable = FALSE]>>,
             <<Key(<<IntOp("+", A(1), IntP(1))>>)>>, <<Key(<<IntOp("+", A(1), NullTest(TRUE, ListNode("Array", <<A(1)>>, "int4[]", "none")))>>)>>,
             <<Key(<<CaseNode(NoExpr, <<<<Cond1, IntC("2")>>>>, NoExpr, "int4", "none")>>)>>}
Sorts == {[Select EXCEPT !.sort = k, !.pathkeys = k] : k \in SortKeys}
Limits == {Limited(q, l[1], l[2]) : q \in {Select, Where(Select, 1, <<Cond2>>), Where(Select, 1, <<LocalCond>>),
                                          [Select EXCEPT !.distinct = TRUE], [Select EXCEPT !.window = TRUE], [Select EXCEPT !.srf = TRUE],
                                          [Select EXCEPT !.sort = <<Key(<<A(1)>>)>>, !.pathkeys = <<Key(<<A(1)>>)>>],
                                          [Select EXCEPT !.rowmark[1] = "update"]},
                                   l \in {<<IntC("1"), NoExpr>>, <<IntP(2), IntP(3)>>, <<Func("random", "call", <<>>, TRUE, TRUE, "int4", "none", "none"), NoExpr>>}}
          \cup {[Limited(Select, IntC("1"), NoExpr) EXCEPT !.limit.ties = TRUE]}

(* Joins of the two tables. *)
JoinQ == [Select EXCEPT !.rels = {1, 2}, !.joinquals = <<IntOp("=", A(1), A(2))>>, !.joinVars = <<B(1), A(2)>>,
                        !.target[3] = <<Col(B(1)), Col(A(2))>>, !.target[1] = <<Col(B(1)), Col(A(1))>>]
Joins == {JoinQ, [JoinQ EXCEPT !.jointype = "LEFT"], [JoinQ EXCEPT !.joinquals = <<>>],
          [JoinQ EXCEPT !.joinquals = <<IntOp("=", A(1), A(2)), IntOp("<", A(2), IntP(1))>>],
          [JoinQ EXCEPT !.joinquals = <<IntOp("/", A(1), A(2))>>], [JoinQ EXCEPT !.cmd = "UPDATE", !.result = 1],
          [JoinQ EXCEPT !.joinVars = <<Var(1, 0, "row", "none"), A(2)>>, !.target[3] = <<Col(A(2))>>],
          Where(Where(JoinQ, 1, <<Cond1>>), 2, <<IntOp("<", A(2), IntP(2))>>), Where(JoinQ, 1, <<LocalCond>>), Where(JoinQ, 2, <<IntOp("/", A(2), IntC("1"))>>),
          [Limited(Where(JoinQ, 1, <<Cond2>>), IntP(2), NoExpr) EXCEPT !.rowmark[1] = "update"]}

(* Groupings, over a table or the join. *)
Agg(name, args, type) == Aggref(name, "n", args, {}, <<>>, <<>>, FALSE, NoExpr, args = <<>>, FALSE, TRUE, type, "none", "none")
CountStar == Agg("count", <<>>, "int8")
Max1 == Agg("max", <<A(1)>>, "int4")
Sum1 == Agg("sum", <<A(1)>>, "int8")
Pct == Aggref("percentile_cont", "o", <<A(1)>>, {}, <<IntC("1")>>, <<[arg |-> 1, shippable |-> TRUE, desc |-> TRUE]>>, FALSE, NoExpr, FALSE, FALSE, TRUE, "float8", "none", "none")
Median == Agg("string_agg", <<B(1)>>, "text")
Grouped(q, cols, having) == [q EXCEPT !.hasAggs = TRUE, !.grouped = cols, !.having = having, !.target[1] = <<Col(A(1)), Col(B(1))>>,
                                      !.groupClause = Concat([k \in DOMAIN cols |-> IF cols[k].ref # 0 THEN <<cols[k].ref>> ELSE <<>>])]
ByA == [expr |-> A(1), ref |-> 1]
ByB == [expr |-> B(1), ref |-> 2]
Having1 == IntOp("<", Max1, IntP(2))
HavingLocal == IntOp("/", Sum1, IntC("1"))
GroupQs == {Grouped(q, cols, h) : q \in {Select, Where(Select, 1, <<Cond1>>), Where(Select, 1, <<LocalCond>>)},
                                  cols \in {<<ByB, Col(Max1)>>, <<Col(CountStar), Col(Sum1)>>, <<ByA, ByB, Col(Pct)>>},
                                  h \in {<<>>, <<Having1>>, <<HavingLocal, Having1>>, <<IntOp("/", Median, IntC("1"))>>}}
           \cup {Grouped(Select, cols, <<>>) : cols \in {<<ByB, Col(Median)>>, <<[expr |-> IntP(1), ref |-> 1], Col(CountStar)>>, <<ByB, Col(IntP(1)), Col(CountStar)>>,
                                                         <<[expr |-> IntOp("/", A(1), IntC("1")), ref |-> 1], Col(CountStar)>>,
                                                         <<ByA, [ByA EXCEPT !.ref = 3], Col(IntOp("/", Max1, Sum1))>>}}
           \cup {[Grouped(Select, <<ByB, Col(CountStar)>>, <<>>) EXCEPT !.groupingSets = TRUE], Grouped(JoinQ, <<ByB, Col(Agg("max", <<A(2)>>, "int4"))>>, <<>>)}
ByBSorted == [Grouped(Where(Select, 1, <<Cond2>>), <<ByB, Col(Max1)>>, <<Having1>>) EXCEPT !.pathkeys = <<Key(<<B(1)>>)>>, !.sort = <<Key(<<B(1)>>)>>, !.sortrefs = {2}]
GroupSorts == {ByBSorted, Limited(ByBSorted, IntP(3), IntC("1")), Limited([ByBSorted EXCEPT !.having = <<HavingLocal>>], IntC("1"), NoExpr), [ByBSorted EXCEPT !.distinct = TRUE],
               [ByBSorted EXCEPT !.sort = <<Down(Key(<<Max1>>))>>, !.sortrefs = {4}, !.grouped = <<ByB, [expr |-> Max1, ref |-> 4]>>],
               [ByBSorted EXCEPT !.sort = <<Key(<<A(1)>>)>>], Limited([ByBSorted EXCEPT !.srf = TRUE], IntC("1"), NoExpr),
               Limited(Grouped(Select, <<ByB, Col(CountStar)>>, <<>>), IntC("1"), NoExpr)}

(* Modifications. *)
Update == [Select EXCEPT !.cmd = "UPDATE", !.result = 1, !.target[1] = <<Col(A(1))>>,
                         !.set = <<[attno |-> 2, expr |-> Str("x", "default")], [attno |-> 1, expr |-> IntOp("+", A(1), IntP(1))]>>]
Modifies == {Where(q, 1, w) : q \in {Update, [Update EXCEPT !.cmd = "DELETE", !.set = <<>>], [Update EXCEPT !.returning = TRUE],
                                     [Update EXCEPT !.set = <<[attno |-> 1, expr |-> LocalCond]>>]},
                              w \in {<<>>, <<Cond1, IntOp("<", A(1), IntP(2))>>, <<Cond1, LocalCond>>}}

MCQueries == OneCondition \cup Scans \cup Sorts \cup Limits \cup Joins \cup GroupQs \cup GroupSorts \cup Modifies

(* All expressions of the queries and all columns of the tables, with what is below them. *)
Exprs1(q) == UNION {ToSet(q.restrict[r] \o q.lateral[r]) : r \in Bases}
             \cup ToSet(q.joinquals \o q.joinVars \o q.having) \cup {q.limit.count, q.limit.offset}
Exprs2(q) == {t.expr : t \in UNION {ToSet(ts) : ts \in ToSet(Append(q.target, q.grouped))}}
             \cup {s.expr : s \in ToSet(q.set)} \cup UNION {ToSet(k.members) : k \in ToSet(q.sort \o q.pathkeys)}
MCExpressions == {NoExpr} \cup {Var(r, k, Columns[r][k].type, Columns[r][k].coll) : r \in Bases, k \in 1 .. NPgCols}
                 \cup UNION {ToSet(Nodes(e)) : e \in UNION {Exprs1(q) \cup Exprs2(q) : q \in Queries}}

(***************************************************************************)
(* Queries that run into what the code does not do.                        *)
(***************************************************************************)
WithArg == CaseNode(A(1), <<<<IntOp("=", CaseTest("int4", "none"), IntC("1")), IntC("2")>>>>, IntC("0"), "int4", "none")
UnprintedQueries == {Where(Select, 1, <<IntOp("=", e, IntC("1"))>>) : e \in {A(1), WithArg}}
                    \cup {Where(Select, 1, <<InOp(n, o, A(1), Array(vs))>>) : n \in {"=", "<"}, o \in BOOLEAN, vs \in {<<>>, <<"1">>}}
MisplacedQueries == {Outputs(Where(Select, 1, w), 1, t) : w \in {<<>>, <<Cond1>>}, t \in {<<Var(1, -1, "tid", "none"), A(1)>>, <<A(1), B(1)>>, <<Var(1, 0, "row", "none")>>}}
                    \cup {Grouped(Select, <<[expr |-> Fn("length", <<B(1)>>, "int4", "default"), ref |-> 1], Col(CountStar)>>, <<>>)}
=============================================================================
