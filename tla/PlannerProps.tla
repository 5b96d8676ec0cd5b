---------------------------- MODULE PlannerProps ----------------------------
(***************************************************************************)
(* What a plan of db2_fdw must be, whatever path has won: properties of    *)
(* module Planner.  They compare the plan with the query, not with the     *)
(* steps that made it.                                                     *)
(***************************************************************************)
EXTENDS Planner

(***************************************************************************)
(* What the plan sends: pairs of an expression and its text.               *)
(***************************************************************************)
Pair(es, txts) == [k \in DOMAIN es |-> [expr |-> es[k], txt |-> txts[k]]]
ScanOf == IF rels[plan.rel].kind = "upper" THEN rels[plan.rel].fdw.outer ELSE plan.rel
WhereExprs == IF rels[plan.rel].kind = "upper" THEN rels[ScanOf].fdw.remote_conds ELSE plan.remote
JoinExprs  == rels[ScanOf].fdw.joinclauses
HavingExprs == IF rels[plan.rel].kind = "upper" THEN plan.remote ELSE <<>>
ListExprs ==
  CASE plan.stmt.cmd = "SELECT" -> plan.scan
    [] plan.stmt.cmd = "UPDATE" -> [k \in DOMAIN query.set |-> query.set[k].expr]
    [] plan.stmt.cmd = "DELETE" -> <<>>
WalkedPairs == Pair(WhereExprs, plan.stmt.where) \o Pair(HavingExprs, plan.stmt.having)
            \o (IF ListExprs = <<>> THEN <<>> ELSE Pair(ListExprs, plan.stmt.list))
Sent == WalkedPairs \o Pair(JoinExprs, plan.stmt.on)
Whole(pair) == ~HasHole(pair.txt)
OwnRelids == rels[ScanOf].relids

(* DB2 compares by the collation of the column: whatever is sent and depends on a  *)
(* collation has a column of the scanned tables with that collation below it; inside *)
(* a CASE with an argument, where the argument is named instead, the expression has. *)
ColumnWith(coll, e) == Has(e, LAMBDA v : IsA(v, "Var") /\ v.varno \in OwnRelids /\ v.coll = coll)
CollationComesFromColumn ==
  plan.made => \A pair \in ToSet(WalkedPairs) : \A n \in ToSet(Nodes(pair.expr)) :
    n.tag \in {"Op", "Distinct", "Func", "ScalarArray", "Aggref"} /\ n.incoll # "none"
      => \/ ColumnWith(n.incoll, n)
         \/ ColumnWith(n.incoll, pair.expr) /\ Has(n, LAMBDA c : IsA(c, "CaseTest"))

(* The walker's answer is kept for operators and functions: one that is sent and *)
(* whose operands have a text has a text itself.                                 *)
OperatorsHaveTexts ==
  plan.made => \A pair \in ToSet(WalkedPairs) : \A n \in ToSet(Nodes(pair.expr)) :
    /\ n.tag \in {"Op", "Distinct", "Func"}
    /\ \A k \in DOMAIN n.args : ~IsNothing(Render(n.args[k], OwnRelids).txt)
    => ~IsNothing(Render(n, OwnRelids).txt)

(* What the walker accepts the deparser can print.  The code breaks this. *)
SentIsWhole == plan.made => \A pair \in ToSet(WalkedPairs) : Whole(pair)

(***************************************************************************)
(* Conditions.                                                             *)
(***************************************************************************)
SameBag(es, fs) == \A e \in ToSet(es \o fs) : Cardinality({k \in DOMAIN es : es[k] = e}) = Cardinality({k \in DOMAIN fs : fs[k] = e})
OwnClauses(r) == IF r \in OwnRelids THEN query.restrict[r] \o query.lateral[r] ELSE <<>>
ScanClausesOf == OwnClauses(1) \o OwnClauses(2) \o (IF rels[ScanOf].kind = "join" THEN query.joinquals ELSE <<>>)

(* Each condition on the relations of the scan is applied once: below a grouping  *)
(* all of them by ON and WHERE, otherwise by those or by the node; the conditions *)
(* of HAVING by HAVING or by the node above the grouping, and by nothing below.   *)
EveryClauseOnce ==
  plan.made =>
    IF rels[plan.rel].kind = "upper"
      THEN /\ SameBag(WhereExprs \o JoinExprs, ScanClausesOf)
           /\ SameBag(HavingExprs \o plan.qual, query.having)
      ELSE SameBag(WhereExprs \o JoinExprs \o plan.qual, ScanClausesOf)

(* A plan with LIMIT leaves nothing to do that could change which rows come first. *)
LimitIsExact ==
  plan.made /\ plan.path.limit =>
    /\ plan.qual = <<>> /\ ~query.distinct /\ ~query.window /\ ~query.srf /\ ~query.limit.ties
    /\ OwnRelids = query.rels
    /\ Grouping(query) => rels[plan.rel].kind = "upper"
    /\ query.sort # <<>> => plan.path.pathkeys = query.sort /\ ~plan.stmt.error

(* An order that a path claims is in the statement: each key is in its place, with *)
(* its direction and its place for nulls, and is the text of an expression that    *)
(* PostgreSQL takes for equal to the key and that DB2 may evaluate: one over the   *)
(* scanned columns alone, whose text is not empty, or a sort column of a grouping. *)
KeyOfScan(e, key) == pull_varnos(e) # {} /\ pull_varnos(e) \subseteq OwnRelids /\ ~IsNothing(key)
KeyOfGrouping(e) ==
  \E t \in ToSet(query.grouped) : t.ref \in query.sortrefs /\ strip_relabel(e) = strip_relabel(t.expr)
OrderedAsClaimed ==
  plan.made /\ plan.stmt.cmd = "SELECT" =>
    /\ ~plan.stmt.error
    /\ Len(plan.stmt.order) = Len(plan.path.pathkeys)
    /\ \A k \in DOMAIN plan.stmt.order :
         LET key == plan.stmt.order[k]  pathkey == plan.path.pathkeys[k] IN
         /\ key.desc = pathkey.desc /\ key.nulls = pathkey.nulls
         /\ \E e \in ToSet(pathkey.members) :
              /\ key.key = Render(e, OwnRelids).txt /\ Ships(rels, plan.rel, e)
              /\ IF plan.path.sort THEN KeyOfGrouping(e) ELSE KeyOfScan(e, key.key)

(***************************************************************************)
(* Columns and parameters.                                                 *)
(***************************************************************************)
(* Whatever PostgreSQL evaluates at or above a scan of one table finds its columns *)
(* in the scan's list: its output, its own conditions, those it may recheck.       *)
ScanListCoversNeeds ==
  plan.made /\ rels[plan.rel].kind = "base" =>
    \A e \in ToSet(plan.tlist \o plan.qual \o plan.recheck \o Exprs(rels[plan.rel].target)) :
      \A v \in ToSet(pull_var_clause(e)) :
        v.varno = plan.rel => Contains(plan.scan, v) \/ (Contains(plan.scan, e) /\ is_translate_func_expr(e))

(* The k-th item of the SELECT list is fetched by the entry with position k, into *)
(* a value of its type.  The code breaks this.                                    *)
ResultsMatchSelectList ==
  plan.made =>
    /\ Len(plan.results) = Len(plan.scan)
    /\ \A k \in DOMAIN plan.scan :
         LET e == plan.scan[k]  res == plan.results[k] IN
         /\ res.pos = k /\ res.type = exprType(e)
         /\ IsA(e, "Var") => <<res.relid, res.attno>> = <<e.varno, e.attno>>

KeepsType(e) == \/ IsA(e, "Var") /\ e.attno > 0
                \/ IsA(e, "Aggref")
                \/ pull_var_clause(e) # <<>> /\ ~HasWholeRow(e) /\ exprType(pull_var_clause(e)[1]) = exprType(e)

(* They do match for columns, aggregates and expressions that keep their column's type. *)
PlainResultsMatch ==
  plan.made /\ (\A e \in ToSet(plan.scan \o query.restrict[1] \o query.restrict[2]) :
                  ~HasWholeRow(e)) /\ (\A e \in ToSet(plan.scan) : KeepsType(e)) => ResultsMatchSelectList

StatementTexts == plan.stmt.list \o plan.stmt.on \o plan.stmt.where \o plan.stmt.having
                  \o [k \in DOMAIN plan.stmt.order |-> plan.stmt.order[k].key] \o plan.stmt.limit
MarkedNodes == Concat([k \in DOMAIN StatementTexts |-> Marked(StatementTexts[k])])

(* The parameters are listed as their markers follow one another in the statement,  *)
(* so that a value can be bound by its position.  TRANSLATE exchanges two arguments *)
(* and a parameter used twice is listed once; these two break it.                   *)
ParamsFollowMarkers ==
  plan.made /\ (\A k \in DOMAIN StatementTexts : ~HasHole(StatementTexts[k])
                    /\ ~\E i \in DOMAIN Flat(StatementTexts[k]) : Flat(StatementTexts[k])[i].kw = "TRANSLATE")
    /\ Cardinality(ToSet(MarkedNodes)) = Len(MarkedNodes)
    => plan.stmt.params = MarkedNodes

(* A statement that modifies in place changes the rows PostgreSQL would have chosen: *)
(* all conditions are in it and none is left to the node, no other table chooses the *)
(* rows, every assigned column has its value, and nobody waits for the rows.         *)
DirectModifyComplete ==
  plan.made /\ plan.stmt.cmd # "SELECT" =>
    /\ plan.qual = <<>> /\ ~query.returning /\ query.rels = {query.result}
    /\ ToSet(WhereExprs) = ToSet(query.restrict[query.result])
    /\ Len(plan.stmt.where) = Len(query.restrict[query.result])
    /\ plan.stmt.cmd = query.cmd /\ plan.stmt.from = <<query.result>>
    /\ plan.stmt.cmd = "UPDATE" => /\ plan.stmt.group = [k \in DOMAIN query.set |-> query.set[k].attno]
                                   /\ \A k \in DOMAIN query.set : Ships(rels, plan.rel, query.set[k].expr)
=============================================================================
