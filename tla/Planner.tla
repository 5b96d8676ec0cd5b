------------------------------ MODULE Planner ------------------------------
(***************************************************************************)
(* Planning one query over one or two DB2 tables of the same server: the   *)
(* callbacks that collect paths for the base relations, their join and the *)
(* upper relations, the plan made from one of those paths, and the direct  *)
(* modification that may replace it.                                       *)
(*                                                                         *)
(* PostgreSQL decides the order of the calls and which path wins; here any *)
(* path may.  A path is [parent, pathkeys, sort, limit]: the relation it   *)
(* scans, the order it claims and what db2_fdw keeps in its fdw_private.   *)
(***************************************************************************)
EXTENDS DeparseStmt

CONSTANTS Queries,    \* the queries that may be planned
          Columns,    \* the columns of every DB2 table: sequences of [relid, attno, type]
          NPgCols,    \* how many columns the foreign table declares
          getUsedColumns(_, _, _)     \* what UsedColumns computes for an expression

VARIABLES query,      \* the query, as PostgreSQL has parsed and analysed it
          rels,       \* RelOptInfo of every relation made so far
          todo,       \* the upper stages that are still to be visited
          top,        \* the relation the last stage left behind
          plan        \* the ForeignScan node, once made

vars == <<query, rels, todo, top, plan>>

JoinRel == 3
UpperRel == [GROUP_AGG |-> 4, WINDOW |-> 5, DISTINCT |-> 6, ORDERED |-> 7, FINAL |-> 8]

NoPlan == [made |-> FALSE]
NoRel  == [kind |-> "none", relids |-> {}, fdw |-> NoFdw, target |-> <<>>, paths |-> {}]
Path(parent, pathkeys, sort, limit) == [parent |-> parent, pathkeys |-> pathkeys, sort |-> sort, limit |-> limit]
ZeroFdw == [has |-> TRUE, remote_conds |-> <<>>, local_conds |-> <<>>, joinclauses |-> <<>>, pushdown_safe |-> FALSE,
            stage |-> "none", outer |-> 0, inner |-> 0, grouped_tlist |-> <<>>, params |-> <<>>,
            cols |-> <<>>, final_remote_exprs |-> <<>>]

(* The stages PostgreSQL goes through above the scan or join. *)
Grouping(q) == q.hasAggs \/ q.groupClause # <<>>
Needed(q) == {"FINAL"} \cup (IF Grouping(q) THEN {"GROUP_AGG"} ELSE {}) \cup (IF q.window THEN {"WINDOW"} ELSE {})
             \cup (IF q.distinct THEN {"DISTINCT"} ELSE {}) \cup (IF q.sort # <<>> THEN {"ORDERED"} ELSE {})
Stages(q) == Only(<<"GROUP_AGG", "WINDOW", "DISTINCT", "ORDERED", "FINAL">>, Needed(q))
ScanTop(q) == IF Cardinality(q.rels) = 1 THEN CHOOSE r \in q.rels : TRUE ELSE JoinRel

(***************************************************************************)
(* What PostgreSQL sees to.  It refuses row locks above a grouping.  A     *)
(* condition with a lateral reference is about a table that is joined with *)
(* one of another server, so that nothing is built above its scan; its     *)
(* columns are among those of the scan.                                    *)
(***************************************************************************)
Parameterised(q, r) ==
  /\ q.rels = {r} /\ q.cmd = "SELECT" /\ ~Grouping(q) /\ q.limit.count = NoExpr /\ q.limit.offset = NoExpr
  /\ \A e \in ToSet(q.lateral[r]) : \A v \in ToSet(pull_var_clause(e)) :
       v.varno = r => v \in ToSet(Exprs(q.target[r]))

ASSUME QueriesAssumption ==
  LET Exprlists == Seq(Expressions) IN
  \A q \in Queries :
    /\ q.rels \in {{1}, {2}, {1, 2}}
    /\ \A r \in Bases : q.restrict[r] \in Exprlists /\ q.lateral[r] \in Exprlists
    /\ q.joinquals \in Exprlists /\ q.having \in Exprlists
    /\ q.limit.count \in Expressions /\ q.limit.offset \in Expressions
    /\ IsList(q.set) /\ \A s \in ToSet(q.set) : s.expr \in Expressions
    /\ \A r \in Bases \cup {JoinRel} : Exprs(q.target[r]) \in Exprlists
    /\ IsList(q.grouped) /\ Exprs(q.grouped) \in Exprlists
    /\ IsList(q.sort) /\ \A key \in ToSet(q.sort) : key.members \in Exprlists
    /\ IsList(q.pathkeys) /\ \A key \in ToSet(q.pathkeys) : key.members \in Exprlists
    /\ Grouping(q) => \A r \in DOMAIN q.rowmark : q.rowmark[r] = "none"
    /\ \A r \in Bases : q.lateral[r] # <<>> => Parameterised(q, r)

ASSUME ColumnsAssumption ==
  \A r \in Bases : [k \in DOMAIN Columns[r] |-> Var(r, k, Columns[r][k].type, Columns[r][k].coll)] \in Seq(Expressions)

Init ==
  /\ query \in Queries
  /\ rels = [r \in 1..8 |-> IF r \in query.rels
                              THEN [NoRel EXCEPT !.kind = "base", !.relids = {r}, !.target = query.target[r]] ELSE NoRel]
  /\ todo = Stages(query)
  /\ top = ScanTop(query)
  /\ plan = NoPlan

(***************************************************************************)
(* Base relations.  The conditions are classified twice: by whether they   *)
(* deparse, which collects parameters, and by the walker, which decides.   *)
(***************************************************************************)
deparseWhereConditions(r, conds) == appendConditions(conds, {r}).seen

Classified(fdw, parts) ==
  [fdw EXCEPT !.pushdown_safe = TRUE, !.remote_conds = parts.remote, !.local_conds = parts.local]

db2GetForeignRelSize(r) ==
  /\ rels[r].kind = "base" /\ ~rels[r].fdw.has
  /\ LET known == [rels EXCEPT ![r].fdw = [ZeroFdw EXCEPT !.cols = Columns[r]]]
         seen  == Once(deparseWhereConditions(r, query.restrict[r]))
     IN rels' = [known EXCEPT ![r].fdw = Classified([@ EXCEPT !.params = seen],
                                                    classifyConditions(Glob(known, r), query.restrict[r]))]
  /\ UNCHANGED <<query, todo, top, plan>>

SortableType(t) == canHandleType(t) \/ t = "timetz"
is_foreign_pathkey(pk, em) == ~pk.volatile /\ is_shippable(pk.shippable) /\ em # NoExpr
Sortable(r, pk, em) ==
  is_foreign_pathkey(pk, em) /\ SortableType(exprType(em)) /\ ~IsNothing(Render(em, {r}).txt)
UsablePathkey(r, pk) == Sortable(r, pk, find_em_for_rel(rels, r, pk.members))

(* All query pathkeys or none are asked of DB2. *)
db2GetForeignPaths(r) ==
  /\ rels[r].kind = "base" /\ rels[r].fdw.has /\ rels[r].paths = {}
  /\ rels' = [rels EXCEPT ![r].paths = {Path(r, IF \A pk \in ToSet(query.pathkeys) : UsablePathkey(r, pk)
                                                     THEN query.pathkeys ELSE <<>>, FALSE, FALSE)}]
  /\ UNCHANGED <<query, todo, top, plan>>

(***************************************************************************)
(* The inner join of two base relations.  Its clauses have to deparse; the *)
(* walker is not asked.  A refused join leaves no trace, so that it is     *)
(* looked at again with the inputs exchanged.                              *)
(***************************************************************************)
JoinColumn(o, i, v) ==
  LET cols == rels[o].fdw.cols \o rels[i].fdw.cols
  IN Only(cols, {c \in ToSet(cols) : c.relid = v.varno /\ c.attno = v.attno})

JoinFdw(o, i) ==
  [ZeroFdw EXCEPT !.outer = o, !.inner = i,
                  !.params = Once(appendConditions(query.joinquals, {o, i}).seen),
                  !.joinclauses = query.joinquals \o rels[i].fdw.remote_conds \o rels[o].fdw.remote_conds,
                  !.cols = [k \in DOMAIN query.joinVars |-> JoinColumn(o, i, query.joinVars[k])[1]]]

foreign_join_ok(o, i) ==
  /\ query.jointype = "INNER"
  /\ rels[o].fdw.local_conds = <<>> /\ rels[i].fdw.local_conds = <<>>
  /\ query.joinquals # <<>>
  /\ \A k \in DOMAIN query.joinquals : ~IsNothing(Render(query.joinquals[k], {o, i}).txt)
  /\ \A k \in DOMAIN query.joinVars : IsA(query.joinVars[k], "Var") /\ JoinColumn(o, i, query.joinVars[k]) # <<>>

db2GetForeignJoinPaths(o, i) ==
  /\ o # i /\ {o, i} = query.rels
  /\ rels[o].paths # {} /\ rels[i].paths # {}
  /\ query.cmd = "SELECT" /\ ~rels[JoinRel].fdw.has /\ foreign_join_ok(o, i)
  /\ rels' = [rels EXCEPT ![JoinRel] = [kind |-> "join", relids |-> {o, i}, fdw |-> JoinFdw(o, i),
                                        target |-> query.target[JoinRel], paths |-> {Path(JoinRel, <<>>, FALSE, FALSE)}]]
  /\ UNCHANGED <<query, todo, top, plan>>

(***************************************************************************)
(* Upper relations.  A stage that is handled starts from a copy of the     *)
(* state of its input; the others leave none behind, which ends everything *)
(* above them.                                                             *)
(***************************************************************************)
HandledStage(stage) == stage \notin {"SETOP", "WINDOW", "DISTINCT", "PARTIAL_DISTINCT"}

db2CloneFdwStateUpper(in, stage) ==
  [rels[in].fdw EXCEPT !.pushdown_safe = FALSE, !.stage = stage, !.outer = in]

Upper(in, stage, target) ==
  [rels EXCEPT ![UpperRel[stage]] = [kind |-> "upper", relids |-> {}, fdw |-> db2CloneFdwStateUpper(in, stage),
                                     target |-> target, paths |-> {}]]

NextStage == todo' = Tail(todo) /\ top' = UpperRel[Head(todo)] /\ UNCHANGED <<query, plan>>

(* The scans, and their join in both orders, come before the first stage. *)
ScanReady ==
  /\ \A r \in query.rels : rels[r].paths # {}
  /\ \A o, i \in query.rels : o # i /\ query.cmd = "SELECT" => rels[JoinRel].fdw.has \/ ~foreign_join_ok(o, i)
AtStage(stage) == todo # <<>> /\ Head(todo) = stage /\ ScanReady

UpperNotHandled ==
  \E stage \in DOMAIN UpperRel :
    /\ AtStage(stage) /\ (~HandledStage(stage) \/ ~rels[top].fdw.has)
    /\ NextStage /\ UNCHANGED rels

(* Grouping.  A shippable output column goes into the target list whole,    *)
(* but not one that is just a parameter; of another one its aggregates.     *)
GroupedTlist(known, g) ==
  LET ref(t)   == t.ref # 0 /\ t.ref \in ToSet(query.groupClause)
      whole(e) == Ships(known, g, e) /\ ~is_foreign_param(Glob(known, g), e)
      aggs(e)  == Only(pull_var_and_aggregates(e), {n \in ToSet(pull_var_and_aggregates(e)) : IsA(n, "Aggref")})
      plain(es) == [k \in DOMAIN es |-> [expr |-> es[k], ref |-> 0]]
      local    == Only(query.having, {e \in ToSet(query.having) : ~Ships(known, g, e)})
      column(t) == IF ref(t) THEN <<t>> ELSE plain(IF whole(t.expr) THEN <<t.expr>> ELSE aggs(t.expr))
      wanted   == Concat([k \in DOMAIN query.grouped |-> column(query.grouped[k])])
                  \o Concat([k \in DOMAIN local |-> plain(aggs(local[k]))])
  IN Picked(wanted, {k \in DOMAIN wanted : ref(wanted[k]) \/ k \in FirstTimes(Exprs(wanted))})

foreign_grouping_ok(known, g) ==
  LET ref(t)   == t.ref # 0 /\ t.ref \in ToSet(query.groupClause)
      whole(e) == Ships(known, g, e) /\ ~is_foreign_param(Glob(known, g), e)
      all(es)  == /\ WalkList(es, Glob(known, g), NoCtx).ok /\ WalkList(es, Glob(known, g), NoCtx).st # UNSAFE
                  /\ \A k \in DOMAIN es : ~contain_mutable_functions(es[k])
  IN /\ ~query.groupingSets
     /\ known[known[g].fdw.outer].fdw.local_conds = <<>>
     /\ \A t \in ToSet(query.grouped) :
          IF ref(t) THEN whole(t.expr) ELSE whole(t.expr) \/ all(pull_var_and_aggregates(t.expr))
     /\ \A e \in ToSet(query.having) : Ships(known, g, e)
          \/ \A n \in ToSet(pull_var_and_aggregates(e)) : IsA(n, "Aggref") => Ships(known, g, n)

(* From here on the conditions are those of HAVING, not those inherited. *)
(* Mutant: the conditions of the scan stay in the copy. *)
GroupConditionsAdded(known, g) ==
  [classifyConditions(Glob(known, g), query.having) EXCEPT !.remote = known[g].fdw.remote_conds \o @]
GroupConditions(known, g) == classifyConditions(Glob(known, g), query.having)

UpperGrouping ==
  /\ AtStage("GROUP_AGG") /\ rels[top].fdw.has
  /\ LET g     == UpperRel["GROUP_AGG"]
         known == Upper(top, "GROUP_AGG", query.grouped)
     IN rels' = IF ~foreign_grouping_ok(known, g) THEN known
                ELSE [known EXCEPT ![g].fdw = Classified([@ EXCEPT !.grouped_tlist = GroupedTlist(known, g)],
                                                         GroupConditions(known, g)),
                                   ![g].paths = {Path(g, <<>>, FALSE, FALSE)}]
  /\ NextStage

(* Sorting.  Over a base relation or a join the flag that is consulted is  *)
(* never set; over a grouping every sort key must be one of its columns.   *)
SortIsForeign(in) ==
  \A k \in DOMAIN query.sort :
    /\ ~query.sort[k].volatile /\ is_shippable(query.sort[k].shippable)
    /\ find_em_for_rel_target(rels, in, query.sort[k].members, query.sortrefs) # NoExpr

UpperOrdered ==
  /\ AtStage("ORDERED") /\ rels[top].fdw.has
  /\ LET o     == UpperRel["ORDERED"]
         known == Upper(top, "ORDERED", query.grouped)
     IN rels' = IF /\ rels[top].kind = "upper" /\ rels[top].fdw.pushdown_safe
                   /\ ~query.srf /\ SortIsForeign(top)
                THEN [known EXCEPT ![o].fdw.pushdown_safe = TRUE, ![o].paths = {Path(top, query.sort, TRUE, FALSE)}]
                ELSE known
  /\ NextStage

(* FOR UPDATE without a LIMIT: a path of the input does it all. *)
RowMarkPaths(in) == {Path(p.parent, p.pathkeys, FALSE, FALSE) : p \in rels[in].paths}
(* With a LIMIT: over a sorted input, scan and sort are done at once. *)
LimitSorts(in) == rels[in].kind = "upper" /\ rels[in].fdw.stage = "ORDERED"
LimitInput(in) == IF LimitSorts(in) THEN rels[in].fdw.outer ELSE in
(* Mutant: conditions that stay here do not matter. *)
LimitBelowConditions(in) ==
  ~query.limit.ties /\ Ships(rels, in, query.limit.offset) /\ Ships(rels, in, query.limit.count)
LimitIsForeign(in) ==
  /\ rels[in].fdw.local_conds = <<>>
  /\ ~query.limit.ties
  /\ Ships(rels, in, query.limit.offset) /\ Ships(rels, in, query.limit.count)
LimitPath(in) ==
  Path(LimitInput(in), IF LimitSorts(in) THEN query.sort ELSE <<>>, LimitSorts(in), TRUE)

UpperFinal ==
  /\ AtStage("FINAL") /\ rels[top].fdw.has
  /\ LET f      == UpperRel["FINAL"]
         known  == Upper(top, "FINAL", query.grouped)
         locks  == \E r \in DOMAIN query.rowmark : query.rowmark[r] # "none"
         needed == query.limit.count # NoExpr \/ query.limit.offset # NoExpr
         able   == rels[top].fdw.pushdown_safe /\ query.cmd = "SELECT" /\ ~query.srf
         paths  == IF needed THEN IF LimitIsForeign(LimitInput(top)) THEN {LimitPath(top)} ELSE {}
                   ELSE IF locks THEN RowMarkPaths(top) ELSE {}
     IN rels' = IF able /\ paths # {}
                THEN [known EXCEPT ![f].fdw.pushdown_safe = TRUE, ![f].paths = paths] ELSE known
  /\ NextStage

(***************************************************************************)
(* Result columns.  A result is [col, relid, attno, type, decfloat, pos]:  *)
(* which column its layout is taken from (col: "none", "col" or "count"),  *)
(* the type it is converted to, and the position it is fetched from.       *)
(***************************************************************************)
NoResult == [col |-> "none", relid |-> 0, attno |-> 0, type |-> "none", decfloat |-> FALSE, pos |-> 0]
ColumnResult(c) == [NoResult EXCEPT !.col = "col", !.relid = c.relid, !.attno = c.attno, !.type = c.type]
CountResult == [NoResult EXCEPT !.col = "count", !.type = "int8"]
copyCol2Result(res, from) == IF res.col = "none" THEN from ELSE res

(* The names that begin with "stddev" or "var" are those of PostgreSQL. *)
WidensPrecision(name) ==
  name \in {"sum", "avg", "stddev", "stddev_pop", "stddev_samp", "variance", "var_pop", "var_samp"}

(* In the order of getUsedColumns, which visits the argument of a CASE late. *)
UsedIn(e) ==
  CASE e.tag = "Case" -> Concat(e.whens) \o <<e.arg, e.default>>
    [] e.tag = "Aggref" -> e.direct \o e.args
    [] OTHER -> Children(e)

(* The layout an expression gets: that of the first column found in it, which *)
(* an aggregate that changes the type overrides.  A whole row takes the last. *)
VarResult(v, cols, mine, res) ==
  CASE v.attno = 0 -> copyCol2Result(res, ColumnResult(Last(cols)))
    [] v.attno > 0 /\ mine # <<>> -> copyCol2Result(res, ColumnResult(Last(mine)))
    [] OTHER -> res
AggregateResult(e, res, below) ==
  CASE e.name = "count" -> copyCol2Result(res, CountResult)
    [] e.name # "count" /\ below.col # "none" /\ (below.type # e.type \/ WidensPrecision(e.name)) ->
         [below EXCEPT !.type = e.type, !.decfloat = TRUE]
    [] OTHER -> below
(* below: what the expressions in UsedIn(e) make of res, one after the other *)
UsedColumns(e, cols, res, below) ==
  CASE e = NoExpr -> res
    [] IsA(e, "Var") -> VarResult(e, cols, Only(cols, {c \in ToSet(cols) : c.relid = e.varno /\ c.attno = e.attno}), res)
    [] IsA(e, "Aggref") -> AggregateResult(e, res, below)
    [] OTHER -> below

(* A whole row also puts all columns but the last into the list, counted by *)
(* their place in the table.                                                *)
HasWholeRow(e) == Has(e, LAMBDA n : IsA(n, "Var") /\ n.attno = 0)
WholeRowResults(e, cols) ==
  IF HasWholeRow(e) THEN [k \in 1..(Len(cols) - 1) |-> [ColumnResult(cols[k]) EXCEPT !.pos = k]] ELSE <<>>

(* Base relation: an entry without a column is left out and takes no position; *)
(* a plain column is taken once.  The columns of a whole row go in front; if   *)
(* nothing is there yet, the entry itself has no tail to be linked to.         *)
Crash == [NoResult EXCEPT !.col = "crash"]
(* Mutant: no column is taken twice, not even by another expression. *)
PlacedOnce(acc, e, front, res) ==
  IF res.col = "none" \/ res.attno \in acc.seen THEN [acc EXCEPT !.list = front]
  ELSE [list |-> Append(front, [res EXCEPT !.pos = acc.pos + 1]), pos |-> acc.pos + 1, seen |-> acc.seen \cup {res.attno}]
Placed(acc, e, front, res) ==
  IF res.col = "none" \/ res.attno > NPgCols \/ (IsA(e, "Var") /\ res.attno \in acc.seen) THEN [acc EXCEPT !.list = front]
  ELSE [list |-> Append(front, IF acc.pos = 0 /\ front # <<>> THEN Crash ELSE [res EXCEPT !.pos = acc.pos + 1]),
        pos  |-> acc.pos + 1,
        seen |-> acc.seen \cup (IF IsA(e, "Var") THEN {res.attno} ELSE {})]
BaseResults(tlist, cols) ==
  FoldLeft(LAMBDA acc, e : Placed(acc, e, Reverse(WholeRowResults(e, cols)) \o acc.list, getUsedColumns(e, cols, NoResult)),
           [list |-> <<>>, pos |-> 0, seen |-> {}], tlist).list
(* The conditions are visited without an entry to fill; a whole row fills it. *)
RestrictResults(conds) == IF \E e \in ToSet(conds) : HasWholeRow(e) THEN <<Crash>> ELSE <<>>

(* Join or grouping: one entry for every expression, a whole row around it. *)
UpperResults(tlist, cols) ==
  Concat([k \in DOMAIN tlist |->
    <<[getUsedColumns(tlist[k], cols, NoResult) EXCEPT !.pos = IF HasWholeRow(tlist[k]) THEN Len(cols) ELSE k]>>
      \o WholeRowResults(tlist[k], cols)])

(***************************************************************************)
(* The plan.  PostgreSQL passes the target list of the path, all columns   *)
(* of the table, or none when the node above makes its own.                *)
(***************************************************************************)
PassedTlists(r) ==
  {<<>>, Exprs(rels[r].target)}
  \cup IF rels[r].kind = "base" THEN {[k \in DOMAIN Columns[r] |-> Var(r, k, Columns[r][k].type, Columns[r][k].coll)]} ELSE {}

ScanVars(r, tlist) ==
  LET all == Concat([k \in DOMAIN tlist |-> pull_var_clause(tlist[k])]) IN Only(all, {v \in ToSet(all) : v.varno = r})
(* Mutant: what DB2 checks is taken to need no columns here. *)
LocalQualVars(fdw) == Concat([k \in DOMAIN fdw.local_conds |-> pull_var_clause(fdw.local_conds[k])])
QualVars(fdw) ==
  LET conds == fdw.local_conds \o fdw.remote_conds IN Concat([k \in DOMAIN conds |-> pull_var_clause(conds[k])])

BaseScanTlist(r, tlist) ==
  add_to_flat_tlist(add_to_flat_tlist(build_tlist_to_deparse(rels, r), ScanVars(r, tlist)), QualVars(rels[r].fdw))

(* Conditions that arrive with a lateral reference are classified now. *)
ScanClauses(r) == query.restrict[r] \o query.lateral[r]
RemoteOf(r, es) ==
  Only(es, {e \in ToSet(es) : e \in ToSet(rels[r].fdw.remote_conds)
                              \/ (e \notin ToSet(rels[r].fdw.local_conds) /\ Ships(rels, r, e))})

PlanNode(r, path, scan, remote, qual, recheck, tlist, results) ==
  [made |-> TRUE, rel |-> r, path |-> path, scan |-> scan, remote |-> remote, qual |-> qual, recheck |-> recheck,
   tlist |-> tlist, results |-> results,
   stmt |-> deparseSelectStmtForRel(query, rels, r, scan, remote, path.pathkeys, path.sort, path.limit)]
BasePlan(r, path, tlist, scan, remote) ==
  PlanNode(r, path, scan, remote, Only(ScanClauses(r), ToSet(ScanClauses(r)) \ ToSet(remote)), remote,
           add_to_flat_tlist(tlist, Only(QualVars(rels[r].fdw), {v \in ToSet(QualVars(rels[r].fdw)) : v.attno > 0})),
           BaseResults(scan, rels[r].fdw.cols) \o RestrictResults(query.restrict[r]))
UpperPlan(r, path, tlist, scan) ==
  PlanNode(r, path, scan, rels[r].fdw.remote_conds, rels[r].fdw.local_conds, <<>>, tlist,
           UpperResults(scan, rels[r].fdw.cols))
MakePlan(r, path, tlist) ==
  IF rels[r].kind = "base" THEN BasePlan(r, path, tlist, BaseScanTlist(r, tlist), RemoteOf(r, ScanClauses(r)))
                           ELSE UpperPlan(r, path, tlist, build_tlist_to_deparse(rels, r))

db2GetForeignPlan ==
  /\ ~plan.made /\ todo = <<>>
  /\ \E at \in DOMAIN rels : \E path \in rels[at].paths : \E tlist \in PassedTlists(path.parent) :
       /\ plan' = MakePlan(path.parent, path, tlist)
       /\ rels' = [rels EXCEPT ![path.parent].fdw.final_remote_exprs = plan'.remote]
  /\ UNCHANGED <<query, todo, top>>

(***************************************************************************)
(* UPDATE and DELETE of the scanned rows as one statement.                 *)
(***************************************************************************)
(* Mutant: a scan anywhere below the node will do. *)
find_any_subplan == plan.rel = query.result
find_modifytable_subplan == query.rels = {query.result} /\ plan.rel = query.result

db2PlanDirectModify ==
  /\ plan.made /\ plan.stmt.cmd = "SELECT"
  /\ query.cmd \in {"UPDATE", "DELETE"} /\ ~query.returning
  /\ find_modifytable_subplan
  /\ plan.qual = <<>>
  /\ query.cmd = "UPDATE" => \A k \in DOMAIN query.set : Ships(rels, plan.rel, query.set[k].expr)
  /\ plan' = [plan EXCEPT !.stmt =
                IF query.cmd = "UPDATE"
                  THEN deparseDirectUpdateSql(rels, plan.rel, query.set, rels[plan.rel].fdw.final_remote_exprs)
                  ELSE deparseDirectDeleteSql(rels, plan.rel, rels[plan.rel].fdw.final_remote_exprs)]
  /\ UNCHANGED <<query, rels, todo, top>>

Next ==
  \/ \E r \in Bases : db2GetForeignRelSize(r) \/ db2GetForeignPaths(r)
  \/ \E o, i \in Bases : db2GetForeignJoinPaths(o, i)
  \/ UpperNotHandled \/ UpperGrouping \/ UpperOrdered \/ UpperFinal
  \/ db2GetForeignPlan \/ db2PlanDirectModify

Spec == Init /\ [][Next]_vars
=============================================================================
