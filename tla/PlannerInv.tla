----------------------------- MODULE PlannerInv -----------------------------
(***************************************************************************)
(* What the relations, the stages and the paths of module Planner always   *)
(* are: the inductive invariant behind the properties of its plans.        *)
(***************************************************************************)
EXTENDS PlannerProps

(* Stages are done from below; those to be done are the needed ones above top, *)
(* which have no relation yet.                                                 *)
StagesInv ==
  /\ query \in Queries
  /\ top \in {ScanTop(query)} \cup 4 .. 8
  /\ todo \in Seq(DOMAIN UpperRel)
  /\ ToSet(todo) = {s \in Needed(query) : UpperRel[s] > top}
  /\ \A i, j \in DOMAIN todo : i < j => UpperRel[todo[i]] < UpperRel[todo[j]]
  /\ \A k \in 4 .. 8 : k > top => rels[k] = NoRel
  /\ top > JoinRel => ScanReady
  /\ plan.made \in BOOLEAN /\ (plan.made => todo = <<>>)

ShapeInv ==
  /\ DOMAIN rels = 1 .. 8
  /\ \A k \in 1 .. 8 :
       /\ DOMAIN rels[k] = DOMAIN NoRel /\ rels[k].fdw.has \in BOOLEAN
       /\ rels[k].fdw.has => DOMAIN rels[k].fdw = DOMAIN ZeroFdw

(* A base relation: its conditions are those of the query, sorted by the walker. *)
BaseGlob(r) == [upper |-> FALSE, relids |-> {r}, fdw |-> TRUE]
BaseFdw(r) ==
  LET parts == classifyConditions(BaseGlob(r), query.restrict[r]) IN
  /\ rels[r].fdw.remote_conds = parts.remote /\ rels[r].fdw.local_conds = parts.local
  /\ rels[r].fdw.joinclauses = <<>>
BaseOk(r) ==
  /\ r \notin query.rels => rels[r] = NoRel
  /\ r \in query.rels =>
       /\ rels[r].kind = "base" /\ rels[r].relids = {r} /\ rels[r].target = query.target[r]
       /\ ~rels[r].fdw.has => rels[r].paths = {}
       /\ rels[r].fdw.has => BaseFdw(r)
BaseInv == \A r \in Bases : BaseOk(r)

(* The inputs of a join have all their conditions in DB2, and the join has them all. *)
JoinClausesOf(o, i) ==
  /\ rels[o].fdw.has /\ rels[i].fdw.has /\ rels[o].fdw.local_conds = <<>> /\ rels[i].fdw.local_conds = <<>>
  /\ rels[JoinRel].fdw.joinclauses = query.joinquals \o rels[i].fdw.remote_conds \o rels[o].fdw.remote_conds
JoinInv ==
  rels[JoinRel] # NoRel =>
    /\ rels[JoinRel].kind = "join" /\ query.rels = {1, 2} /\ rels[JoinRel].relids = {1, 2}
    /\ rels[JoinRel].target = query.target[JoinRel]
    /\ rels[JoinRel].fdw.has
    /\ JoinClausesOf(1, 2) \/ JoinClausesOf(2, 1)
    /\ rels[JoinRel].fdw.remote_conds = <<>> /\ rels[JoinRel].fdw.local_conds = <<>>
    /\ ~rels[JoinRel].fdw.pushdown_safe

(* A grouping that is pushed down has all conditions below it in DB2. *)
GroupFdw ==
  LET parts == classifyConditions(Glob(rels, 4), query.having) IN
  /\ rels[ScanTop(query)].fdw.local_conds = <<>>
  /\ rels[4].fdw.remote_conds = parts.remote /\ rels[4].fdw.local_conds = parts.local
GroupInv ==
  rels[4] # NoRel =>
    /\ Grouping(query) /\ rels[4].kind = "upper" /\ rels[4].target = query.grouped
    /\ rels[4].fdw.has /\ rels[4].fdw.stage = "GROUP_AGG"
    /\ rels[4].fdw.outer = ScanTop(query) /\ rels[ScanTop(query)].fdw.has
    /\ rels[4].fdw.pushdown_safe => GroupFdw

Below7(q) == IF Grouping(q) THEN 4 ELSE ScanTop(q)
SortInv ==
  rels[7] # NoRel =>
    /\ rels[7].kind = "upper" /\ rels[7].fdw.has /\ rels[7].fdw.stage = "ORDERED"
    /\ query.sort # <<>> /\ ~query.window /\ ~query.distinct
    /\ rels[7].fdw.outer = Below7(query)
    /\ rels[7].fdw.pushdown_safe =>
         Grouping(query) /\ ~query.srf /\ rels[4].fdw.has /\ rels[4].fdw.pushdown_safe /\ SortIsForeign(4)

(* A path scans a base relation, the join or the grouping. *)
LimitPathOk(p) ==
  /\ ~query.distinct /\ ~query.window /\ ~query.srf /\ ~query.limit.ties /\ query.cmd = "SELECT"
  /\ p.parent # JoinRel /\ rels[p.parent].fdw.local_conds = <<>>
  /\ p.parent = Below7(query)
  /\ query.limit.count # NoExpr \/ query.limit.offset # NoExpr
  /\ query.sort # <<>> => p.sort
BasePathOk(p) ==
  /\ ~p.sort /\ p.pathkeys \in {<<>>, query.pathkeys}
  /\ \A key \in ToSet(p.pathkeys) : UsablePathkey(p.parent, key)
GroupPathOk(p) ==
  /\ rels[4].fdw.pushdown_safe
  /\ IF p.sort THEN p.pathkeys = query.sort /\ SortIsForeign(4) ELSE p.pathkeys = <<>>
PathOk(p) ==
  /\ p.parent \in query.rels \cup {JoinRel, 4}
  /\ rels[p.parent].fdw.has
  /\ p.parent \in Bases => BasePathOk(p)
  /\ p.parent = JoinRel => ~p.sort /\ p.pathkeys = <<>>
  /\ p.parent = 4 => GroupPathOk(p)
  /\ p.limit => LimitPathOk(p)
PathsInv == \A k \in 1 .. 8 : \A p \in rels[k].paths : PathOk(p)

RelsInv == BaseInv /\ JoinInv /\ GroupInv /\ rels[5] = NoRel /\ rels[6] = NoRel /\ SortInv /\ PathsInv

(* What the modification in place goes by. *)
BasePlanInv(r) ==
  /\ plan.remote = RemoteOf(r, ScanClauses(r))
  /\ plan.qual = Only(ScanClauses(r), ToSet(ScanClauses(r)) \ ToSet(plan.remote))
PlanInv ==
  plan.made =>
    /\ DOMAIN plan = {"made", "rel", "path", "scan", "remote", "qual", "recheck", "tlist", "results", "stmt"}
    /\ plan.rel \in query.rels \cup {JoinRel, 4} /\ rels[plan.rel].fdw.has
    /\ rels[plan.rel].fdw.final_remote_exprs = plan.remote
    /\ plan.rel \in Bases => BasePlanInv(plan.rel)
    /\ plan.stmt.cmd # "SELECT" => query.cmd # "SELECT"

(* The plan is made for its path from one of the target lists that are passed; the *)
(* statement is that of the plan, or the modification that has taken its place.    *)
PlanOf(tlist) ==
  LET r == plan.rel IN
  /\ r \in Bases =>
       /\ plan.scan = BaseScanTlist(r, tlist) /\ plan.recheck = plan.remote
       /\ plan.tlist = add_to_flat_tlist(tlist, Only(QualVars(rels[r].fdw), {v \in ToSet(QualVars(rels[r].fdw)) : v.attno > 0}))
  /\ r \notin Bases =>
       /\ plan.scan = build_tlist_to_deparse(rels, r)
       /\ plan.remote = rels[r].fdw.remote_conds /\ plan.qual = rels[r].fdw.local_conds
SelectInv ==
  plan.stmt = deparseSelectStmtForRel(query, rels, plan.rel, plan.scan, plan.remote, plan.path.pathkeys,
                                      plan.path.sort, plan.path.limit)
DirectInv ==
  /\ query.cmd \in {"UPDATE", "DELETE"} /\ ~query.returning /\ find_modifytable_subplan /\ plan.qual = <<>>
  /\ query.cmd = "UPDATE" => \A k \in DOMAIN query.set : Ships(rels, plan.rel, query.set[k].expr)
  /\ plan.stmt = IF query.cmd = "UPDATE"
                    THEN deparseDirectUpdateSql(rels, plan.rel, query.set, rels[plan.rel].fdw.final_remote_exprs)
                    ELSE deparseDirectDeleteSql(rels, plan.rel, rels[plan.rel].fdw.final_remote_exprs)
PlanFacts ==
  plan.made =>
    /\ PathOk(plan.path) /\ plan.path.parent = plan.rel
    /\ \E tlist \in PassedTlists(plan.rel) : PlanOf(tlist)
    /\ IF plan.stmt.cmd = "SELECT" THEN SelectInv ELSE DirectInv

(* What a pushed down grouping selects has passed the walker. *)
GroupListInv ==
  rels[4].fdw.has /\ rels[4].fdw.pushdown_safe =>
    /\ IsList(rels[4].fdw.grouped_tlist)
    /\ \A t \in ToSet(rels[4].fdw.grouped_tlist) : t.expr \in Expressions /\ Walk(t.expr, Glob(rels, 4), NoCtx).ok

PInv == StagesInv /\ ShapeInv /\ RelsInv /\ PlanInv
=============================================================================
