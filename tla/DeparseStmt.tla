---------------------------- MODULE DeparseStmt ----------------------------
(***************************************************************************)
(* The statements db2_fdw sends: SELECT for a base relation, a join of two *)
(* or a grouping over either, UPDATE and DELETE for a direct modification. *)
(*                                                                         *)
(* A relation is [kind, relids, fdw, target, paths]; target is a sequence  *)
(* of [expr, ref] where ref is 0 or the sort/group reference; fdw is NoFdw *)
(* or what db2_fdw keeps in fdw_private.  A pathkey is [members, desc,     *)
(* nulls, shippable, volatile]: the members of its equivalence class.      *)
(***************************************************************************)
EXTENDS DeparseExpr

CONSTANT PG18     \* built against PostgreSQL 18 or later?

NoFdw  == [has |-> FALSE]

(* The relation below an upper one is the one that is scanned. *)
Scanrel(rels, r) == IF rels[r].kind = "upper" THEN rels[r].fdw.outer ELSE r
Glob(rels, r) == [upper  |-> rels[r].kind = "upper",
                  relids |-> IF rels[r].fdw.has THEN rels[Scanrel(rels, r)].relids ELSE {},
                  fdw    |-> rels[r].fdw.has]
Ships(rels, r, e) == is_foreign_expr(Glob(rels, r), e)
Exprs(target) == [i \in DOMAIN target |-> target[i].expr]

(***************************************************************************)
(* What to select, and by which expression to sort.                        *)
(***************************************************************************)
is_translate_func_expr(e) == IsA(e, "Func") /\ e.name = "translate" /\ Len(e.args) = 3 /\ e.builtin

build_tlist_to_deparse(rels, r) ==
  LET whole(e) == is_translate_func_expr(e) /\ Ships(rels, r, e)
      es       == Exprs(rels[r].target)
      flat(l)  == Concat([i \in DOMAIN l |-> pull_var_clause(l[i])])
  IN IF rels[r].kind = "upper" THEN Exprs(rels[r].fdw.grouped_tlist)
     ELSE add_to_flat_tlist(<<>>, Only(es, {e \in ToSet(es) : whole(e)}) \o flat(Only(es, {e \in ToSet(es) : ~whole(e)}))
                                  \o flat(rels[r].fdw.local_conds))

(* A member of the equivalence class over columns of this relation alone.  *)
(* Before version 18 the loop leaves its last member behind if none fits.  *)
FirstOf(es) == IF es = <<>> THEN NoExpr ELSE es[1]
(* Mutant: the columns of a member are not looked at. *)
find_any_em(rels, r, members) == FirstOf(SelectSeq(members, LAMBDA e : Ships(rels, r, e)))
find_em_for_rel(rels, r, members) ==
  FirstOf(Only(members, {e \in ToSet(members) : /\ pull_varnos(e) # {} /\ pull_varnos(e) \subseteq rels[r].relids
                                                 /\ Ships(rels, r, e)})
          \o IF PG18 \/ members = <<>> THEN <<>> ELSE <<Last(members)>>)

(* A member that is computed as a sort column of the target list. *)
find_em_for_rel_target(rels, r, members, sortrefs) ==
  LET columns == Only(rels[r].target, {t \in ToSet(rels[r].target) : t.ref \in sortrefs})
      same(t) == Only(members, {m \in ToSet(members) : /\ ~IsA(m, "Const") /\ Ships(rels, r, m)
                                                       /\ strip_relabel(m) = strip_relabel(t.expr)})
  IN FirstOf(Concat([i \in DOMAIN columns |-> same(columns[i])]))

(***************************************************************************)
(* Clauses.  A rendered list is [txt, seen] with the texts under one node. *)
(***************************************************************************)
(* Columns are selected in the order of the target list, or NULL. *)
deparseExplicitTargetList(es, relids) ==
  IF es = <<>> THEN Rendered(Text("AND", <<Leaf("NULL", NoExpr)>>)) ELSE appendConditions(es, relids)

(* Only the inner join of two base relations gets here. *)
deparseFromExprForRel(rels, r) ==
  IF rels[r].kind = "join"
    THEN [rels |-> <<rels[r].fdw.outer, rels[r].fdw.inner>>,
          on   |-> appendConditions(rels[r].fdw.joinclauses, rels[r].relids)]
    ELSE [rels |-> <<r>>, on |-> Rendered(Text("AND", <<>>))]

(* The positions of the grouping columns in the SELECT list. *)
appendGroupByClause(tlist, groupClause) ==
  [i \in DOMAIN groupClause |-> CHOOSE k \in DOMAIN tlist : tlist[k].ref = groupClause[i]]

SortExpr(rels, r, members, has_final_sort, sortrefs) ==
  IF has_final_sort THEN find_em_for_rel_target(rels, r, members, sortrefs)
                    ELSE find_em_for_rel(rels, Scanrel(rels, r), members)
(* A constant member is skipped; finding none is an error. *)
OrderKeys(pathkeys, ems, relids) ==
  LET kept == Ascending({i \in DOMAIN ems : ~IsA(ems[i], "Const")})
  IN [error |-> \E i \in DOMAIN ems : ems[i] = NoExpr,
      pathkeys |-> [k \in DOMAIN kept |-> pathkeys[kept[k]]],
      keys  |-> appendConditions([k \in DOMAIN kept |-> ems[kept[k]]], relids)]
appendOrderByClause(rels, r, pathkeys, has_final_sort, sortrefs) ==
  OrderKeys(pathkeys, [i \in DOMAIN pathkeys |-> SortExpr(rels, r, pathkeys[i].members, has_final_sort, sortrefs)],
            rels[Scanrel(rels, r)].relids)

(* OFFSET comes before the count, whatever the query's order. *)
appendLimitClause(limit, relids) ==
  appendConditions(Only(<<limit.offset, limit.count>>, {limit.offset, limit.count} \ {NoExpr}), relids)

(* The target of an UPDATE or DELETE is locked, and what FOR UPDATE and FOR *)
(* SHARE name; NO KEY is ignored.                                           *)
Strength == [none |-> "", keyshare |-> "SHARE", share |-> "SHARE", nokeyupdate |-> "UPDATE", update |-> "UPDATE"]
deparseLockingClause(q, relids) ==
  {[rel  |-> i, lock |-> IF q.cmd # "SELECT" /\ i = q.result THEN "UPDATE" ELSE Strength[q.rowmark[i]]] : i \in relids}

SelectStmt(q, relids, list, from, where, group, having, order, limit) ==
  [cmd |-> "SELECT", error |-> order.error,
   list |-> list.txt.parts, from |-> from.rels, on |-> from.on.txt.parts, where |-> where.txt.parts,
   group |-> group, having |-> having.txt.parts,
   order |-> [i \in DOMAIN order.pathkeys |-> [key |-> order.keys.txt.parts[i],
                                               desc |-> order.pathkeys[i].desc, nulls |-> order.pathkeys[i].nulls]],
   limit |-> limit.txt.parts, lock |-> deparseLockingClause(q, relids),
   params |-> Once(list.seen \o from.on.seen \o where.seen \o having.seen \o order.keys.seen \o limit.seen)]

deparseSelectStmtForRel(q, rels, r, tlist, remote_conds, pathkeys, has_final_sort, has_limit) ==
  LET scan   == Scanrel(rels, r)
      relids == rels[scan].relids
      upper  == rels[r].kind = "upper"
  IN SelectStmt(q, relids, deparseExplicitTargetList(tlist, relids), deparseFromExprForRel(rels, scan),
                appendConditions(IF upper THEN rels[scan].fdw.remote_conds ELSE remote_conds, relids),
                IF upper THEN appendGroupByClause(rels[r].fdw.grouped_tlist, q.groupClause) ELSE <<>>,
                appendConditions(IF upper THEN remote_conds ELSE <<>>, relids),
                appendOrderByClause(rels, r, pathkeys, has_final_sort, q.sortrefs),
                IF has_limit THEN appendLimitClause(q.limit, relids) ELSE appendConditions(<<>>, relids))

(***************************************************************************)
(* Direct modifications; sets is a sequence of [attno, expr].              *)
(***************************************************************************)
DirectSql(cmd, r, sets, list, where) ==
  [cmd |-> cmd, error |-> FALSE, list |-> list.txt.parts, from |-> <<r>>, on |-> <<>>, where |-> where.txt.parts,
   group |-> [i \in DOMAIN sets |-> sets[i].attno], having |-> <<>>, order |-> <<>>, limit |-> <<>>, lock |-> {},
   params |-> Once(list.seen \o where.seen)]
deparseDirectUpdateSql(rels, r, sets, remote_conds) ==
  DirectSql("UPDATE", r, sets, appendConditions([i \in DOMAIN sets |-> sets[i].expr], rels[r].relids),
            appendConditions(remote_conds, rels[r].relids))
deparseDirectDeleteSql(rels, r, remote_conds) ==
  DirectSql("DELETE", r, <<>>, appendConditions(<<>>, rels[r].relids), appendConditions(remote_conds, rels[r].relids))
=============================================================================
