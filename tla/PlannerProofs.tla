--------------------------- MODULE PlannerProofs ---------------------------
(***************************************************************************)
(* The inductive invariant of the planner, and the properties of its plans *)
(* that follow from it, for all queries, columns and expressions that obey *)
(* the assumptions of `PgNodes' and `Planner' and for whatever the walker, *)
(* the deparser and the walks of PostgreSQL make of the expressions.       *)
(***************************************************************************)
EXTENDS Answers, OrdersProofs

(***************************************************************************)
(* What a query is, and the stages it goes through.                        *)
(***************************************************************************)
LEMMA QueryFacts ==
  ASSUME NEW q \in Queries
  PROVE  /\ q.rels \in {{1}, {2}, {1, 2}}
         /\ \A r \in Bases : q.restrict[r] \in Seq(Expressions) /\ q.lateral[r] \in Seq(Expressions)
         /\ q.joinquals \in Seq(Expressions) /\ q.having \in Seq(Expressions) /\ IsList(q.set)
         /\ \A r \in {1, 2, 3} : Exprs(q.target[r]) \in Seq(Expressions)
         /\ IsList(q.grouped) /\ Exprs(q.grouped) \in Seq(Expressions)
         /\ IsList(q.sort) /\ \A key \in ToSet(q.sort) : key.members \in Seq(Expressions)
         /\ IsList(q.pathkeys) /\ \A key \in ToSet(q.pathkeys) : key.members \in Seq(Expressions)
         /\ Grouping(q) => \A r \in DOMAIN q.rowmark : q.rowmark[r] = "none"
         /\ \A r \in Bases : q.lateral[r] # <<>> => Parameterised(q, r)
<1>1. Bases \cup {JoinRel} = {1, 2, 3}
  BY DEF Bases, JoinRel
<1> QED BY <1>1, QueriesAssumption

LEMMA UpperRels ==
  /\ DOMAIN UpperRel = {"GROUP_AGG", "WINDOW", "DISTINCT", "ORDERED", "FINAL"}
  /\ UpperRel["GROUP_AGG"] = 4 /\ UpperRel["WINDOW"] = 5 /\ UpperRel["DISTINCT"] = 6
  /\ UpperRel["ORDERED"] = 7 /\ UpperRel["FINAL"] = 8
BY DEF UpperRel

LEMMA NeededFacts ==
  ASSUME NEW q
  PROVE  /\ Needed(q) \subseteq DOMAIN UpperRel /\ "FINAL" \in Needed(q)
         /\ "GROUP_AGG" \in Needed(q) <=> Grouping(q)
         /\ "WINDOW" \in Needed(q) <=> q.window
         /\ "DISTINCT" \in Needed(q) <=> q.distinct
         /\ "ORDERED" \in Needed(q) <=> q.sort # <<>>
BY UpperRels DEF Needed

LEMMA ScanTopFacts ==
  ASSUME NEW q \in Queries
  PROVE  /\ q.rels = {1} => ScanTop(q) = 1
         /\ q.rels = {2} => ScanTop(q) = 2
         /\ q.rels = {1, 2} => ScanTop(q) = 3
<1>1. \A x : Cardinality({x}) = 1
  BY FS_Singleton
<1>2. Cardinality({1, 2}) # 1
  <2>1. IsFiniteSet({2}) /\ Cardinality({2}) = 1
    BY FS_Singleton
  <2>2. 1 \notin {2} /\ {1, 2} = {2} \cup {1}
    OBVIOUS
  <2>3. Cardinality({2} \cup {1}) = Cardinality({2}) + 1
    BY <2>1, <2>2, FS_AddElement
  <2> QED BY <2>1, <2>2, <2>3
<1> QED BY <1>1, <1>2 DEF ScanTop, JoinRel

\* The stages are in the order of their relations.
LEMMA StagesList ==
  ASSUME NEW q
  PROVE  /\ Stages(q) \in Seq(DOMAIN UpperRel) /\ ToSet(Stages(q)) = Needed(q)
         /\ \A i, j \in DOMAIN Stages(q) : i < j => UpperRel[Stages(q)[i]] < UpperRel[Stages(q)[j]]
<1> DEFINE s == <<"GROUP_AGG", "WINDOW", "DISTINCT", "ORDERED", "FINAL">>
<1>1. /\ s \in Seq(DOMAIN UpperRel) /\ DOMAIN s = 1 .. 5 /\ ToSet(s) = DOMAIN UpperRel
      /\ \A a, b \in DOMAIN s : a < b => UpperRel[s[a]] < UpperRel[s[b]]
  <2>1. s \in Seq(DOMAIN UpperRel) /\ DOMAIN s = 1 .. 5
    BY UpperRels
  <2>2. 1 .. 5 = {1, 2, 3, 4, 5}
    OBVIOUS
  <2>3. ToSet(s) = {s[1], s[2], s[3], s[4], s[5]}
    BY <2>1, <2>2 DEF ToSet
  <2>4. /\ UpperRel[s[1]] = 4 /\ UpperRel[s[2]] = 5 /\ UpperRel[s[3]] = 6 /\ UpperRel[s[4]] = 7 /\ UpperRel[s[5]] = 8
    BY UpperRels
  <2> QED BY <2>1, <2>2, <2>3, <2>4, UpperRels
<1>2. Stages(q) = Only(s, Needed(q))
  BY DEF Stages
<1> HIDE DEF s
<1>3. Only(s, Needed(q)) \in Seq(DOMAIN UpperRel) /\ ToSet(Only(s, Needed(q))) = ToSet(s) \cap Needed(q)
  BY <1>1, OnlyList
<1>4. ASSUME NEW i \in DOMAIN Only(s, Needed(q)), NEW j \in DOMAIN Only(s, Needed(q)), i < j
      PROVE  UpperRel[Only(s, Needed(q))[i]] < UpperRel[Only(s, Needed(q))[j]]
  <2>1. \E a, b \in DOMAIN s : a < b /\ Only(s, Needed(q))[i] = s[a] /\ Only(s, Needed(q))[j] = s[b]
    BY <1>1, <1>4, OnlyOrder
  <2> QED BY <1>1, <2>1
<1> QED BY <1>1, <1>2, <1>3, <1>4, NeededFacts

(***************************************************************************)
(* What a step leaves alone.                                               *)
(***************************************************************************)
\* A step leaves a relation as it is, but for its paths and what a plan notes.
Kept(k) ==
  /\ ~rels[k].fdw.has => rels'[k] = rels[k]
  /\ rels'[k].kind = rels[k].kind /\ rels'[k].relids = rels[k].relids /\ rels'[k].target = rels[k].target
  /\ rels'[k].fdw.has = rels[k].fdw.has /\ rels'[k].fdw.outer = rels[k].fdw.outer
  /\ rels'[k].fdw.remote_conds = rels[k].fdw.remote_conds
  /\ rels'[k].fdw.local_conds = rels[k].fdw.local_conds
  /\ rels'[k].fdw.joinclauses = rels[k].fdw.joinclauses
  /\ rels'[k].fdw.pushdown_safe = rels[k].fdw.pushdown_safe
  /\ rels'[k].fdw.stage = rels[k].fdw.stage /\ rels'[k].fdw.cols = rels[k].fdw.cols
  /\ rels'[k].fdw.inner = rels[k].fdw.inner /\ rels'[k].fdw.grouped_tlist = rels[k].fdw.grouped_tlist

LEMMA SameIsKept ==
  ASSUME NEW k, rels'[k] = rels[k]
  PROVE  Kept(k)
BY DEF Kept

LEMMA GlobKept ==
  ASSUME NEW k, Kept(k), rels[k].kind = "upper" => Kept(rels[k].fdw.outer)
  PROVE  Glob(rels, k)' = Glob(rels, k)
BY DEF Kept, Glob, Scanrel

LEMMA UsableKept ==
  ASSUME NEW k, Kept(k), rels[k].kind = "base", NEW key
  PROVE  UsablePathkey(k, key)' = UsablePathkey(k, key)
<1>1. Glob(rels, k)' = Glob(rels, k) /\ rels'[k].relids = rels[k].relids
  <2>1. rels[k].kind # "upper"
    OBVIOUS
  <2> QED BY <2>1, GlobKept DEF Kept
<1>2. find_em_for_rel(rels, k, key.members)' = find_em_for_rel(rels, k, key.members)
  BY <1>1 DEF find_em_for_rel, Ships
<1> QED BY <1>2 DEF UsablePathkey

LEMMA SortForeignKept ==
  ASSUME Kept(4), rels[4].kind = "upper" => Kept(rels[4].fdw.outer), query' = query
  PROVE  SortIsForeign(4)' = SortIsForeign(4)
<1>1. Glob(rels, 4)' = Glob(rels, 4) /\ rels'[4].target = rels[4].target
  BY GlobKept DEF Kept
<1>2. ASSUME NEW ms, NEW refs
      PROVE  find_em_for_rel_target(rels, 4, ms, refs)' = find_em_for_rel_target(rels, 4, ms, refs)
  BY <1>1 DEF find_em_for_rel_target, Ships
<1> QED BY <1>2 DEF SortIsForeign

\* At most one relation changes, and none that another is built on.
StepAt(n) ==
  /\ query' = query
  /\ \A k \in 1 .. 8 : k # n => Kept(k)
  /\ n \in 1 .. 4 => ~rels[n].fdw.has

LEMMA BaseKept ==
  ASSUME BaseInv, NEW n, StepAt(n), NEW r \in Bases, r # n
  PROVE  BaseOk(r)'
<1>1. Kept(r) /\ query' = query /\ BaseOk(r)
  BY DEF StepAt, Bases, BaseInv
<1>2. CASE ~rels[r].fdw.has
  <2>1. rels'[r] = rels[r]
    BY <1>1, <1>2 DEF Kept
  <2> QED BY <1>1, <1>2, <2>1 DEF BaseOk
<1>3. CASE rels[r].fdw.has
  <2>1. r \in query.rels /\ BaseFdw(r)
    BY <1>1, <1>3 DEF BaseOk, NoRel, NoFdw
  <2>2. BaseFdw(r)'
    BY <1>1, <2>1 DEF BaseFdw, Kept
  <2> QED BY <1>1, <1>3, <2>1, <2>2 DEF BaseOk, Kept
<1> QED BY <1>2, <1>3

LEMMA NoRelFacts ==
  /\ NoRel.kind = "none" /\ NoRel.fdw.has = FALSE /\ NoRel.paths = {}
BY DEF NoRel, NoFdw

LEMMA JoinKept ==
  ASSUME JoinInv, NEW n, StepAt(n), n # 3
  PROVE  JoinInv'
<1>1. Kept(3) /\ query' = query
  BY DEF StepAt
<1>2. CASE rels[3] = NoRel
  BY <1>1, <1>2, NoRelFacts DEF Kept, JoinInv, JoinRel
<1>3. CASE rels[3] # NoRel
  <2>1. /\ rels[3].kind = "join" /\ query.rels = {1, 2} /\ rels[3].relids = {1, 2} /\ rels[3].fdw.has
        /\ rels[3].target = query.target[3]
        /\ JoinClausesOf(1, 2) \/ JoinClausesOf(2, 1)
        /\ rels[3].fdw.remote_conds = <<>> /\ rels[3].fdw.local_conds = <<>> /\ ~rels[3].fdw.pushdown_safe
    BY <1>3 DEF JoinInv, JoinRel
  <2>2. rels[1].fdw.has /\ rels[2].fdw.has
    BY <2>1 DEF JoinClausesOf
  <2>3. Kept(1) /\ Kept(2)
    <3>1. n # 1 /\ n # 2
      BY <2>2 DEF StepAt
    <3> QED BY <3>1 DEF StepAt
  <2>4. JoinClausesOf(1, 2)' \/ JoinClausesOf(2, 1)'
    <3>1. CASE JoinClausesOf(1, 2)
      BY <1>1, <2>3, <3>1 DEF JoinClausesOf, Kept, JoinRel
    <3>2. CASE JoinClausesOf(2, 1)
      BY <1>1, <2>3, <3>2 DEF JoinClausesOf, Kept, JoinRel
    <3> QED BY <2>1, <3>1, <3>2
  <2> QED BY <1>1, <2>1, <2>4 DEF JoinInv, JoinRel, Kept
<1> QED BY <1>2, <1>3

\* What a grouping is over is one of the scans, and it stays.
LEMMA GroupBelow ==
  ASSUME query \in Queries, GroupInv, rels[4] # NoRel
  PROVE  /\ rels[4].fdw.outer = ScanTop(query) /\ ScanTop(query) \in {1, 2, 3} /\ rels[ScanTop(query)].fdw.has
         /\ rels[4].kind = "upper" /\ rels[4].fdw.has
<1>1. ScanTop(query) \in {1, 2, 3}
  BY ScanTopFacts, QueryFacts
<1> QED BY <1>1 DEF GroupInv

LEMMA GroupKept ==
  ASSUME query \in Queries, GroupInv, NEW n, StepAt(n), n # 4
  PROVE  GroupInv' /\ (rels[4] # NoRel => Kept(4) /\ Kept(ScanTop(query)))
<1>1. Kept(4) /\ query' = query
  BY DEF StepAt
<1>2. CASE rels[4] = NoRel
  BY <1>1, <1>2, NoRelFacts DEF Kept, GroupInv
<1>3. CASE rels[4] # NoRel
  <2> DEFINE t == ScanTop(query)
  <2>1. /\ Grouping(query) /\ rels[4].kind = "upper" /\ rels[4].target = query.grouped
        /\ rels[4].fdw.has /\ rels[4].fdw.stage = "GROUP_AGG"
        /\ rels[4].fdw.outer = t /\ rels[t].fdw.has /\ t \in {1, 2, 3}
        /\ rels[4].fdw.pushdown_safe => GroupFdw
    BY <1>3, GroupBelow DEF GroupInv
  <2>2. Kept(t) /\ t' = t
    <3>1. n # t
      BY <2>1 DEF StepAt
    <3> QED BY <1>1, <2>1, <3>1 DEF StepAt
  <2> HIDE DEF t
  <2>3. Glob(rels, 4)' = Glob(rels, 4)
    BY <1>1, <2>1, <2>2, GlobKept
  <2>4. GroupFdw => GroupFdw'
    BY <1>1, <2>1, <2>2, <2>3 DEF GroupFdw, Kept, t
  <2>5. /\ rels'[4].kind = "upper" /\ rels'[4].target = query'.grouped
        /\ rels'[4].fdw.has /\ rels'[4].fdw.stage = "GROUP_AGG"
        /\ rels'[4].fdw.outer = t' /\ rels'[t'].fdw.has
        /\ rels'[4].fdw.pushdown_safe => GroupFdw'
    BY <1>1, <2>1, <2>2, <2>4 DEF Kept
  <2> QED BY <1>1, <2>1, <2>2, <2>5 DEF GroupInv, t
<1> QED BY <1>2, <1>3

LEMMA SortKept ==
  ASSUME query \in Queries, GroupInv, SortInv, NEW n, StepAt(n), n # 7
  PROVE  SortInv'
<1>1. Kept(7) /\ query' = query
  BY DEF StepAt
<1>2. CASE rels[7] = NoRel
  BY <1>1, <1>2, NoRelFacts DEF Kept, SortInv
<1>3. CASE rels[7] # NoRel
  <2>1. /\ rels[7].kind = "upper" /\ rels[7].fdw.has /\ rels[7].fdw.stage = "ORDERED"
        /\ query.sort # <<>> /\ ~query.window /\ ~query.distinct /\ rels[7].fdw.outer = Below7(query)
        /\ rels[7].fdw.pushdown_safe =>
             Grouping(query) /\ ~query.srf /\ rels[4].fdw.has /\ rels[4].fdw.pushdown_safe /\ SortIsForeign(4)
    BY <1>3 DEF SortInv
  <2>2. ASSUME rels[7].fdw.pushdown_safe
        PROVE  rels'[4].fdw.has /\ rels'[4].fdw.pushdown_safe /\ SortIsForeign(4)'
    <3>1. n # 4 /\ rels[4] # NoRel
      BY <2>1, <2>2, NoRelFacts DEF StepAt
    <3>2. Kept(4) /\ Kept(rels[4].fdw.outer)
      BY <3>1, GroupKept, GroupBelow
    <3>3. SortIsForeign(4)'
      BY <1>1, <2>1, <2>2, <3>2, SortForeignKept
    <3> QED BY <2>1, <2>2, <3>2, <3>3 DEF Kept
  <2> QED BY <1>1, <2>1, <2>2 DEF SortInv, Kept
<1> QED BY <1>2, <1>3

LEMMA PathKept ==
  ASSUME query \in Queries, BaseInv, GroupInv, NEW n, StepAt(n), NEW p, PathOk(p)
  PROVE  PathOk(p)'
<1> DEFINE k == p.parent
<1>1. query' = query /\ k \in query.rels \cup {JoinRel, 4} /\ rels[k].fdw.has
  BY DEF StepAt, PathOk
<1>2. k \in {1, 2, 3, 4} /\ Kept(k)
  <2>1. k \in {1, 2, 3, 4}
    BY <1>1, QueryFacts DEF JoinRel
  <2>2. n # k
    BY <1>1, <2>1 DEF StepAt
  <2> QED BY <2>1, <2>2 DEF StepAt
<1>3. k \in Bases => BasePathOk(p)'
  <2> SUFFICES ASSUME k \in Bases PROVE BasePathOk(p)'
    OBVIOUS
  <2>1. BasePathOk(p) /\ BaseOk(k)
    BY DEF PathOk, BaseInv
  <2>2. rels[k].kind = "base"
    BY <1>1, <2>1, NoRelFacts DEF BaseOk
  <2>3. \A key : UsablePathkey(k, key)' = UsablePathkey(k, key)
    BY <1>2, <2>2, UsableKept
  <2> QED BY <1>1, <2>1, <2>3 DEF BasePathOk
<1>4. k = 4 => GroupPathOk(p)'
  <2> SUFFICES ASSUME k = 4 PROVE GroupPathOk(p)'
    OBVIOUS
  <2>1. GroupPathOk(p) /\ rels[4] # NoRel /\ Kept(4) /\ n # 4
    BY <1>1, <1>2, NoRelFacts DEF PathOk, StepAt
  <2>2. Kept(rels[4].fdw.outer)
    BY <2>1, GroupKept, GroupBelow
  <2>3. SortIsForeign(4)' = SortIsForeign(4)
    BY <1>1, <2>1, <2>2, SortForeignKept
  <2> QED BY <1>1, <2>1, <2>3 DEF GroupPathOk, Kept
<1>5. p.limit => LimitPathOk(p)'
  BY <1>1, <1>2 DEF PathOk, LimitPathOk, Kept
<1> QED BY <1>1, <1>2, <1>3, <1>4, <1>5 DEF PathOk, Kept

\* All but the relation that changes is as it was, and so are its paths.
LEMMA Frame ==
  ASSUME query \in Queries, RelsInv, NEW n, StepAt(n), NEW m,
         \A k \in 1 .. 8 : k # m => rels'[k].paths = rels[k].paths
  PROVE  /\ \A r \in Bases : r # n => BaseOk(r)'
         /\ n # 3 => JoinInv'
         /\ n # 4 => GroupInv'
         /\ n \notin {5, 6} => rels'[5] = NoRel /\ rels'[6] = NoRel
         /\ n # 7 => SortInv'
         /\ \A k \in 1 .. 8 : k # m => \A p \in rels'[k].paths : PathOk(p)'
<1>1. BaseInv /\ JoinInv /\ GroupInv /\ SortInv /\ PathsInv /\ rels[5] = NoRel /\ rels[6] = NoRel
  BY DEF RelsInv
<1>2. n \notin {5, 6} => rels'[5] = NoRel /\ rels'[6] = NoRel
  BY <1>1, NoRelFacts DEF StepAt, Kept
<1>3. ASSUME NEW k \in 1 .. 8, k # m, NEW p \in rels'[k].paths
      PROVE  PathOk(p)'
  <2>1. PathOk(p)
    BY <1>1, <1>3 DEF PathsInv
  <2> QED BY <1>1, <2>1, PathKept
<1> QED BY <1>1, <1>2, <1>3, BaseKept, JoinKept, GroupKept, SortKept

LEMMA ScanReadyKept ==
  ASSUME query \in Queries, query' = query, \A k \in 1 .. 3 : Kept(k) /\ rels'[k].paths = rels[k].paths
  PROVE  ScanReady' = ScanReady
<1>1. query.rels \subseteq {1, 2}
  BY QueryFacts
<1>2. ASSUME NEW o \in query.rels, NEW i \in query.rels
      PROVE  foreign_join_ok(o, i)' = foreign_join_ok(o, i)
  <2>1. Kept(o) /\ Kept(i)
    BY <1>1
  <2>2. \A v : JoinColumn(o, i, v)' = JoinColumn(o, i, v)
    BY <2>1 DEF JoinColumn, Kept
  <2>3. /\ rels'[o].fdw.local_conds = rels[o].fdw.local_conds /\ rels'[i].fdw.local_conds = rels[i].fdw.local_conds
        /\ query' = query
    BY <2>1 DEF Kept
  <2>4. ASSUME NEW k
        PROVE  (JoinColumn(o, i, query.joinVars[k]) # <<>>)' <=> JoinColumn(o, i, query.joinVars[k]) # <<>>
    BY <2>2, <2>3
  <2> QED BY <2>3, <2>4 DEF foreign_join_ok
<1>3. rels'[JoinRel].fdw.has = rels[JoinRel].fdw.has
  BY DEF JoinRel, Kept
<1>4. \A r \in query.rels : rels'[r].paths = rels[r].paths
  BY <1>1
<1> QED BY <1>2, <1>3, <1>4 DEF ScanReady

(***************************************************************************)
(* The stages.                                                             *)
(***************************************************************************)
\* The last relation is there once nothing is to be done.
LEMMA TopFacts ==
  ASSUME StagesInv
  PROVE  /\ top \in 1 .. 8 /\ ScanTop(query) \in 1 .. 3
         /\ todo = <<>> => top = 8
         /\ ~ScanReady => top \in 1 .. 3 /\ ~plan.made
<1>1. query \in Queries /\ top \in {ScanTop(query)} \cup 4 .. 8
  BY DEF StagesInv
<1>2. ScanTop(query) \in 1 .. 3
  <2>1. ScanTop(query) \in {1, 2, 3}
    BY <1>1, ScanTopFacts, QueryFacts
  <2> QED BY <2>1
<1>3. top \in 1 .. 8
  BY <1>1, <1>2
<1>4. ASSUME todo = <<>> PROVE top = 8
  <2>1. "FINAL" \notin {s \in Needed(query) : UpperRel[s] > top}
    BY <1>4 DEF StagesInv, ToSet
  <2>2. ~(8 > top)
    BY <2>1, NeededFacts, UpperRels
  <2> QED BY <1>3, <2>2
<1>5. ASSUME ~ScanReady PROVE top \in 1 .. 3 /\ ~plan.made
  <2>1. ~(top > 3)
    BY <1>5 DEF StagesInv, JoinRel
  <2> QED BY <1>3, <1>4, <2>1 DEF StagesInv
<1> QED BY <1>2, <1>3, <1>4, <1>5

\* Before the scans are ready only they change.
LEMMA EarlyStep ==
  ASSUME StagesInv, ~ScanReady, NEW n \in 0 .. 3, StepAt(n), UNCHANGED <<todo, top, plan>>
  PROVE  StagesInv' /\ PlanInv'
<1>1. top \in 1 .. 3 /\ ~plan.made
  BY TopFacts
<1>2. query' = query /\ todo' = todo /\ top' = top /\ plan' = plan
  BY DEF StepAt
<1>3. ASSUME NEW k \in 4 .. 8, k > top PROVE rels'[k] = NoRel
  <2>1. rels[k] = NoRel /\ Kept(k)
    BY <1>3 DEF StagesInv, StepAt
  <2> QED BY <2>1, NoRelFacts DEF Kept
<1>4. PlanInv'
  BY <1>1, <1>2 DEF PlanInv
<1>5. StagesInv'
  BY <1>1, <1>2, <1>3 DEF StagesInv, JoinRel
<1> QED BY <1>4, <1>5

\* The next stage is the lowest of those to be done.
LEMMA NextIsLowest ==
  ASSUME StagesInv, NEW stage, AtStage(stage)
  PROVE  /\ stage \in Needed(query) /\ stage \in DOMAIN UpperRel /\ UpperRel[stage] > top
         /\ \A t \in Needed(query) : UpperRel[t] > top => UpperRel[t] >= UpperRel[stage]
         /\ Tail(todo) \in Seq(DOMAIN UpperRel)
         /\ ToSet(Tail(todo)) = {s \in Needed(query) : UpperRel[s] > UpperRel[stage]}
         /\ \A i, j \in DOMAIN Tail(todo) : i < j => UpperRel[Tail(todo)[i]] < UpperRel[Tail(todo)[j]]
<1> DEFINE n == Len(todo)
           T == Tail(todo)
<1>1. /\ todo \in Seq(DOMAIN UpperRel) /\ todo # <<>> /\ todo[1] = stage
      /\ ToSet(todo) = {s \in Needed(query) : UpperRel[s] > top}
      /\ \A i, j \in DOMAIN todo : i < j => UpperRel[todo[i]] < UpperRel[todo[j]]
  BY DEF StagesInv, AtStage
<1>2. n \in Nat /\ n >= 1 /\ DOMAIN todo = 1 .. n /\ 1 \in DOMAIN todo
  BY <1>1
<1>3. T \in Seq(DOMAIN UpperRel) /\ DOMAIN T = 1 .. (n - 1) /\ \A i \in 1 .. (n - 1) : T[i] = todo[i + 1]
  BY <1>1, <1>2
<1>4. stage \in ToSet(todo) /\ stage \in DOMAIN UpperRel
  BY <1>1, <1>2 DEF ToSet
<1>5. \A s \in DOMAIN UpperRel : UpperRel[s] \in 4 .. 8
  BY UpperRels
<1>6. \A s \in ToSet(todo) : s \in DOMAIN UpperRel /\ (s = stage \/ UpperRel[s] > UpperRel[stage])
  <2> SUFFICES ASSUME NEW i \in DOMAIN todo
               PROVE  todo[i] \in DOMAIN UpperRel /\ (todo[i] = stage \/ UpperRel[todo[i]] > UpperRel[stage])
    BY DEF ToSet
  <2>1. todo[i] \in DOMAIN UpperRel
    BY <1>1
  <2>2. CASE i = 1
    BY <1>1, <2>1, <2>2
  <2>3. CASE i # 1
    <3>1. 1 < i
      BY <1>2, <2>3
    <3>2. UpperRel[todo[1]] < UpperRel[todo[i]]
      BY <1>1, <1>2, <3>1
    <3> QED BY <1>1, <1>4, <1>5, <2>1, <3>2
  <2> QED BY <2>2, <2>3
<1>7. top \in 1 .. 8 /\ Needed(query) \subseteq DOMAIN UpperRel
  BY TopFacts, NeededFacts
<1>8. ASSUME NEW s \in ToSet(T)
      PROVE  s \in Needed(query) /\ UpperRel[s] > UpperRel[stage]
  <2>1. PICK i \in 1 .. (n - 1) : s = todo[i + 1]
    BY <1>3 DEF ToSet
  <2>2. i + 1 \in DOMAIN todo /\ 1 < i + 1
    BY <1>2
  <2>3. UpperRel[todo[1]] < UpperRel[s] /\ s \in ToSet(todo)
    BY <1>1, <1>2, <2>1, <2>2 DEF ToSet
  <2> QED BY <1>1, <1>4, <1>5, <1>6, <2>3
<1>9. ASSUME NEW s \in Needed(query), UpperRel[s] > UpperRel[stage]
      PROVE  s \in ToSet(T)
  <2>1. UpperRel[s] > top /\ s # stage
    BY <1>1, <1>4, <1>5, <1>7, <1>9
  <2>2. PICK i \in DOMAIN todo : todo[i] = s
    BY <1>1, <2>1 DEF ToSet
  <2>3. i - 1 \in 1 .. (n - 1) /\ T[i - 1] = s
    <3>1. i # 1
      BY <1>1, <2>1, <2>2
    <3>2. i - 1 \in 1 .. (n - 1) /\ (i - 1) + 1 = i
      BY <1>2, <3>1
    <3> QED BY <1>3, <2>2, <3>2
  <2> QED BY <1>3, <2>3 DEF ToSet
<1>10. ASSUME NEW i \in DOMAIN T, NEW j \in DOMAIN T, i < j
       PROVE  UpperRel[T[i]] < UpperRel[T[j]]
  <2>1. i + 1 \in DOMAIN todo /\ j + 1 \in DOMAIN todo /\ i + 1 < j + 1
    BY <1>2, <1>3, <1>10
  <2> QED BY <1>1, <1>3, <2>1
<1>11. \A t \in Needed(query) : UpperRel[t] > top => UpperRel[t] >= UpperRel[stage]
  BY <1>1, <1>5, <1>6
<1>12. stage \in Needed(query) /\ UpperRel[stage] > top
  BY <1>1, <1>4
<1>13. ToSet(T) = {s \in Needed(query) : UpperRel[s] > UpperRel[stage]}
  BY <1>8, <1>9
<1> QED BY <1>3, <1>4, <1>10, <1>11, <1>12, <1>13

\* A stage adds no relation but its own.
LEMMA StageStep ==
  ASSUME StagesInv, NEW stage, AtStage(stage), NextStage,
         \A k \in 1 .. 8 : k # UpperRel[stage] => rels'[k] = rels[k]
  PROVE  StagesInv' /\ PlanInv' /\ StepAt(UpperRel[stage]) /\ rels[UpperRel[stage]] = NoRel
<1> DEFINE n == UpperRel[stage]
<1>1. /\ stage \in Needed(query) /\ stage \in DOMAIN UpperRel /\ n > top
      /\ Tail(todo) \in Seq(DOMAIN UpperRel)
      /\ ToSet(Tail(todo)) = {s \in Needed(query) : UpperRel[s] > n}
      /\ \A i, j \in DOMAIN Tail(todo) : i < j => UpperRel[Tail(todo)[i]] < UpperRel[Tail(todo)[j]]
  BY NextIsLowest
<1>2. n \in 4 .. 8
  BY <1>1, UpperRels
<1>3. top \in 1 .. 8
  BY TopFacts
<1>4. todo' = Tail(todo) /\ top' = n /\ query' = query /\ plan' = plan
  BY DEF NextStage, AtStage
<1> HIDE DEF n
<1>5. rels[n] = NoRel
  BY <1>1, <1>2 DEF StagesInv
<1>6. StepAt(n)
  BY <1>4, <1>5, NoRelFacts, SameIsKept DEF StepAt, n
<1>7. ~plan.made /\ query \in Queries /\ ScanReady
  BY DEF StagesInv, AtStage
<1>8. ScanReady'
  <2>1. \A k \in 1 .. 3 : Kept(k) /\ rels'[k].paths = rels[k].paths
    BY <1>2, SameIsKept DEF n
  <2> QED BY <1>4, <1>7, <2>1, ScanReadyKept
<1>9. \A k \in 4 .. 8 : k > n => rels'[k] = NoRel
  BY <1>1, <1>2, <1>3 DEF StagesInv, n
<1>10. PlanInv'
  BY <1>4, <1>7 DEF PlanInv
<1>11. StagesInv'
  BY <1>1, <1>2, <1>4, <1>7, <1>8, <1>9 DEF StagesInv
<1> QED BY <1>5, <1>6, <1>10, <1>11 DEF n

(***************************************************************************)
(* The steps, one lemma for each.                                          *)
(***************************************************************************)
LEMMA ShapeKept ==
  ASSUME ShapeInv, NEW n \in 1 .. 8, DOMAIN rels' = 1 .. 8, \A k \in 1 .. 8 : k # n => rels'[k] = rels[k],
         DOMAIN rels'[n] = DOMAIN NoRel, rels'[n].fdw.has \in BOOLEAN,
         rels'[n].fdw.has => DOMAIN rels'[n].fdw = DOMAIN ZeroFdw
  PROVE  ShapeInv'
BY DEF ShapeInv

NewFdw(cols, ps, cs) == Classified([[ZeroFdw EXCEPT !.cols = cols] EXCEPT !.params = ps], cs)

LEMMA NewFdwFacts ==
  ASSUME NEW cols, NEW ps, NEW cs
  PROVE  /\ NewFdw(cols, ps, cs).has = TRUE /\ DOMAIN NewFdw(cols, ps, cs) = DOMAIN ZeroFdw
         /\ NewFdw(cols, ps, cs).joinclauses = <<>>
         /\ NewFdw(cols, ps, cs).remote_conds = cs.remote
         /\ NewFdw(cols, ps, cs).local_conds = cs.local
<1> DEFINE zero == ZeroFdw
<1>1. zero.has = TRUE /\ zero.joinclauses = <<>> /\ {"has", "joinclauses", "remote_conds", "local_conds"} \subseteq DOMAIN zero
  BY DEF ZeroFdw
<1>2. NewFdw(cols, ps, cs) = Classified([[zero EXCEPT !.cols = cols] EXCEPT !.params = ps], cs)
  BY DEF NewFdw
<1> HIDE DEF zero
<1>3. /\ NewFdw(cols, ps, cs).has = TRUE /\ DOMAIN NewFdw(cols, ps, cs) = DOMAIN zero
      /\ NewFdw(cols, ps, cs).joinclauses = <<>>
      /\ NewFdw(cols, ps, cs).remote_conds = cs.remote
      /\ NewFdw(cols, ps, cs).local_conds = cs.local
  BY <1>1, <1>2 DEF Classified
<1> QED BY <1>3 DEF zero

LEMMA RelSizeStep ==
  ASSUME PInv, NEW r \in Bases, db2GetForeignRelSize(r)
  PROVE  PInv'
<1> DEFINE fdw0  == [ZeroFdw EXCEPT !.cols = Columns[r]]
           known == [rels EXCEPT ![r].fdw = fdw0]
           parts == classifyConditions(Glob(known, r), query.restrict[r])
           seen  == Once(deparseWhereConditions(r, query.restrict[r]))
           fdw1  == Classified([fdw0 EXCEPT !.params = seen], parts)
<1>1. /\ rels[r].kind = "base" /\ ~rels[r].fdw.has
      /\ rels' = [known EXCEPT ![r].fdw = Classified([known[r].fdw EXCEPT !.params = seen], parts)]
      /\ query' = query /\ todo' = todo /\ top' = top /\ plan' = plan
  BY DEF db2GetForeignRelSize
<1>2. /\ StagesInv /\ ShapeInv /\ RelsInv /\ query \in Queries /\ BaseOk(r)
      /\ r \in {1, 2} /\ r \in 1 .. 8 /\ r \in 0 .. 3
  BY DEF PInv, StagesInv, RelsInv, BaseInv, Bases
<1>3. r \in query.rels /\ rels[r].relids = {r} /\ rels[r].target = query.target[r] /\ rels[r].paths = {}
  BY <1>1, <1>2, NoRelFacts DEF BaseOk
<1>4. DOMAIN rels = 1 .. 8 /\ DOMAIN rels[r] = DOMAIN NoRel
  BY <1>2 DEF ShapeInv
<1>5. "fdw" \in DOMAIN rels[r]
  BY <1>4 DEF NoRel
<1>6. /\ DOMAIN known = 1 .. 8 /\ \A k \in 1 .. 8 : k # r => known[k] = rels[k]
      /\ known[r].fdw = fdw0 /\ known[r].kind = "base" /\ known[r].relids = {r}
      /\ known[r].target = rels[r].target /\ known[r].paths = {} /\ DOMAIN known[r] = DOMAIN NoRel
  BY <1>1, <1>2, <1>3, <1>4, <1>5
<1>7. fdw0.has = TRUE
  BY DEF ZeroFdw
<1> HIDE DEF fdw0, known
<1>8. Glob(known, r) = BaseGlob(r)
  BY <1>6, <1>7 DEF Glob, BaseGlob, Scanrel
<1>9. rels' = [known EXCEPT ![r].fdw = fdw1]
  BY <1>1, <1>6
<1>10. /\ fdw1.has = TRUE /\ DOMAIN fdw1 = DOMAIN ZeroFdw /\ fdw1.joinclauses = <<>>
       /\ fdw1.remote_conds = parts.remote /\ fdw1.local_conds = parts.local
  <2> DEFINE cols == Columns[r]
  <2>1. fdw1 = NewFdw(cols, seen, parts)
    BY DEF fdw0, NewFdw
  <2> HIDE DEF fdw1, parts, seen, cols
  <2> QED BY <2>1, NewFdwFacts
<1> HIDE DEF fdw1, parts, seen
<1>11. /\ DOMAIN rels' = 1 .. 8 /\ \A k \in 1 .. 8 : k # r => rels'[k] = rels[k]
       /\ rels'[r].fdw = fdw1 /\ rels'[r].kind = "base" /\ rels'[r].relids = {r}
       /\ rels'[r].target = query.target[r] /\ rels'[r].paths = {} /\ DOMAIN rels'[r] = DOMAIN NoRel
  <2>1. "fdw" \in DOMAIN known[r]
    BY <1>4, <1>5, <1>6
  <2> QED BY <1>2, <1>3, <1>6, <1>9, <2>1
<1>12. StepAt(r)
  BY <1>1, <1>11, SameIsKept DEF StepAt
<1>13. ShapeInv'
  BY <1>2, <1>10, <1>11, ShapeKept
<1>14. ~ScanReady
  BY <1>3 DEF ScanReady
<1>15. StagesInv' /\ PlanInv'
  BY <1>1, <1>2, <1>12, <1>14, EarlyStep
<1>16. BaseOk(r)'
  BY <1>1, <1>3, <1>8, <1>10, <1>11 DEF BaseOk, BaseFdw, parts
<1>17. /\ \A k \in Bases : k # r => BaseOk(k)'
       /\ JoinInv' /\ GroupInv' /\ rels'[5] = NoRel /\ rels'[6] = NoRel /\ SortInv'
       /\ \A k \in 1 .. 8 : k # r => \A p \in rels'[k].paths : PathOk(p)'
  <2>1. r # 3 /\ r # 4 /\ r \notin {5, 6} /\ r # 7
    BY <1>2
  <2>2. \A k \in 1 .. 8 : k # r => rels'[k].paths = rels[k].paths
    BY <1>11
  <2> QED BY <1>2, <1>12, <2>1, <2>2, Frame
<1>18. RelsInv'
  BY <1>11, <1>16, <1>17 DEF RelsInv, BaseInv, PathsInv
<1> QED BY <1>13, <1>15, <1>18 DEF PInv

LEMMA PathsStep ==
  ASSUME PInv, NEW r \in Bases, db2GetForeignPaths(r)
  PROVE  PInv'
<1>keys. PICK keys : keys = IF \A pk \in ToSet(query.pathkeys) : UsablePathkey(r, pk) THEN query.pathkeys ELSE <<>>
  OBVIOUS
<1>path. PICK path : path = Path(r, keys, FALSE, FALSE)
  OBVIOUS
<1>1. /\ rels[r].kind = "base" /\ rels[r].fdw.has /\ rels[r].paths = {}
      /\ rels' = [rels EXCEPT ![r].paths = {path}]
      /\ query' = query /\ todo' = todo /\ top' = top /\ plan' = plan
  BY <1>keys, <1>path DEF db2GetForeignPaths
<1>2. /\ StagesInv /\ ShapeInv /\ RelsInv /\ query \in Queries /\ BaseOk(r)
      /\ r \in {1, 2} /\ r \in 1 .. 8
  BY DEF PInv, StagesInv, RelsInv, BaseInv, Bases
<1>3. keys \in {<<>>, query.pathkeys} /\ \A key \in ToSet(keys) : UsablePathkey(r, key)
  BY <1>keys DEF ToSet
<1>4. path.parent = r /\ path.pathkeys = keys /\ path.sort = FALSE /\ path.limit = FALSE
  BY <1>path DEF Path
<1>5. DOMAIN rels = 1 .. 8 /\ DOMAIN rels[r] = DOMAIN NoRel
  BY <1>2 DEF ShapeInv
<1>6. /\ DOMAIN rels' = 1 .. 8 /\ \A k \in 1 .. 8 : k # r => rels'[k] = rels[k]
      /\ rels'[r].fdw = rels[r].fdw /\ rels'[r].kind = rels[r].kind /\ rels'[r].relids = rels[r].relids
      /\ rels'[r].target = rels[r].target /\ rels'[r].paths = {path} /\ DOMAIN rels'[r] = DOMAIN NoRel
  <2>1. "paths" \in DOMAIN rels[r]
    BY <1>5 DEF NoRel
  <2> QED BY <1>1, <1>2, <1>5, <2>1
<1>7. Kept(r)
  BY <1>1, <1>6 DEF Kept
<1>8. StepAt(0)
  BY <1>1, <1>6, <1>7, SameIsKept DEF StepAt
<1>9. ShapeInv'
  <2>1. rels[r].fdw.has \in BOOLEAN /\ (rels[r].fdw.has => DOMAIN rels[r].fdw = DOMAIN ZeroFdw)
    BY <1>2 DEF ShapeInv
  <2> QED BY <1>2, <1>6, <2>1, ShapeKept
<1>10. r \in query.rels
  BY <1>1, <1>2, NoRelFacts DEF BaseOk
<1>11. StagesInv' /\ PlanInv'
  <2>1. ~ScanReady
    BY <1>1, <1>10 DEF ScanReady
  <2> QED BY <1>1, <1>2, <1>8, <2>1, EarlyStep
<1>12. /\ BaseInv' /\ JoinInv' /\ GroupInv' /\ rels'[5] = NoRel /\ rels'[6] = NoRel /\ SortInv'
       /\ \A k \in 1 .. 8 : k # r => \A p \in rels'[k].paths : PathOk(p)'
  <2>1. \A k \in 1 .. 8 : k # r => rels'[k].paths = rels[k].paths
    BY <1>6
  <2>2. \A k \in Bases : k # 0
    BY DEF Bases
  <2> QED BY <1>2, <1>8, <2>1, <2>2, Frame DEF BaseInv
<1>13. PathOk(path)'
  <2>1. \A key : UsablePathkey(r, key)' = UsablePathkey(r, key)
    BY <1>1, <1>7, UsableKept
  <2>2. BasePathOk(path)'
    BY <1>1, <1>3, <1>4, <2>1 DEF BasePathOk
  <2>3. r # JoinRel /\ r # 4
    BY <1>2 DEF JoinRel
  <2> QED BY <1>1, <1>4, <1>6, <1>10, <2>2, <2>3 DEF PathOk
<1>14. RelsInv'
  BY <1>6, <1>12, <1>13 DEF RelsInv, PathsInv
<1> QED BY <1>9, <1>11, <1>14 DEF PInv

LEMMA JoinFdwFacts ==
  ASSUME NEW o, NEW i
  PROVE  /\ JoinFdw(o, i).has = TRUE /\ DOMAIN JoinFdw(o, i) = DOMAIN ZeroFdw
         /\ JoinFdw(o, i).joinclauses = query.joinquals \o rels[i].fdw.remote_conds \o rels[o].fdw.remote_conds
         /\ JoinFdw(o, i).remote_conds = <<>> /\ JoinFdw(o, i).local_conds = <<>>
         /\ JoinFdw(o, i).pushdown_safe = FALSE
<1> DEFINE zero == ZeroFdw
           ps == Once(appendConditions(query.joinquals, {o, i}).seen)
           clauses == query.joinquals \o rels[i].fdw.remote_conds \o rels[o].fdw.remote_conds
           columns == [k \in DOMAIN query.joinVars |-> JoinColumn(o, i, query.joinVars[k])[1]]
<1>1. /\ zero.has = TRUE /\ zero.remote_conds = <<>> /\ zero.local_conds = <<>> /\ zero.pushdown_safe = FALSE
      /\ {"has", "joinclauses", "remote_conds", "local_conds", "pushdown_safe"} \subseteq DOMAIN zero
  BY DEF ZeroFdw
<1>2. JoinFdw(o, i) = [zero EXCEPT !.outer = o, !.inner = i, !.params = ps, !.joinclauses = clauses, !.cols = columns]
  BY DEF JoinFdw
<1> HIDE DEF zero, ps, clauses, columns
<1>3. /\ JoinFdw(o, i).has = TRUE /\ DOMAIN JoinFdw(o, i) = DOMAIN zero
      /\ JoinFdw(o, i).joinclauses = clauses
      /\ JoinFdw(o, i).remote_conds = <<>> /\ JoinFdw(o, i).local_conds = <<>>
      /\ JoinFdw(o, i).pushdown_safe = FALSE
  BY <1>1, <1>2
<1> QED BY <1>3 DEF zero, clauses

LEMMA JoinStep ==
  ASSUME PInv, NEW o \in Bases, NEW i \in Bases, db2GetForeignJoinPaths(o, i)
  PROVE  PInv'
<1>fdw. PICK fdw : fdw = JoinFdw(o, i)
  OBVIOUS
<1>path. PICK path : path = Path(JoinRel, <<>>, FALSE, FALSE)
  OBVIOUS
<1>rel. PICK rel : rel = [kind |-> "join", relids |-> {o, i}, fdw |-> fdw, target |-> query.target[JoinRel], paths |-> {path}]
  OBVIOUS
<1>1. /\ o # i /\ {o, i} = query.rels /\ rels[o].paths # {} /\ rels[i].paths # {}
      /\ query.cmd = "SELECT" /\ ~rels[3].fdw.has /\ foreign_join_ok(o, i)
      /\ rels' = [rels EXCEPT ![3] = rel]
      /\ query' = query /\ todo' = todo /\ top' = top /\ plan' = plan
  BY <1>fdw, <1>path, <1>rel DEF db2GetForeignJoinPaths, JoinRel
<1>2. /\ StagesInv /\ ShapeInv /\ RelsInv /\ query \in Queries /\ BaseOk(o) /\ BaseOk(i) /\ JoinInv
      /\ o \in {1, 2} /\ i \in {1, 2}
  BY DEF PInv, StagesInv, RelsInv, BaseInv, Bases
<1>3. /\ fdw.has = TRUE /\ DOMAIN fdw = DOMAIN ZeroFdw
      /\ fdw.joinclauses = query.joinquals \o rels[i].fdw.remote_conds \o rels[o].fdw.remote_conds
      /\ fdw.remote_conds = <<>> /\ fdw.local_conds = <<>> /\ fdw.pushdown_safe = FALSE
  BY <1>fdw, JoinFdwFacts
<1>4. path.parent = 3 /\ path.pathkeys = <<>> /\ path.sort = FALSE /\ path.limit = FALSE
  BY <1>path DEF Path, JoinRel
<1>5. /\ rel.kind = "join" /\ rel.relids = {o, i} /\ rel.fdw = fdw /\ rel.paths = {path} /\ rel.target = query.target[3]
      /\ DOMAIN rel = DOMAIN NoRel
  BY <1>rel DEF NoRel, JoinRel
<1>6. DOMAIN rels = 1 .. 8
  BY <1>2 DEF ShapeInv
<1>7. DOMAIN rels' = 1 .. 8 /\ rels'[3] = rel /\ \A k \in 1 .. 8 : k # 3 => rels'[k] = rels[k]
  BY <1>1, <1>6
<1>8. StepAt(3)
  BY <1>1, <1>7, SameIsKept DEF StepAt
<1>9. ShapeInv'
  <2>0. 3 \in 1 .. 8
    OBVIOUS
  <2>1. /\ DOMAIN rels'[3] = DOMAIN NoRel /\ rels'[3].fdw.has \in BOOLEAN
        /\ DOMAIN rels'[3].fdw = DOMAIN ZeroFdw
    <3>1. rels'[3] = rel
      BY <1>7
    <3>2. rel.fdw = fdw /\ fdw.has \in BOOLEAN /\ DOMAIN rel = DOMAIN NoRel /\ DOMAIN fdw = DOMAIN ZeroFdw
      BY <1>3, <1>5
    <3> QED BY ONLY <3>1, <3>2
  <2>2. ASSUME NEW k \in 1 .. 8, k # 3 PROVE rels'[k] = rels[k]
    BY <1>7, <2>2
  <2> QED BY <1>2, <1>7, <2>0, <2>1, <2>2, ShapeKept
<1>10. StagesInv' /\ PlanInv'
  <2>1. ~ScanReady
    BY <1>1 DEF ScanReady, JoinRel
  <2> QED BY <1>1, <1>2, <1>8, <2>1, EarlyStep
<1>11. /\ BaseInv' /\ GroupInv' /\ rels'[5] = NoRel /\ rels'[6] = NoRel /\ SortInv'
       /\ \A k \in 1 .. 8 : k # 3 => \A p \in rels'[k].paths : PathOk(p)'
  <2>1. \A k \in 1 .. 8 : k # 3 => rels'[k].paths = rels[k].paths
    BY <1>7
  <2>2. \A k \in Bases : k # 3
    BY DEF Bases
  <2> QED BY <1>2, <1>8, <2>1, <2>2, Frame DEF BaseInv
<1>12. JoinInv'
  <2>1. query.rels = {1, 2} /\ {o, i} = {1, 2}
    BY <1>1, <1>2
  <2>2. JoinClausesOf(o, i)'
    <3>1. rels[o].fdw.has /\ rels[i].fdw.has
      BY <1>1, <1>2 DEF BaseOk
    <3>2. rels[o].fdw.local_conds = <<>> /\ rels[i].fdw.local_conds = <<>>
      BY <1>1 DEF foreign_join_ok
    <3>3. rels'[o] = rels[o] /\ rels'[i] = rels[i]
      BY <1>2, <1>7
    <3> QED BY <1>1, <1>3, <1>5, <1>7, <3>1, <3>2, <3>3 DEF JoinClausesOf, JoinRel
  <2>3. JoinClausesOf(1, 2)' \/ JoinClausesOf(2, 1)'
    <3>1. (o = 1 /\ i = 2) \/ (o = 2 /\ i = 1)
      BY <1>1, <1>2
    <3> QED BY <2>2, <3>1
  <2> QED BY <1>1, <1>3, <1>5, <1>7, <2>1, <2>3 DEF JoinInv, JoinRel
<1>13. PathOk(path)'
  BY <1>3, <1>4, <1>5, <1>7 DEF PathOk, JoinRel, Bases
<1>14. RelsInv'
  BY <1>5, <1>7, <1>11, <1>12, <1>13 DEF RelsInv, PathsInv
<1> QED BY <1>9, <1>10, <1>14 DEF PInv

LEMMA NotHandledStep ==
  ASSUME PInv, UpperNotHandled
  PROVE  PInv'
<1>1. PICK stage \in DOMAIN UpperRel : AtStage(stage) /\ NextStage /\ rels' = rels
  BY DEF UpperNotHandled
<1>2. StagesInv /\ ShapeInv /\ RelsInv /\ query \in Queries
  BY DEF PInv, StagesInv
<1>3. StagesInv' /\ PlanInv'
  BY <1>1, <1>2, StageStep
<1>4. StepAt(0)
  BY <1>1, SameIsKept DEF StepAt, NextStage
<1>5. ShapeInv'
  BY <1>1, <1>2 DEF ShapeInv
<1>6. RelsInv'
  <2>1. \A k \in 1 .. 8 : k # 0 => rels'[k].paths = rels[k].paths
    BY <1>1
  <2>2. /\ \A r \in Bases : r # 0 => BaseOk(r)'
        /\ 0 # 3 => JoinInv'
        /\ 0 # 4 => GroupInv'
        /\ 0 \notin {5, 6} => rels'[5] = NoRel /\ rels'[6] = NoRel
        /\ 0 # 7 => SortInv'
  <3> QED BY <1>2, <1>4, <2>1, Frame
  <2>3. PathsInv'
    <3>1. ASSUME NEW k \in 1 .. 8, NEW p \in rels'[k].paths PROVE PathOk(p)'
      <4>1. PathOk(p) /\ BaseInv /\ GroupInv
        BY <1>1, <1>2 DEF RelsInv, PathsInv
      <4> QED BY <1>2, <1>4, <4>1, PathKept
    <3> QED BY <3>1 DEF PathsInv
  <2> QED BY <2>2, <2>3 DEF RelsInv, BaseInv, Bases
<1> QED BY <1>3, <1>5, <1>6 DEF PInv

\* What an upper relation starts with.
Started(known, in, stage, target, n) ==
  /\ DOMAIN known = 1 .. 8 /\ \A k \in 1 .. 8 : k # n => known[k] = rels[k]
  /\ known[n].kind = "upper" /\ known[n].relids = {} /\ known[n].target = target /\ known[n].paths = {}
  /\ DOMAIN known[n] = DOMAIN NoRel /\ known[n].fdw.has = TRUE /\ DOMAIN known[n].fdw = DOMAIN ZeroFdw
  /\ known[n].fdw.stage = stage /\ known[n].fdw.outer = in /\ known[n].fdw.pushdown_safe = FALSE

LEMMA UpperFacts ==
  ASSUME ShapeInv, NEW in \in 1 .. 8, rels[in].fdw.has, NEW stage \in DOMAIN UpperRel, NEW target,
         NEW known, known = Upper(in, stage, target), NEW n, n = UpperRel[stage]
  PROVE  Started(known, in, stage, target, n)
<1>in. PICK from : from = rels[in].fdw
  OBVIOUS
<1>fdw. PICK fdw : fdw = [from EXCEPT !.pushdown_safe = FALSE, !.stage = stage, !.outer = in]
  OBVIOUS
<1>rel. PICK rel : rel = [kind |-> "upper", relids |-> {}, fdw |-> fdw, target |-> target, paths |-> {}]
  OBVIOUS
<1>1. DOMAIN from = DOMAIN ZeroFdw /\ from.has = TRUE
  BY <1>in DEF ShapeInv
<1>2. {"has", "pushdown_safe", "stage", "outer"} \subseteq DOMAIN from
  BY <1>1 DEF ZeroFdw
<1>3. /\ DOMAIN fdw = DOMAIN ZeroFdw /\ fdw.has = TRUE
      /\ fdw.stage = stage /\ fdw.outer = in /\ fdw.pushdown_safe = FALSE
  BY <1>fdw, <1>1, <1>2
<1>4. /\ rel.kind = "upper" /\ rel.relids = {} /\ rel.fdw = fdw /\ rel.target = target /\ rel.paths = {}
      /\ DOMAIN rel = DOMAIN NoRel
  BY <1>rel DEF NoRel
<1>5. known = [rels EXCEPT ![n] = rel]
  BY <1>in, <1>fdw, <1>rel DEF Upper, db2CloneFdwStateUpper
<1>6. DOMAIN rels = 1 .. 8 /\ n \in 1 .. 8
  BY UpperRels DEF ShapeInv
<1>7. DOMAIN known = 1 .. 8 /\ known[n] = rel /\ \A k \in 1 .. 8 : k # n => known[k] = rels[k]
  BY <1>5, <1>6
<1> QED BY <1>3, <1>4, <1>7 DEF Started

LEMMA GroupingStep ==
  ASSUME PInv, UpperGrouping
  PROVE  PInv'
<1>known. PICK known : known = Upper(top, "GROUP_AGG", query.grouped)
  OBVIOUS
<1>parts. PICK parts : parts = GroupConditions(known, 4)
  OBVIOUS
<1>list. PICK tlist : tlist = GroupedTlist(known, 4)
  OBVIOUS
<1>path. PICK path : path = Path(4, <<>>, FALSE, FALSE)
  OBVIOUS
<1>fdw. PICK fdw : fdw = Classified([known[4].fdw EXCEPT !.grouped_tlist = tlist], parts)
  OBVIOUS
<1>1. /\ AtStage("GROUP_AGG") /\ rels[top].fdw.has /\ NextStage
      /\ rels' = IF ~foreign_grouping_ok(known, 4) THEN known
                 ELSE [known EXCEPT ![4].fdw = fdw, ![4].paths = {path}]
  BY <1>known, <1>parts, <1>list, <1>path, <1>fdw, UpperRels DEF UpperGrouping
<1>2. StagesInv /\ ShapeInv /\ RelsInv /\ query \in Queries
  BY DEF PInv, StagesInv
<1>3. query' = query
  BY <1>1 DEF NextStage
<1>4. "GROUP_AGG" \in DOMAIN UpperRel /\ UpperRel["GROUP_AGG"] = 4
  BY UpperRels
<1>5. Grouping(query) /\ top = ScanTop(query) /\ top \in 1 .. 3
  <2>1. "GROUP_AGG" \in Needed(query) /\ 4 > top
    BY <1>1, <1>2, <1>4, NextIsLowest
  <2>2. top \in {ScanTop(query)} \cup 4 .. 8 /\ ScanTop(query) \in 1 .. 3
    BY <1>2, TopFacts DEF StagesInv
  <2> QED BY <2>1, <2>2, NeededFacts
<1>6. /\ DOMAIN known = 1 .. 8 /\ \A k \in 1 .. 8 : k # 4 => known[k] = rels[k]
      /\ known[4].kind = "upper" /\ known[4].relids = {} /\ known[4].target = query.grouped /\ known[4].paths = {}
      /\ DOMAIN known[4] = DOMAIN NoRel /\ known[4].fdw.has = TRUE /\ DOMAIN known[4].fdw = DOMAIN ZeroFdw
      /\ known[4].fdw.stage = "GROUP_AGG" /\ known[4].fdw.outer = top /\ known[4].fdw.pushdown_safe = FALSE
  <2>1. top \in 1 .. 8
    BY <1>5
  <2>stage. PICK stage : stage = "GROUP_AGG"
    OBVIOUS
  <2>target. PICK target : target = query.grouped
    OBVIOUS
  <2>n. PICK n : n = 4
    OBVIOUS
  <2>in. PICK in : in = top
    OBVIOUS
  <2>2. in \in 1 .. 8 /\ rels[in].fdw.has /\ stage \in DOMAIN UpperRel /\ n = UpperRel[stage] /\ known = Upper(in, stage, target)
    BY <1>known, <1>1, <1>4, <2>1, <2>stage, <2>target, <2>n, <2>in
  <2>3. Started(known, in, stage, target, n)
    BY <1>2, <2>2, UpperFacts
  <2> QED BY ONLY <2>stage, <2>target, <2>n, <2>in, <2>3 DEF Started
<1>7. /\ fdw.has = TRUE /\ DOMAIN fdw = DOMAIN ZeroFdw /\ fdw.stage = "GROUP_AGG" /\ fdw.outer = top
      /\ fdw.pushdown_safe = TRUE /\ fdw.remote_conds = parts.remote /\ fdw.local_conds = parts.local
  <2>1. {"has", "stage", "outer", "pushdown_safe", "remote_conds", "local_conds"} \subseteq DOMAIN known[4].fdw
    BY <1>6 DEF ZeroFdw
  <2> QED BY <1>fdw, <1>6, <2>1 DEF Classified
<1>8. /\ DOMAIN rels' = 1 .. 8 /\ \A k \in 1 .. 8 : k # 4 => rels'[k] = rels[k]
      /\ rels'[4].kind = "upper" /\ rels'[4].target = query.grouped /\ DOMAIN rels'[4] = DOMAIN NoRel
      /\ rels'[4].fdw.has = TRUE /\ DOMAIN rels'[4].fdw = DOMAIN ZeroFdw
      /\ rels'[4].fdw.stage = "GROUP_AGG" /\ rels'[4].fdw.outer = top
      /\ \/ rels'[4].fdw.pushdown_safe = FALSE /\ rels'[4].paths = {}
         \/ /\ rels'[4].fdw = fdw /\ rels'[4].paths = {path}
            /\ known[known[4].fdw.outer].fdw.local_conds = <<>>
  <2>1. CASE ~foreign_grouping_ok(known, 4)
    BY <1>1, <1>6, <2>1
  <2>2. CASE foreign_grouping_ok(known, 4)
    <3>1. rels' = [known EXCEPT ![4].fdw = fdw, ![4].paths = {path}]
      BY <1>1, <2>2
    <3>2. 4 \in DOMAIN known /\ {"fdw", "paths", "kind", "target"} \subseteq DOMAIN known[4]
      BY <1>6 DEF NoRel
    <3>3. /\ DOMAIN rels' = 1 .. 8 /\ \A k \in 1 .. 8 : k # 4 => rels'[k] = known[k]
          /\ rels'[4].fdw = fdw /\ rels'[4].paths = {path} /\ DOMAIN rels'[4] = DOMAIN NoRel
          /\ rels'[4].kind = known[4].kind /\ rels'[4].target = known[4].target
      BY <1>6, <3>1, <3>2
    <3>4. known[known[4].fdw.outer].fdw.local_conds = <<>>
      BY <2>2 DEF foreign_grouping_ok
    <3> QED BY <1>6, <1>7, <3>3, <3>4
  <2> QED BY <2>1, <2>2
<1>9. StagesInv' /\ PlanInv' /\ StepAt(4)
  BY <1>1, <1>2, <1>4, <1>8, StageStep
<1>10. ShapeInv'
  <2>1. 4 \in 1 .. 8
    OBVIOUS
  <2> QED BY <1>2, <1>8, <2>1, ShapeKept
<1>11. /\ BaseInv' /\ JoinInv' /\ rels'[5] = NoRel /\ rels'[6] = NoRel /\ SortInv'
       /\ \A k \in 1 .. 8 : k # 4 => \A p \in rels'[k].paths : PathOk(p)'
  <2>1. \A k \in 1 .. 8 : k # 4 => rels'[k].paths = rels[k].paths
    BY <1>8
  <2>2. \A k \in Bases : k # 4
    BY DEF Bases
  <2> QED BY <1>2, <1>9, <2>1, <2>2, Frame DEF BaseInv
<1>12. rels'[top] = rels[top] /\ ScanTop(query') = top
  BY <1>3, <1>5, <1>8
<1>13. GroupInv'
  <2>1. ASSUME rels'[4].fdw.pushdown_safe PROVE GroupFdw'
    <3>1. rels'[4].fdw = fdw /\ known[top].fdw.local_conds = <<>>
      BY <1>6, <1>8, <2>1
    <3>2. known[top] = rels[top]
      BY <1>5, <1>6
    <3>3. Glob(rels, 4)' = Glob(known, 4)
      <4>1. /\ rels'[4].kind = known[4].kind /\ rels'[4].fdw.has = known[4].fdw.has
            /\ rels'[4].fdw.outer = known[4].fdw.outer
            /\ rels'[known[4].fdw.outer].relids = known[known[4].fdw.outer].relids /\ known[4].kind = "upper"
        BY <1>6, <1>8, <1>12, <3>2
      <4> QED BY ONLY <4>1 DEF Glob, Scanrel
    <3>4. parts = classifyConditions(Glob(known, 4), query.having)
      BY <1>parts DEF GroupConditions
    <3> QED BY <1>3, <1>7, <1>12, <3>1, <3>2, <3>3, <3>4 DEF GroupFdw
  <2> QED BY <1>1, <1>3, <1>5, <1>8, <1>12, <2>1 DEF GroupInv
<1>14. rels'[4].paths = {path} => PathOk(path)'
  <2> SUFFICES ASSUME rels'[4].paths = {path} PROVE PathOk(path)'
    OBVIOUS
  <2>1. rels'[4].fdw = fdw
    BY <1>8
  <2>2. path.parent = 4 /\ path.pathkeys = <<>> /\ path.sort = FALSE /\ path.limit = FALSE
    BY <1>path DEF Path
  <2> QED BY <1>7, <2>1, <2>2 DEF PathOk, GroupPathOk, JoinRel, Bases
<1>15. RelsInv'
  BY <1>8, <1>11, <1>13, <1>14 DEF RelsInv, PathsInv
<1> QED BY <1>9, <1>10, <1>15 DEF PInv

\* Which relation is below the sort and the limit, when there is one.
LEMMA TopBelow ==
  ASSUME PInv, NEW stage \in {"ORDERED", "FINAL"}, AtStage(stage), rels[top].fdw.has
  PROVE  /\ top \in {Below7(query), 7} /\ ~query.window /\ ~query.distinct
         /\ Below7(query) \in {1, 2, 3, 4}
         /\ stage = "ORDERED" => top # 7 /\ query.sort # <<>>
         /\ stage = "FINAL" /\ query.sort # <<>> => top = 7
         /\ top = 4 <=> rels[top].kind = "upper" /\ top # 7
         /\ top = 4 => Grouping(query)
<1>1. StagesInv /\ RelsInv /\ query \in Queries
  BY DEF PInv, StagesInv
<1>2. /\ stage \in Needed(query) /\ UpperRel[stage] > top
      /\ \A t \in Needed(query) : UpperRel[t] > top => UpperRel[t] >= UpperRel[stage]
  BY <1>1, NextIsLowest
<1>3. top \in {ScanTop(query)} \cup 4 .. 8 /\ ScanTop(query) \in 1 .. 3 /\ top \in 1 .. 8
  BY <1>1, TopFacts DEF StagesInv
<1>4. top # 5 /\ top # 6
  BY <1>1, NoRelFacts DEF RelsInv
<1>5. UpperRel[stage] = IF stage = "ORDERED" THEN 7 ELSE 8
  BY UpperRels
<1>6. top \in {ScanTop(query), 4, 7} /\ (stage = "ORDERED" => top # 7)
  BY <1>2, <1>3, <1>4, <1>5
<1>7. top = 7 => rels[7] # NoRel
  BY NoRelFacts
<1>8. ~query.window /\ ~query.distinct
  <2>1. CASE top = 7
    BY <1>1, <1>7, <2>1 DEF RelsInv, SortInv
  <2>2. CASE top # 7
    <3>1. top \in 1 .. 4
      BY <1>3, <1>6, <2>2
    <3>2. "WINDOW" \notin Needed(query) /\ "DISTINCT" \notin Needed(query)
      BY <1>2, <1>5, <3>1, UpperRels
    <3> QED BY <3>2, NeededFacts
  <2> QED BY <2>1, <2>2
<1>9. top # 7 => (Grouping(query) <=> top = 4)
  <2> SUFFICES ASSUME top # 7 PROVE Grouping(query) <=> top = 4
    OBVIOUS
  <2>1. ASSUME Grouping(query) PROVE top = 4
    <3>1. "GROUP_AGG" \in Needed(query)
      BY <2>1, NeededFacts
    <3>2. ~(4 > top)
      BY <1>2, <1>5, <3>1, UpperRels
    <3> QED BY <1>3, <1>6, <3>2
  <2>2. ASSUME top = 4 PROVE Grouping(query)
    BY <1>1, <2>2, NoRelFacts DEF RelsInv, GroupInv
  <2> QED BY <2>1, <2>2
<1>10. top # 7 => top = Below7(query)
  BY <1>3, <1>6, <1>9 DEF Below7
<1>11. stage = "ORDERED" => query.sort # <<>>
  BY <1>2, NeededFacts
<1>12. ASSUME stage = "FINAL", query.sort # <<>> PROVE top = 7
  <2>1. "ORDERED" \in Needed(query)
    BY <1>12, NeededFacts
  <2>2. ~(7 > top)
    BY <1>2, <1>5, <1>12, <2>1, UpperRels
  <2> QED BY <1>3, <1>6, <2>2
<1>13. top # 7 => (top = 4 <=> rels[top].kind = "upper")
  <2>1. CASE top = 4
    BY <1>1, <2>1, NoRelFacts DEF RelsInv, GroupInv
  <2>2. CASE top \in {1, 2}
    <3>1. BaseOk(top)
      BY <1>1, <2>2 DEF RelsInv, BaseInv, Bases
    <3> QED BY <2>2, <3>1, NoRelFacts DEF BaseOk
  <2>3. CASE top = 3
    BY <1>1, <2>3, NoRelFacts DEF RelsInv, JoinInv, JoinRel
  <2>4. top # 7 => top \in {1, 2, 3, 4}
    BY <1>3, <1>6
  <2> QED BY <2>1, <2>2, <2>3, <2>4
<1>14. Below7(query) \in {1, 2, 3, 4}
  BY <1>3 DEF Below7
<1> QED BY <1>6, <1>8, <1>9, <1>10, <1>11, <1>12, <1>13, <1>14

LEMMA OrderedStep ==
  ASSUME PInv, UpperOrdered
  PROVE  PInv'
<1>known. PICK known : known = Upper(top, "ORDERED", query.grouped)
  OBVIOUS
<1>path. PICK path : path = Path(top, query.sort, TRUE, FALSE)
  OBVIOUS
<1>1. /\ AtStage("ORDERED") /\ rels[top].fdw.has /\ NextStage
      /\ rels' = IF /\ rels[top].kind = "upper" /\ rels[top].fdw.pushdown_safe
                    /\ ~query.srf /\ SortIsForeign(top)
                 THEN [known EXCEPT ![7].fdw.pushdown_safe = TRUE, ![7].paths = {path}] ELSE known
  BY <1>known, <1>path, UpperRels DEF UpperOrdered
<1>2. StagesInv /\ ShapeInv /\ RelsInv /\ query \in Queries
  BY DEF PInv, StagesInv
<1>3. query' = query
  BY <1>1 DEF NextStage
<1>4. "ORDERED" \in DOMAIN UpperRel /\ UpperRel["ORDERED"] = 7
  BY UpperRels
<1>5. /\ top = Below7(query) /\ top \in {1, 2, 3, 4} /\ ~query.window /\ ~query.distinct /\ query.sort # <<>>
      /\ top = 4 <=> rels[top].kind = "upper"
      /\ top = 4 => Grouping(query)
  <2>1. "ORDERED" \in {"ORDERED", "FINAL"}
    OBVIOUS
  <2>2. PICK stage \in {"ORDERED", "FINAL"} : stage = "ORDERED"
    BY <2>1
  <2> QED BY <1>1, <2>2, TopBelow
<1>6. Started(known, top, "ORDERED", query.grouped, 7)
  <2>stage. PICK stage : stage = "ORDERED"
    OBVIOUS
  <2>target. PICK target : target = query.grouped
    OBVIOUS
  <2>n. PICK n : n = 7
    OBVIOUS
  <2>in. PICK in : in = top
    OBVIOUS
  <2>1. in \in 1 .. 8 /\ rels[in].fdw.has /\ stage \in DOMAIN UpperRel /\ n = UpperRel[stage] /\ known = Upper(in, stage, target)
    BY <1>known, <1>1, <1>4, <1>5, <2>stage, <2>target, <2>n, <2>in
  <2>2. Started(known, in, stage, target, n)
    BY <1>2, <2>1, UpperFacts
  <2> QED BY ONLY <2>stage, <2>target, <2>n, <2>in, <2>2
<1>7. /\ DOMAIN rels' = 1 .. 8 /\ \A k \in 1 .. 8 : k # 7 => rels'[k] = rels[k]
      /\ rels'[7].kind = "upper" /\ DOMAIN rels'[7] = DOMAIN NoRel
      /\ rels'[7].fdw.has = TRUE /\ DOMAIN rels'[7].fdw = DOMAIN ZeroFdw
      /\ rels'[7].fdw.stage = "ORDERED" /\ rels'[7].fdw.outer = top
      /\ \/ rels'[7].fdw.pushdown_safe = FALSE /\ rels'[7].paths = {}
         \/ /\ rels'[7].fdw.pushdown_safe = TRUE /\ rels'[7].paths = {path}
            /\ rels[top].kind = "upper" /\ rels[top].fdw.pushdown_safe /\ ~query.srf /\ SortIsForeign(top)
  <2> DEFINE able == /\ rels[top].kind = "upper" /\ rels[top].fdw.pushdown_safe
                     /\ ~query.srf /\ SortIsForeign(top)
  <2>1. CASE ~able
    BY <1>1, <1>6, <2>1 DEF Started
  <2>2. CASE able
    <3>fdw. PICK fdw : fdw = [known[7].fdw EXCEPT !.pushdown_safe = TRUE]
      OBVIOUS
    <3>1. rels' = [known EXCEPT ![7].fdw.pushdown_safe = TRUE, ![7].paths = {path}]
      BY <1>1, <2>2
    <3>2. 7 \in DOMAIN known /\ {"fdw", "paths", "kind", "target"} \subseteq DOMAIN known[7]
      BY <1>6 DEF NoRel, Started
    <3>3. {"has", "stage", "outer", "pushdown_safe"} \subseteq DOMAIN known[7].fdw
      BY <1>6 DEF ZeroFdw, Started
    <3>4. /\ DOMAIN rels' = 1 .. 8 /\ \A k \in 1 .. 8 : k # 7 => rels'[k] = known[k]
          /\ rels'[7].fdw = fdw /\ rels'[7].paths = {path} /\ DOMAIN rels'[7] = DOMAIN NoRel
          /\ rels'[7].kind = known[7].kind
      BY <1>6, <3>fdw, <3>1, <3>2 DEF Started
    <3>5. /\ fdw.has = TRUE /\ fdw.stage = "ORDERED" /\ fdw.outer = top /\ fdw.pushdown_safe = TRUE
          /\ DOMAIN fdw = DOMAIN ZeroFdw
      BY <1>6, <3>fdw, <3>3 DEF Started
    <3> QED BY <1>6, <2>2, <3>4, <3>5 DEF Started
  <2> QED BY <2>1, <2>2
<1>8. StagesInv' /\ PlanInv' /\ StepAt(7)
  BY <1>1, <1>2, <1>4, <1>7, StageStep
<1>9. ShapeInv'
  <2>1. 7 \in 1 .. 8
    OBVIOUS
  <2> QED BY <1>2, <1>7, <2>1, ShapeKept
<1>10. /\ BaseInv' /\ JoinInv' /\ GroupInv' /\ rels'[5] = NoRel /\ rels'[6] = NoRel
       /\ \A k \in 1 .. 8 : k # 7 => \A p \in rels'[k].paths : PathOk(p)'
  <2>1. \A k \in 1 .. 8 : k # 7 => rels'[k].paths = rels[k].paths
    BY <1>7
  <2>2. \A k \in Bases : k # 7
    BY DEF Bases
  <2> QED BY <1>2, <1>8, <2>1, <2>2, Frame DEF BaseInv
<1>11. ASSUME rels'[7].fdw.pushdown_safe
       PROVE  /\ top = 4 /\ Grouping(query) /\ ~query.srf /\ rels'[4].fdw.has /\ rels'[4].fdw.pushdown_safe
              /\ SortIsForeign(4)'
  <2>1. /\ top = 4 /\ rels[4].fdw.pushdown_safe /\ ~query.srf /\ SortIsForeign(4)
    BY <1>5, <1>7, <1>11
  <2>2. Kept(4) /\ (rels[4].kind = "upper" => Kept(rels[4].fdw.outer))
    <3>1. rels[4] # NoRel
      BY <1>1, <2>1, NoRelFacts
    <3> QED BY <1>2, <1>8, <3>1, GroupKept, GroupBelow DEF RelsInv
  <2>3. SortIsForeign(4)'
    BY <1>3, <2>1, <2>2, SortForeignKept
  <2> QED BY <1>1, <1>5, <1>7, <2>1, <2>3
<1>12. SortInv'
  BY <1>3, <1>5, <1>7, <1>11 DEF SortInv
<1>13. rels'[7].paths = {path} => PathOk(path)'
  <2> SUFFICES ASSUME rels'[7].paths = {path} PROVE PathOk(path)'
    OBVIOUS
  <2>1. /\ top = 4 /\ rels'[4].fdw.has /\ rels'[4].fdw.pushdown_safe /\ SortIsForeign(4)'
    <3>1. rels'[7].fdw.pushdown_safe
      BY <1>7
    <3> QED BY <1>11, <3>1
  <2>2. path.parent = 4 /\ path.pathkeys = query.sort /\ path.sort = TRUE /\ path.limit = FALSE
    BY <1>path, <2>1 DEF Path
  <2> QED BY <1>3, <2>1, <2>2 DEF PathOk, GroupPathOk, JoinRel, Bases
<1>14. RelsInv'
  BY <1>7, <1>10, <1>12, <1>13 DEF RelsInv, PathsInv
<1> QED BY <1>8, <1>9, <1>14 DEF PInv

\* The paths above everything are as good as those below.
LEMMA LimitPathIsOk ==
  ASSUME PInv, AtStage("FINAL"), rels[top].fdw.has, rels[top].fdw.pushdown_safe,
         query.cmd = "SELECT", ~query.srf, query.limit.count # NoExpr \/ query.limit.offset # NoExpr,
         LimitIsForeign(LimitInput(top))
  PROVE  PathOk(LimitPath(top))
<1>path. PICK p : p = LimitPath(top)
  OBVIOUS
<1>1. /\ StagesInv /\ query \in Queries /\ RelsInv /\ BaseInv /\ JoinInv /\ GroupInv /\ SortInv
  BY DEF PInv, StagesInv, RelsInv
<1>2. /\ top \in {Below7(query), 7} /\ ~query.window /\ ~query.distinct
      /\ Below7(query) \in {1, 2, 3, 4}
      /\ query.sort # <<>> => top = 7
      /\ top = 4 <=> rels[top].kind = "upper" /\ top # 7
  <2>1. PICK stage \in {"ORDERED", "FINAL"} : stage = "FINAL"
    OBVIOUS
  <2> QED BY <2>1, TopBelow
<1>3. LimitSorts(top) <=> top = 7
  <2>1. top = 7 => LimitSorts(top)
    BY <1>1, NoRelFacts DEF SortInv, LimitSorts
  <2>2. ASSUME LimitSorts(top), top # 7 PROVE FALSE
    <3>1. top = 4 /\ rels[top].fdw.stage = "ORDERED"
      BY <1>2, <2>2 DEF LimitSorts
    <3>2. rels[4].fdw.stage = "GROUP_AGG"
      BY <1>1, <3>1, NoRelFacts DEF GroupInv
    <3> QED BY <3>1, <3>2
  <2> QED BY <2>1, <2>2
<1>4. /\ p.parent = LimitInput(top) /\ p.limit = TRUE /\ p.sort = LimitSorts(top)
      /\ p.pathkeys = IF LimitSorts(top) THEN query.sort ELSE <<>>
  BY <1>path DEF LimitPath, Path
<1>5. ~query.limit.ties /\ rels[LimitInput(top)].fdw.local_conds = <<>>
  BY DEF LimitIsForeign
<1>6. CASE top = 7
  <2>1. /\ rels[7].fdw.outer = Below7(query) /\ Grouping(query) /\ rels[4].fdw.has /\ rels[4].fdw.pushdown_safe
        /\ SortIsForeign(4)
    BY <1>1, <1>6, NoRelFacts DEF SortInv
  <2>2. LimitInput(top) = 4 /\ Below7(query) = 4
    BY <1>3, <1>6, <2>1 DEF LimitInput, Below7
  <2>3. p.parent = 4 /\ p.sort /\ p.pathkeys = query.sort
    BY <1>3, <1>4, <1>6, <2>2
  <2>4. LimitPathOk(p)
    BY <1>2, <1>5, <2>2, <2>3 DEF LimitPathOk, JoinRel
  <2>5. GroupPathOk(p)
    BY <2>1, <2>3 DEF GroupPathOk
  <2> QED BY <1>path, <2>1, <2>3, <2>4, <2>5 DEF PathOk, JoinRel, Bases
<1>7. CASE top # 7
  <2>1. LimitInput(top) = top /\ top = Below7(query) /\ top \in {1, 2, 3, 4} /\ query.sort = <<>>
    BY <1>2, <1>3, <1>7 DEF LimitInput
  <2>2. top # 3
    BY <1>1, NoRelFacts DEF JoinInv, JoinRel
  <2>3. p.parent = top /\ p.sort = FALSE /\ p.pathkeys = <<>>
    BY <1>3, <1>4, <1>7, <2>1
  <2>4. LimitPathOk(p)
    BY <1>2, <1>5, <2>1, <2>2, <2>3 DEF LimitPathOk, JoinRel
  <2>5. top \in Bases => top \in query.rels /\ BasePathOk(p)
    <3>1. top \in Bases => BaseOk(top)
      BY <1>1 DEF BaseInv
    <3> QED BY <2>3, <3>1, NoRelFacts DEF BaseOk, BasePathOk, ToSet
  <2>6. top = 4 => GroupPathOk(p)
    BY <2>3 DEF GroupPathOk
  <2> QED BY <1>path, <2>1, <2>2, <2>3, <2>4, <2>5, <2>6 DEF PathOk, JoinRel, Bases
<1> QED BY <1>6, <1>7

LEMMA RowMarkPathIsOk ==
  ASSUME PInv, AtStage("FINAL"), rels[top].fdw.has, rels[top].fdw.pushdown_safe,
         \E r \in DOMAIN query.rowmark : query.rowmark[r] # "none", NEW p \in rels[top].paths
  PROVE  PathOk(Path(p.parent, p.pathkeys, FALSE, FALSE))
<1>path. PICK q : q = Path(p.parent, p.pathkeys, FALSE, FALSE)
  OBVIOUS
<1>1. /\ StagesInv /\ query \in Queries /\ GroupInv /\ PathsInv
  BY DEF PInv, StagesInv, RelsInv
<1>2. ~Grouping(query)
  BY <1>1, QueryFacts
<1>3. PathOk(p)
  BY <1>1, TopFacts DEF PathsInv
<1>4. p.parent # 4
  BY <1>1, <1>2, <1>3, NoRelFacts DEF PathOk, GroupInv
<1>5. q.parent = p.parent /\ q.pathkeys = p.pathkeys /\ q.sort = FALSE /\ q.limit = FALSE
  BY <1>path DEF Path
<1>6. p.parent \in Bases => BasePathOk(q)
  BY <1>3, <1>5 DEF PathOk, BasePathOk
<1> QED BY <1>path, <1>3, <1>4, <1>5, <1>6 DEF PathOk

LEMMA FinalStep ==
  ASSUME PInv, UpperFinal
  PROVE  PInv'
<1>known. PICK known : known = Upper(top, "FINAL", query.grouped)
  OBVIOUS
<1>paths. PICK paths : paths = IF query.limit.count # NoExpr \/ query.limit.offset # NoExpr
                                 THEN IF LimitIsForeign(LimitInput(top)) THEN {LimitPath(top)} ELSE {}
                                 ELSE IF \E r \in DOMAIN query.rowmark : query.rowmark[r] # "none"
                                        THEN RowMarkPaths(top) ELSE {}
  OBVIOUS
<1>1. /\ AtStage("FINAL") /\ rels[top].fdw.has /\ NextStage
      /\ rels' = IF rels[top].fdw.pushdown_safe /\ query.cmd = "SELECT" /\ ~query.srf /\ paths # {}
                 THEN [known EXCEPT ![8].fdw.pushdown_safe = TRUE, ![8].paths = paths] ELSE known
  BY <1>known, <1>paths, UpperRels DEF UpperFinal
<1>2. StagesInv /\ ShapeInv /\ RelsInv /\ query \in Queries
  BY DEF PInv, StagesInv
<1>3. query' = query
  BY <1>1 DEF NextStage
<1>4. "FINAL" \in DOMAIN UpperRel /\ UpperRel["FINAL"] = 8
  BY UpperRels
<1>5. top \in 1 .. 8
  BY <1>2, TopFacts
<1>6. Started(known, top, "FINAL", query.grouped, 8)
  <2>stage. PICK stage : stage = "FINAL"
    OBVIOUS
  <2>target. PICK target : target = query.grouped
    OBVIOUS
  <2>n. PICK n : n = 8
    OBVIOUS
  <2>in. PICK in : in = top
    OBVIOUS
  <2>1. in \in 1 .. 8 /\ rels[in].fdw.has /\ stage \in DOMAIN UpperRel /\ n = UpperRel[stage] /\ known = Upper(in, stage, target)
    BY <1>known, <1>1, <1>4, <1>5, <2>stage, <2>target, <2>n, <2>in
  <2>2. Started(known, in, stage, target, n)
    BY <1>2, <2>1, UpperFacts
  <2> QED BY ONLY <2>stage, <2>target, <2>n, <2>in, <2>2
<1>7. /\ DOMAIN rels' = 1 .. 8 /\ \A k \in 1 .. 8 : k # 8 => rels'[k] = rels[k]
      /\ DOMAIN rels'[8] = DOMAIN NoRel /\ rels'[8].fdw.has = TRUE /\ DOMAIN rels'[8].fdw = DOMAIN ZeroFdw
      /\ \/ rels'[8].paths = {}
         \/ /\ rels'[8].paths = paths /\ rels[top].fdw.pushdown_safe /\ query.cmd = "SELECT" /\ ~query.srf
  <2> DEFINE able == rels[top].fdw.pushdown_safe /\ query.cmd = "SELECT" /\ ~query.srf /\ paths # {}
  <2>1. CASE ~able
    BY <1>1, <1>6, <2>1 DEF Started
  <2>2. CASE able
    <3>fdw. PICK fdw : fdw = [known[8].fdw EXCEPT !.pushdown_safe = TRUE]
      OBVIOUS
    <3>1. rels' = [known EXCEPT ![8].fdw.pushdown_safe = TRUE, ![8].paths = paths]
      BY <1>1, <2>2
    <3>2. 8 \in DOMAIN known /\ {"fdw", "paths", "kind", "target"} \subseteq DOMAIN known[8]
      BY <1>6 DEF NoRel, Started
    <3>3. {"has", "stage", "outer", "pushdown_safe"} \subseteq DOMAIN known[8].fdw
      BY <1>6 DEF ZeroFdw, Started
    <3>4. /\ DOMAIN rels' = 1 .. 8 /\ \A k \in 1 .. 8 : k # 8 => rels'[k] = known[k]
          /\ rels'[8].fdw = fdw /\ rels'[8].paths = paths /\ DOMAIN rels'[8] = DOMAIN NoRel
      BY <1>6, <3>fdw, <3>1, <3>2 DEF Started
    <3>5. fdw.has = TRUE /\ DOMAIN fdw = DOMAIN ZeroFdw
      BY <1>6, <3>fdw, <3>3 DEF Started
    <3> QED BY <1>6, <2>2, <3>4, <3>5 DEF Started
  <2> QED BY <2>1, <2>2
<1>8. StagesInv' /\ PlanInv' /\ StepAt(8)
  BY <1>1, <1>2, <1>4, <1>7, StageStep
<1>9. ShapeInv'
  <2>1. 8 \in 1 .. 8
    OBVIOUS
  <2> QED BY <1>2, <1>7, <2>1, ShapeKept
<1>10. /\ BaseInv' /\ JoinInv' /\ GroupInv' /\ rels'[5] = NoRel /\ rels'[6] = NoRel /\ SortInv'
       /\ \A k \in 1 .. 8 : k # 8 => \A p \in rels'[k].paths : PathOk(p)'
  <2>1. \A k \in 1 .. 8 : k # 8 => rels'[k].paths = rels[k].paths
    BY <1>7
  <2>2. \A k \in Bases : k # 8
    BY DEF Bases
  <2> QED BY <1>2, <1>8, <2>1, <2>2, Frame DEF BaseInv
<1>11. ASSUME rels[top].fdw.pushdown_safe, query.cmd = "SELECT", ~query.srf, NEW p \in paths
       PROVE  PathOk(p)'
  <2>1. PathOk(p)
    <3>1. CASE query.limit.count # NoExpr \/ query.limit.offset # NoExpr
      <4>1. p = LimitPath(top) /\ LimitIsForeign(LimitInput(top))
        BY <1>paths, <3>1
      <4>2. PathOk(LimitPath(top))
        BY <1>1, <1>11, <3>1, <4>1, LimitPathIsOk
      <4> QED BY <4>1, <4>2
    <3>2. CASE ~(query.limit.count # NoExpr \/ query.limit.offset # NoExpr)
      <4>1. p \in RowMarkPaths(top) /\ \E r \in DOMAIN query.rowmark : query.rowmark[r] # "none"
        BY <1>paths, <3>2
      <4>2. PICK q \in rels[top].paths : p = Path(q.parent, q.pathkeys, FALSE, FALSE)
        BY <4>1 DEF RowMarkPaths
      <4>3. PathOk(Path(q.parent, q.pathkeys, FALSE, FALSE))
        BY <1>1, <1>11, <4>1, RowMarkPathIsOk
      <4> QED BY <4>2, <4>3
    <3> QED BY <3>1, <3>2
  <2> QED BY <1>2, <1>8, <2>1, PathKept DEF RelsInv
<1>12. RelsInv'
  BY <1>7, <1>10, <1>11 DEF RelsInv, PathsInv
<1> QED BY <1>8, <1>9, <1>12 DEF PInv

\* What the last callback makes, for the path that has won.
NewPlan(path, tlist) ==
  LET r == path.parent IN
  /\ plan'.made = TRUE /\ plan'.rel = r /\ plan'.path = path /\ plan'.stmt.cmd = "SELECT"
  /\ DOMAIN plan' = {"made", "rel", "path", "scan", "remote", "qual", "recheck", "tlist", "results", "stmt"}
  /\ plan'.stmt = deparseSelectStmtForRel(query, rels, r, plan'.scan, plan'.remote, path.pathkeys, path.sort, path.limit)
  /\ r \in Bases =>
       /\ rels[r].kind = "base" /\ plan'.scan = BaseScanTlist(r, tlist) /\ plan'.recheck = plan'.remote
       /\ plan'.remote = RemoteOf(r, ScanClauses(r))
       /\ plan'.qual = Only(ScanClauses(r), ToSet(ScanClauses(r)) \ ToSet(plan'.remote))
       /\ plan'.tlist = add_to_flat_tlist(tlist, Only(QualVars(rels[r].fdw), {v \in ToSet(QualVars(rels[r].fdw)) : v.attno > 0}))
  /\ r \notin Bases =>
       /\ rels[r].kind = IF r = 3 THEN "join" ELSE "upper"
       /\ plan'.scan = build_tlist_to_deparse(rels, r)
       /\ plan'.remote = rels[r].fdw.remote_conds /\ plan'.qual = rels[r].fdw.local_conds

Made(path, tlist) ==
  /\ ~plan.made /\ todo = <<>> /\ query' = query /\ todo' = todo /\ top' = top
  /\ PathOk(path) /\ path.parent \in query.rels \cup {3, 4} /\ rels[path.parent].fdw.has /\ tlist \in PassedTlists(path.parent)
  /\ NewPlan(path, tlist)
  /\ DOMAIN rels' = 1 .. 8 /\ rels'[path.parent].fdw.final_remote_exprs = plan'.remote
  /\ \A k \in 1 .. 8 : /\ Kept(k) /\ rels'[k].paths = rels[k].paths
                       /\ DOMAIN rels'[k] = DOMAIN rels[k] /\ DOMAIN rels'[k].fdw = DOMAIN rels[k].fdw

\* The kinds of the relations a path may scan.
LEMMA Kinds ==
  ASSUME query \in Queries, RelsInv, NEW k \in query.rels \cup {3, 4}, rels[k].fdw.has
  PROVE  /\ k \in {1, 2, 3, 4} /\ (k \in Bases => k \in query.rels)
         /\ rels[k].kind = IF k \in Bases THEN "base" ELSE IF k = 3 THEN "join" ELSE "upper"
<1>1. query.rels \subseteq {1, 2} /\ Bases = {1, 2}
  <2>1. Bases = {1, 2}
    BY DEF Bases
  <2> QED BY <2>1, QueryFacts
<1>2. CASE k \in {1, 2}
  <2>1. BaseOk(k)
    BY <1>1, <1>2 DEF RelsInv, BaseInv
  <2> QED BY <1>1, <1>2, <2>1, NoRelFacts DEF BaseOk
<1>3. CASE k = 3
  BY <1>1, <1>3, NoRelFacts DEF RelsInv, JoinInv, JoinRel
<1>4. CASE k = 4
  BY <1>1, <1>4, NoRelFacts DEF RelsInv, GroupInv
<1> QED BY <1>1, <1>2, <1>3, <1>4

Fields(r, path, scan, remote, qual, recheck, tlist) ==
  /\ plan'.made = TRUE /\ plan'.rel = r /\ plan'.path = path /\ plan'.scan = scan /\ plan'.remote = remote
  /\ plan'.qual = qual /\ plan'.recheck = recheck /\ plan'.tlist = tlist
  /\ plan'.stmt = deparseSelectStmtForRel(query, rels, r, scan, remote, path.pathkeys, path.sort, path.limit)
  /\ plan'.stmt.cmd = "SELECT"
  /\ DOMAIN plan' = {"made", "rel", "path", "scan", "remote", "qual", "recheck", "tlist", "results", "stmt"}

LEMMA NodeFields ==
  ASSUME NEW r, NEW path, NEW scan, NEW remote, NEW qual, NEW recheck, NEW tlist, NEW results,
         plan' = PlanNode(r, path, scan, remote, qual, recheck, tlist, results)
  PROVE  Fields(r, path, scan, remote, qual, recheck, tlist)
<1> DEFINE stmt == deparseSelectStmtForRel(query, rels, r, scan, remote, path.pathkeys, path.sort, path.limit)
<1>1. stmt.cmd = "SELECT"
  BY DEF deparseSelectStmtForRel, SelectStmt
<1> HIDE DEF stmt
<1>2. plan' = [made |-> TRUE, rel |-> r, path |-> path, scan |-> scan, remote |-> remote, qual |-> qual,
               recheck |-> recheck, tlist |-> tlist, results |-> results, stmt |-> stmt]
  BY DEF PlanNode, stmt
<1>3. /\ plan'.made = TRUE /\ plan'.rel = r /\ plan'.path = path /\ plan'.scan = scan /\ plan'.remote = remote
      /\ plan'.qual = qual /\ plan'.recheck = recheck /\ plan'.tlist = tlist /\ plan'.stmt = stmt
      /\ DOMAIN plan' = {"made", "rel", "path", "scan", "remote", "qual", "recheck", "tlist", "results", "stmt"}
  BY <1>2
<1> QED BY <1>1, <1>3 DEF stmt, Fields

LEMMA PlanMade ==
  ASSUME PInv, db2GetForeignPlan
  PROVE  \E path, tlist : Made(path, tlist)
<1>1. StagesInv /\ ShapeInv /\ RelsInv /\ query \in Queries /\ PathsInv
  BY DEF PInv, StagesInv, RelsInv
<1>at. PICK at \in DOMAIN rels : \E path \in rels[at].paths : \E tlist \in PassedTlists(path.parent) :
         /\ plan' = MakePlan(path.parent, path, tlist)
         /\ rels' = [rels EXCEPT ![path.parent].fdw.final_remote_exprs = plan'.remote]
  BY DEF db2GetForeignPlan
<1>path. PICK path \in rels[at].paths : \E tlist \in PassedTlists(path.parent) :
           /\ plan' = MakePlan(path.parent, path, tlist)
           /\ rels' = [rels EXCEPT ![path.parent].fdw.final_remote_exprs = plan'.remote]
  BY <1>at
<1>2. PICK tlist \in PassedTlists(path.parent) :
        /\ plan' = MakePlan(path.parent, path, tlist)
        /\ rels' = [rels EXCEPT ![path.parent].fdw.final_remote_exprs = plan'.remote]
  BY <1>path
<1>3. PathOk(path)
  BY <1>1 DEF PathsInv, ShapeInv
<1>r. PICK r : r = path.parent
  OBVIOUS
<1>4. r \in query.rels \cup {3, 4} /\ rels[r].fdw.has
  BY <1>3, <1>r DEF PathOk, JoinRel
<1>5. /\ r \in {1, 2, 3, 4} /\ r \in 1 .. 8
      /\ rels[r].kind = IF r \in Bases THEN "base" ELSE IF r = 3 THEN "join" ELSE "upper"
  <2>1. r \in {1, 2, 3, 4} /\ rels[r].kind = IF r \in Bases THEN "base" ELSE IF r = 3 THEN "join" ELSE "upper"
    BY <1>1, <1>4, Kinds
  <2> QED BY <2>1
<1>6. NewPlan(path, tlist)
  <2>1. CASE r \in Bases
    <3>1. plan' = BasePlan(r, path, tlist, BaseScanTlist(r, tlist), RemoteOf(r, ScanClauses(r)))
      BY <1>2, <1>5, <1>r, <2>1 DEF MakePlan
    <3>2. PICK scan, remote, qual, tl, results :
            /\ scan = BaseScanTlist(r, tlist) /\ remote = RemoteOf(r, ScanClauses(r))
            /\ qual = Only(ScanClauses(r), ToSet(ScanClauses(r)) \ ToSet(remote))
            /\ tl = add_to_flat_tlist(tlist, Only(QualVars(rels[r].fdw), {v \in ToSet(QualVars(rels[r].fdw)) : v.attno > 0}))
            /\ results = BaseResults(scan, rels[r].fdw.cols) \o RestrictResults(query.restrict[r])
      OBVIOUS
    <3>3. plan' = PlanNode(r, path, scan, remote, qual, remote, tl, results)
      BY <3>1, <3>2 DEF BasePlan
    <3>4. /\ plan'.made = TRUE /\ plan'.rel = r /\ plan'.path = path /\ plan'.scan = scan /\ plan'.remote = remote
          /\ plan'.qual = qual /\ plan'.recheck = remote /\ plan'.tlist = tl /\ plan'.stmt.cmd = "SELECT"
          /\ DOMAIN plan' = {"made", "rel", "path", "scan", "remote", "qual", "recheck", "tlist", "results", "stmt"}
          /\ plan'.stmt = deparseSelectStmtForRel(query, rels, r, scan, remote, path.pathkeys, path.sort, path.limit)
      <4>1. Fields(r, path, scan, remote, qual, remote, tl)
        BY <3>3, NodeFields
      <4> QED BY ONLY <4>1 DEF Fields
    <3> QED BY <1>5, <1>r, <2>1, <3>2, <3>4 DEF NewPlan
  <2>2. CASE r \notin Bases
    <3>1. plan' = UpperPlan(r, path, tlist, build_tlist_to_deparse(rels, r))
      BY <1>2, <1>5, <1>r, <2>2 DEF MakePlan
    <3>2. PICK scan, remote, qual, none, results :
            /\ none = <<>> /\ scan = build_tlist_to_deparse(rels, r) /\ remote = rels[r].fdw.remote_conds
            /\ qual = rels[r].fdw.local_conds /\ results = UpperResults(scan, rels[r].fdw.cols)
      OBVIOUS
    <3>3. plan' = PlanNode(r, path, scan, remote, qual, none, tlist, results)
      BY <3>1, <3>2 DEF UpperPlan
    <3>4. /\ plan'.made = TRUE /\ plan'.rel = r /\ plan'.path = path /\ plan'.scan = scan /\ plan'.remote = remote
          /\ plan'.qual = qual /\ plan'.stmt.cmd = "SELECT"
          /\ DOMAIN plan' = {"made", "rel", "path", "scan", "remote", "qual", "recheck", "tlist", "results", "stmt"}
          /\ plan'.stmt = deparseSelectStmtForRel(query, rels, r, scan, remote, path.pathkeys, path.sort, path.limit)
      <4>1. Fields(r, path, scan, remote, qual, none, tlist)
        BY <3>3, NodeFields
      <4> QED BY ONLY <4>1 DEF Fields
    <3> QED BY <1>5, <1>r, <2>2, <3>2, <3>4 DEF NewPlan
  <2> QED BY <2>1, <2>2
<1>remote. PICK remote : remote = plan'.remote
  OBVIOUS
<1>7. /\ DOMAIN rels' = 1 .. 8 /\ rels'[r].fdw.final_remote_exprs = remote
      /\ \A k \in 1 .. 8 : /\ Kept(k) /\ rels'[k].paths = rels[k].paths
                           /\ DOMAIN rels'[k] = DOMAIN rels[k] /\ DOMAIN rels'[k].fdw = DOMAIN rels[k].fdw
  <2>fdw. PICK fdw : fdw = [rels[r].fdw EXCEPT !.final_remote_exprs = remote]
    OBVIOUS
  <2>1. DOMAIN rels = 1 .. 8 /\ DOMAIN rels[r] = DOMAIN NoRel /\ DOMAIN rels[r].fdw = DOMAIN ZeroFdw
    BY <1>1, <1>4, <1>5 DEF ShapeInv
  <2>2. {"kind", "relids", "fdw", "target", "paths"} \subseteq DOMAIN rels[r]
    BY <2>1 DEF NoRel
  <2>3. {"has", "outer", "remote_conds", "local_conds", "joinclauses", "pushdown_safe", "stage", "cols",
         "inner", "grouped_tlist", "final_remote_exprs"} \subseteq DOMAIN rels[r].fdw
    BY <2>1 DEF ZeroFdw
  <2>4. rels' = [rels EXCEPT ![r].fdw = fdw]
    BY <1>2, <1>r, <1>remote, <2>fdw
  <2>5. /\ DOMAIN fdw = DOMAIN rels[r].fdw /\ fdw.final_remote_exprs = remote
        /\ fdw.has = rels[r].fdw.has /\ fdw.outer = rels[r].fdw.outer /\ fdw.stage = rels[r].fdw.stage
        /\ fdw.remote_conds = rels[r].fdw.remote_conds /\ fdw.local_conds = rels[r].fdw.local_conds
        /\ fdw.joinclauses = rels[r].fdw.joinclauses /\ fdw.pushdown_safe = rels[r].fdw.pushdown_safe
        /\ fdw.cols = rels[r].fdw.cols /\ fdw.inner = rels[r].fdw.inner /\ fdw.grouped_tlist = rels[r].fdw.grouped_tlist
    BY <2>3, <2>fdw
  <2>6. /\ DOMAIN rels' = 1 .. 8 /\ \A k \in 1 .. 8 : k # r => rels'[k] = rels[k]
        /\ rels'[r].fdw = fdw /\ DOMAIN rels'[r] = DOMAIN rels[r] /\ rels'[r].kind = rels[r].kind
        /\ rels'[r].relids = rels[r].relids /\ rels'[r].target = rels[r].target /\ rels'[r].paths = rels[r].paths
    BY <1>5, <2>1, <2>2, <2>4
  <2>7. Kept(r)
    BY <1>4, <2>5, <2>6 DEF Kept
  <2>8. ASSUME NEW k \in 1 .. 8
        PROVE  /\ Kept(k) /\ rels'[k].paths = rels[k].paths
               /\ DOMAIN rels'[k] = DOMAIN rels[k] /\ DOMAIN rels'[k].fdw = DOMAIN rels[k].fdw
    <3>1. CASE k = r
      BY <2>5, <2>6, <2>7, <3>1
    <3>2. CASE k # r
      BY <2>6, <3>2, SameIsKept
    <3> QED BY <3>1, <3>2
  <2> QED BY <2>5, <2>6, <2>8
<1>8. ~plan.made /\ todo = <<>> /\ query' = query /\ todo' = todo /\ top' = top
  BY DEF db2GetForeignPlan
<1>9. Made(path, tlist)
  BY <1>2, <1>3, <1>4, <1>6, <1>7, <1>8, <1>r, <1>remote DEF Made
<1> QED BY <1>9

\* What changes only paths' owners or a plan's notes changes nothing of the invariant.
LEMMA RelsKept ==
  ASSUME query \in Queries, RelsInv, query' = query, \A k \in 1 .. 8 : Kept(k) /\ rels'[k].paths = rels[k].paths
  PROVE  RelsInv'
<1>1. PICK n : n = 0
  OBVIOUS
<1>2. StepAt(n)
  BY <1>1 DEF StepAt
<1>3. \A k \in 1 .. 8 : k # n => rels'[k].paths = rels[k].paths
  OBVIOUS
<1>4. /\ \A k \in Bases : k # n => BaseOk(k)'
      /\ n # 3 => JoinInv'
      /\ n # 4 => GroupInv'
      /\ n \notin {5, 6} => rels'[5] = NoRel /\ rels'[6] = NoRel
      /\ n # 7 => SortInv'
      /\ \A k \in 1 .. 8 : k # n => \A p \in rels'[k].paths : PathOk(p)'
  BY <1>2, <1>3, Frame
<1>5. BaseInv' /\ PathsInv'
  BY <1>1, <1>4 DEF BaseInv, PathsInv, Bases
<1> QED BY <1>1, <1>4, <1>5 DEF RelsInv

LEMMA StagesKept ==
  ASSUME StagesInv, UNCHANGED <<query, todo, top>>, \A k \in 1 .. 8 : Kept(k) /\ rels'[k].paths = rels[k].paths,
         plan'.made \in BOOLEAN, plan'.made => todo = <<>>
  PROVE  StagesInv'
<1>1. query' = query /\ todo' = todo /\ top' = top /\ query \in Queries
  BY DEF StagesInv
<1>2. ScanReady' = ScanReady
  BY <1>1, ScanReadyKept
<1>3. ScanTop(query)' = ScanTop(query) /\ Needed(query)' = Needed(query)
  BY <1>1
<1>4. /\ todo' \in Seq(DOMAIN UpperRel) /\ ToSet(todo') = {s \in Needed(query)' : UpperRel[s] > top'}
      /\ \A i, j \in DOMAIN todo' : i < j => UpperRel[todo'[i]] < UpperRel[todo'[j]]
      /\ top' \in {ScanTop(query)'} \cup 4 .. 8 /\ (top' > JoinRel => ScanReady')
  BY <1>1, <1>2, <1>3 DEF StagesInv
<1>5. ASSUME NEW k \in 4 .. 8, k > top'
      PROVE  rels'[k] = NoRel
  <2>1. rels[k] = NoRel /\ Kept(k)
    BY <1>1, <1>5 DEF StagesInv
  <2> QED BY <2>1, NoRelFacts DEF Kept
<1> QED BY <1>1, <1>4, <1>5 DEF StagesInv

LEMMA PlanStep ==
  ASSUME PInv, db2GetForeignPlan
  PROVE  PInv'
<1>1. StagesInv /\ ShapeInv /\ RelsInv /\ query \in Queries
  BY DEF PInv, StagesInv
<1>2. PICK path, tlist : Made(path, tlist)
  BY PlanMade
<1>r. PICK r : r = path.parent
  OBVIOUS
<1>3. /\ todo = <<>> /\ query' = query /\ todo' = todo /\ top' = top /\ top = 8
      /\ \A k \in 1 .. 8 : Kept(k) /\ rels'[k].paths = rels[k].paths
      /\ plan'.made = TRUE
  BY <1>1, <1>2, TopFacts DEF Made, NewPlan
<1>5. RelsInv'
  BY <1>1, <1>3, RelsKept
<1>6. ShapeInv'
  <2>1. /\ DOMAIN rels' = 1 .. 8
        /\ \A k \in 1 .. 8 : /\ Kept(k)
                             /\ DOMAIN rels'[k] = DOMAIN rels[k] /\ DOMAIN rels'[k].fdw = DOMAIN rels[k].fdw
    BY <1>2 DEF Made
  <2> QED BY <1>1, <2>1 DEF ShapeInv, Kept
<1>7. StagesInv'
  BY <1>1, <1>3, StagesKept
<1>8. PlanInv'
  <2>1. /\ r \in query.rels \cup {3, 4} /\ rels[r].fdw.has /\ plan'.rel = r /\ plan'.stmt.cmd = "SELECT"
        /\ rels'[r].fdw.final_remote_exprs = plan'.remote
    BY <1>2, <1>r DEF Made, NewPlan
  <2>2. r \in 1 .. 8 /\ (r \in Bases => rels[r].kind = "base")
    BY <1>1, <2>1, Kinds
  <2>3. rels'[r].fdw.has
    BY <1>3, <2>1, <2>2 DEF Kept
  <2>4. ASSUME r \in Bases
        PROVE  BasePlanInv(r)'
    <3>1. /\ plan'.remote = RemoteOf(r, ScanClauses(r))
          /\ plan'.qual = Only(ScanClauses(r), ToSet(ScanClauses(r)) \ ToSet(plan'.remote))
      BY <1>2, <1>r, <2>4 DEF Made, NewPlan
    <3>2. ScanClauses(r)' = ScanClauses(r)
      BY <1>3 DEF ScanClauses
    <3>3. /\ rels'[r].fdw.remote_conds = rels[r].fdw.remote_conds
          /\ rels'[r].fdw.local_conds = rels[r].fdw.local_conds
      BY <1>3, <2>2 DEF Kept
    <3>4. Glob(rels, r)' = Glob(rels, r)
      BY <1>3, <2>2, <2>4, GlobKept
    <3>5. RemoteOf(r, ScanClauses(r))' = RemoteOf(r, ScanClauses(r))
      BY <3>2, <3>3, <3>4 DEF RemoteOf, Ships
    <3> QED BY <3>1, <3>2, <3>5 DEF BasePlanInv
  <2>5. DOMAIN plan' = {"made", "rel", "path", "scan", "remote", "qual", "recheck", "tlist", "results", "stmt"}
    BY <1>2 DEF Made, NewPlan
  <2> QED BY <1>3, <2>1, <2>3, <2>4, <2>5 DEF PlanInv, JoinRel
<1> QED BY <1>5, <1>6, <1>7, <1>8 DEF PInv

\* The direct modification changes nothing but the statement.
LEMMA DirectFacts ==
  ASSUME PInv, db2PlanDirectModify
  PROVE  /\ plan.made /\ plan'.made = TRUE /\ plan'.rel = plan.rel /\ plan'.path = plan.path /\ plan'.scan = plan.scan
         /\ plan'.remote = plan.remote /\ plan'.qual = plan.qual /\ plan'.recheck = plan.recheck /\ plan'.tlist = plan.tlist
         /\ rels' = rels /\ query' = query /\ todo' = todo /\ top' = top
         /\ DOMAIN plan' = DOMAIN plan /\ query.cmd \in {"UPDATE", "DELETE"}
         /\ plan'.stmt = IF query.cmd = "UPDATE"
                           THEN deparseDirectUpdateSql(rels, plan.rel, query.set, rels[plan.rel].fdw.final_remote_exprs)
                           ELSE deparseDirectDeleteSql(rels, plan.rel, rels[plan.rel].fdw.final_remote_exprs)
         /\ plan'.stmt.cmd = query.cmd /\ plan'.stmt.error = FALSE
<1>1. PICK stmt :
        /\ plan' = [plan EXCEPT !.stmt = stmt]
        /\ stmt = IF query.cmd = "UPDATE"
                    THEN deparseDirectUpdateSql(rels, plan.rel, query.set, rels[plan.rel].fdw.final_remote_exprs)
                    ELSE deparseDirectDeleteSql(rels, plan.rel, rels[plan.rel].fdw.final_remote_exprs)
        /\ plan.made /\ query.cmd \in {"UPDATE", "DELETE"}
        /\ rels' = rels /\ query' = query /\ todo' = todo /\ top' = top
  BY DEF db2PlanDirectModify
<1>2. stmt.cmd = query.cmd /\ stmt.error = FALSE
  BY <1>1 DEF deparseDirectUpdateSql, deparseDirectDeleteSql, DirectSql
<1>3. plan.made \in BOOLEAN
      /\ DOMAIN plan = {"made", "rel", "path", "scan", "remote", "qual", "recheck", "tlist", "results", "stmt"}
  BY <1>1 DEF PInv, StagesInv, PlanInv
<1>4. plan' = [plan EXCEPT !.stmt = stmt]
  BY <1>1
<1>5. /\ plan'.made = plan.made /\ plan'.rel = plan.rel /\ plan'.path = plan.path /\ plan'.scan = plan.scan
      /\ plan'.remote = plan.remote /\ plan'.qual = plan.qual /\ plan'.recheck = plan.recheck /\ plan'.tlist = plan.tlist
      /\ plan'.stmt = stmt /\ DOMAIN plan' = DOMAIN plan
  BY ONLY <1>3, <1>4
<1> QED BY <1>1, <1>2, <1>3, <1>5

LEMMA DirectModifyStep ==
  ASSUME PInv, db2PlanDirectModify
  PROVE  PInv'
<1>1. /\ plan.made /\ plan'.made = TRUE /\ plan'.rel = plan.rel
      /\ plan'.remote = plan.remote /\ plan'.qual = plan.qual /\ DOMAIN plan' = DOMAIN plan
      /\ rels' = rels /\ query' = query /\ todo' = todo /\ top' = top
      /\ query.cmd # "SELECT"
  <2>1. /\ plan.made /\ plan'.made = TRUE /\ plan'.rel = plan.rel
        /\ plan'.remote = plan.remote /\ plan'.qual = plan.qual /\ DOMAIN plan' = DOMAIN plan
        /\ rels' = rels /\ query' = query /\ todo' = todo /\ top' = top
        /\ query.cmd \in {"UPDATE", "DELETE"}
    BY DirectFacts
  <2> QED BY <2>1
<1>k. \A k \in 1 .. 8 : Kept(k) /\ rels'[k].paths = rels[k].paths
  BY <1>1, SameIsKept
<1>2. StagesInv'
  <2>1. StagesInv
    BY DEF PInv
  <2>2. plan.made => todo = <<>>
    BY <2>1 DEF StagesInv
  <2> QED BY <1>1, <1>k, <2>1, <2>2, StagesKept
<1>3. ShapeInv'
  BY <1>1 DEF PInv, ShapeInv
<1>4. RelsInv'
  <2>1. query \in Queries /\ RelsInv
    BY DEF PInv, StagesInv
  <2> QED BY <1>1, <1>k, <2>1, RelsKept
<1>5. PlanInv'
  <2>1. PlanInv
    BY DEF PInv
  <2>2. ASSUME plan.rel \in Bases
        PROVE  BasePlanInv(plan.rel)'
    <3>1. BasePlanInv(plan.rel)
      BY <1>1, <2>1, <2>2 DEF PlanInv
    <3>2. /\ RemoteOf(plan.rel, ScanClauses(plan.rel))' = RemoteOf(plan.rel, ScanClauses(plan.rel))
          /\ ScanClauses(plan.rel)' = ScanClauses(plan.rel)
      BY <1>1 DEF RemoteOf, ScanClauses, Ships, Glob, Scanrel
    <3> QED BY <1>1, <3>1, <3>2 DEF BasePlanInv
  <2> QED BY <1>1, <2>1, <2>2 DEF PlanInv
<1> QED BY <1>2, <1>3, <1>4, <1>5 DEF PInv

LEMMA InitInv ==
  Init => PInv
<1> SUFFICES ASSUME Init PROVE PInv
  OBVIOUS
<1>1. query \in Queries /\ plan = NoPlan /\ todo = Stages(query) /\ top = ScanTop(query)
  BY DEF Init
<1>2. query.rels \in {{1}, {2}, {1, 2}} /\ top \in 1 .. 3
  <2>1. query.rels \in {{1}, {2}, {1, 2}}
    BY <1>1, QueryFacts
  <2> QED BY <1>1, <2>1, ScanTopFacts
<1>3. /\ DOMAIN rels = 1 .. 8
      /\ \A k \in 1 .. 8 : k \notin query.rels => rels[k] = NoRel
      /\ \A k \in query.rels : rels[k] = [NoRel EXCEPT !.kind = "base", !.relids = {k}, !.target = query.target[k]]
  <2>1. rels = [r \in 1 .. 8 |-> IF r \in query.rels
                                  THEN [NoRel EXCEPT !.kind = "base", !.relids = {r}, !.target = query.target[r]] ELSE NoRel]
    BY DEF Init
  <2>2. query.rels \subseteq 1 .. 8
    BY <1>2
  <2> QED BY <2>1, <2>2
<1>4. \A k \in 1 .. 8 : /\ DOMAIN rels[k] = DOMAIN NoRel /\ rels[k].fdw.has = FALSE /\ rels[k].paths = {}
                        /\ k \in query.rels => rels[k].kind = "base" /\ rels[k].relids = {k} /\ rels[k].target = query.target[k]
  <2> SUFFICES ASSUME NEW k \in 1 .. 8
               PROVE  /\ DOMAIN rels[k] = DOMAIN NoRel /\ rels[k].fdw.has = FALSE /\ rels[k].paths = {}
                      /\ k \in query.rels => rels[k].kind = "base" /\ rels[k].relids = {k} /\ rels[k].target = query.target[k]
    OBVIOUS
  <2>1. CASE k \in query.rels
    <3>1. {"kind", "relids", "fdw", "target", "paths"} = DOMAIN NoRel
      BY DEF NoRel
    <3>2. PICK no : no = NoRel
      OBVIOUS
    <3>3. PICK target : target = query.target[k]
      OBVIOUS
    <3>4. rels[k] = [no EXCEPT !.kind = "base", !.relids = {k}, !.target = target]
      BY <1>3, <2>1, <3>2, <3>3
    <3>5. DOMAIN no = DOMAIN NoRel /\ no.fdw.has = FALSE /\ no.paths = {}
      BY <3>2, NoRelFacts
    <3> QED BY <3>1, <3>3, <3>4, <3>5
  <2>2. CASE k \notin query.rels
    BY <1>3, <2>2, NoRelFacts
  <2> QED BY <2>1, <2>2
<1>5. StagesInv
  <2>1. /\ todo \in Seq(DOMAIN UpperRel) /\ ToSet(todo) = Needed(query)
        /\ \A i, j \in DOMAIN todo : i < j => UpperRel[todo[i]] < UpperRel[todo[j]]
    BY <1>1, StagesList
  <2>2. \A s \in Needed(query) : UpperRel[s] > top
    BY <1>2, NeededFacts, UpperRels
  <2>3. \A k \in 4 .. 8 : rels[k] = NoRel
    <3>1. \A k \in 4 .. 8 : k \in 1 .. 8 /\ k \notin query.rels
      BY <1>2
    <3> QED BY <1>3, <3>1
  <2>5. ToSet(todo) = {s \in Needed(query) : UpperRel[s] > top}
    BY <2>1, <2>2
  <2>6. ~(top > JoinRel)
    BY <1>2 DEF JoinRel
  <2>4. plan.made = FALSE
    BY <1>1 DEF NoPlan
  <2> QED BY <1>1, <1>2, <2>1, <2>3, <2>4, <2>5, <2>6 DEF StagesInv
<1>6. ShapeInv
  BY <1>3, <1>4 DEF ShapeInv
<1>7. PlanInv
  BY <1>1 DEF PlanInv, NoPlan
<1>8. BaseInv
  <2> SUFFICES ASSUME NEW k \in Bases PROVE BaseOk(k)
    BY DEF BaseInv
  <2>1. k \in 1 .. 8
    BY DEF Bases
  <2> QED BY <1>3, <1>4, <2>1 DEF BaseOk
<1>9. rels[3] = NoRel /\ rels[4] = NoRel /\ rels[5] = NoRel /\ rels[6] = NoRel /\ rels[7] = NoRel
  <2>1. \A k \in {3, 4, 5, 6, 7} : k \in 1 .. 8 /\ k \notin query.rels
    BY <1>2
  <2>2. \A k \in {3, 4, 5, 6, 7} : rels[k] = NoRel
    BY <1>3, <2>1
  <2> QED BY <2>2
<1>10. PathsInv
  BY <1>4 DEF PathsInv
<1>11. RelsInv
  BY <1>8, <1>9, <1>10 DEF RelsInv, JoinInv, GroupInv, SortInv, JoinRel
<1> QED BY <1>5, <1>6, <1>7, <1>11 DEF PInv

\* Every step keeps the invariant.
LEMMA NextInv ==
  PInv /\ [Next]_vars => PInv'
<1> SUFFICES ASSUME PInv, [Next]_vars PROVE PInv'
  OBVIOUS
<1>1. CASE \E r \in Bases : db2GetForeignRelSize(r) \/ db2GetForeignPaths(r)
  BY <1>1, RelSizeStep, PathsStep
<1>2. CASE \E o, i \in Bases : db2GetForeignJoinPaths(o, i)
  BY <1>2, JoinStep
<1>3. CASE UpperNotHandled
  BY <1>3, NotHandledStep
<1>4. CASE UpperGrouping
  BY <1>4, GroupingStep
<1>5. CASE UpperOrdered
  BY <1>5, OrderedStep
<1>6. CASE UpperFinal
  BY <1>6, FinalStep
<1>7. CASE db2GetForeignPlan
  BY <1>7, PlanStep
<1>8. CASE db2PlanDirectModify
  BY <1>8, DirectModifyStep
<1>9. CASE UNCHANGED vars
  <2>1. UNCHANGED <<query, rels, todo, top, plan>>
    BY <1>9 DEF vars
  <2>2. \A k \in 1 .. 8 : Kept(k) /\ rels'[k].paths = rels[k].paths
    BY <2>1, SameIsKept
  <2>3. query \in Queries /\ StagesInv /\ RelsInv /\ plan.made \in BOOLEAN /\ (plan.made => todo = <<>>)
    BY DEF PInv, StagesInv
  <2>4. StagesInv' /\ RelsInv'
    BY <2>1, <2>2, <2>3, StagesKept, RelsKept
  <2>5. ShapeInv' /\ PlanInv'
    BY <2>1 DEF PInv, ShapeInv, PlanInv, BasePlanInv, RemoteOf, ScanClauses, Ships, Glob, Scanrel
  <2> QED BY <2>4, <2>5 DEF PInv
<1> QED BY <1>1, <1>2, <1>3, <1>4, <1>5, <1>6, <1>7, <1>8, <1>9 DEF Next

\* The relations, their paths and the stages of a query are what the callbacks
\* take them for, whatever the query and the order of the callbacks.
THEOREM PlannerInvariant == Spec => []PInv
BY InitInv, NextInv, PTL DEF Spec

(***************************************************************************)
(* The plan is what its path and its target list make it.                  *)
(***************************************************************************)
\* Nothing of what a plan is made from has changed after it.
LEMMA ScanKept ==
  ASSUME NEW r, Kept(r), rels[r].kind = "upper" => Kept(rels[r].fdw.outer),
         rels[Scanrel(rels, r)].kind # "upper", query' = query
  PROVE  /\ PassedTlists(r)' = PassedTlists(r) /\ build_tlist_to_deparse(rels, r)' = build_tlist_to_deparse(rels, r)
         /\ QualVars(rels[r].fdw)' = QualVars(rels[r].fdw)
         /\ \A tlist : BaseScanTlist(r, tlist)' = BaseScanTlist(r, tlist)
         /\ \A path, scan, remote :
              deparseSelectStmtForRel(query, rels, r, scan, remote, path.pathkeys, path.sort, path.limit)'
                = deparseSelectStmtForRel(query, rels, r, scan, remote, path.pathkeys, path.sort, path.limit)
<1>1. Glob(rels, r)' = Glob(rels, r)
  BY GlobKept
<1>2. PassedTlists(r)' = PassedTlists(r)
  BY DEF PassedTlists, Kept
<1>3. build_tlist_to_deparse(rels, r)' = build_tlist_to_deparse(rels, r)
  BY <1>1 DEF build_tlist_to_deparse, Ships, Kept
<1>4. QualVars(rels[r].fdw)' = QualVars(rels[r].fdw)
  BY DEF QualVars, Kept
<1>5. ASSUME NEW tlist
      PROVE  BaseScanTlist(r, tlist)' = BaseScanTlist(r, tlist)
  BY <1>3, <1>4 DEF BaseScanTlist, ScanVars
<1>s. PICK scan : scan = Scanrel(rels, r)
  OBVIOUS
<1>6. Scanrel(rels, r)' = scan /\ Kept(scan) /\ rels'[r].kind = rels[r].kind
  BY <1>s DEF Scanrel, Kept
<1>7. Glob(rels, scan)' = Glob(rels, scan)
  BY <1>s, <1>6, GlobKept
<1>8. rels'[scan].relids = rels[scan].relids /\ rels'[scan].fdw.remote_conds = rels[scan].fdw.remote_conds
      /\ rels'[r].fdw.grouped_tlist = rels[r].fdw.grouped_tlist
  BY <1>6 DEF Kept
<1>9. deparseFromExprForRel(rels, scan)' = deparseFromExprForRel(rels, scan)
  BY <1>6 DEF deparseFromExprForRel, Kept
<1>10. ASSUME NEW members, NEW final
       PROVE  SortExpr(rels, r, members, final, query.sortrefs)' = SortExpr(rels, r, members, final, query.sortrefs)
  <2>1. find_em_for_rel_target(rels, r, members, query.sortrefs)' = find_em_for_rel_target(rels, r, members, query.sortrefs)
    BY <1>1 DEF find_em_for_rel_target, Ships, Kept
  <2>2. find_em_for_rel(rels, scan, members)' = find_em_for_rel(rels, scan, members)
    BY <1>7, <1>8 DEF find_em_for_rel, Ships
  <2> QED BY <1>s, <1>6, <2>1, <2>2 DEF SortExpr
<1>11. ASSUME NEW pathkeys, NEW final
       PROVE  appendOrderByClause(rels, r, pathkeys, final, query.sortrefs)'
                = appendOrderByClause(rels, r, pathkeys, final, query.sortrefs)
  <2>1. [i \in DOMAIN pathkeys |-> SortExpr(rels, r, pathkeys[i].members, final, query.sortrefs)]'
          = [i \in DOMAIN pathkeys |-> SortExpr(rels, r, pathkeys[i].members, final, query.sortrefs)]
    BY <1>10
  <2> QED BY <1>s, <1>6, <1>8, <2>1 DEF appendOrderByClause
<1>12. ASSUME NEW path, NEW list, NEW remote
       PROVE  deparseSelectStmtForRel(query, rels, r, list, remote, path.pathkeys, path.sort, path.limit)'
                = deparseSelectStmtForRel(query, rels, r, list, remote, path.pathkeys, path.sort, path.limit)
  <2>1. appendOrderByClause(rels, r, path.pathkeys, path.sort, query.sortrefs)'
          = appendOrderByClause(rels, r, path.pathkeys, path.sort, query.sortrefs)
    BY <1>11
  <2> QED BY <1>s, <1>6, <1>8, <1>9, <2>1 DEF deparseSelectStmtForRel
<1> QED BY <1>2, <1>3, <1>4, <1>5, <1>12

\* After the plan only the direct modification is left.
LEMMA OnlyLast ==
  ASSUME PInv, [Next]_vars
  PROVE  /\ plan.made => db2PlanDirectModify \/ UNCHANGED vars
         /\ ~plan.made => db2GetForeignPlan \/ plan' = plan
<1>1. /\ StagesInv /\ RelsInv /\ query.rels \in {{1}, {2}, {1, 2}} /\ (plan.made => todo = <<>>)
      /\ (todo = <<>> => top = 8) /\ (top > JoinRel => ScanReady)
  BY TopFacts, QueryFacts DEF PInv, StagesInv
<1>2. ASSUME plan.made
      PROVE  \A r \in query.rels : r \in Bases /\ rels[r].paths # {} /\ rels[r].fdw.has
  <2>1. ScanReady /\ query.rels \subseteq {1, 2}
    BY <1>1, <1>2 DEF JoinRel
  <2> SUFFICES ASSUME NEW r \in query.rels PROVE r \in Bases /\ rels[r].paths # {} /\ rels[r].fdw.has
    OBVIOUS
  <2>2. r \in Bases /\ rels[r].paths # {}
    BY <2>1 DEF ScanReady, Bases
  <2>3. BaseOk(r)
    BY <1>1, <2>2 DEF RelsInv, BaseInv
  <2> QED BY <2>2, <2>3 DEF BaseOk
<1>3. ASSUME plan.made, NEW r \in Bases
      PROVE  ~db2GetForeignRelSize(r) /\ ~db2GetForeignPaths(r)
  <2>1. CASE r \in query.rels
    BY <1>2, <1>3, <2>1 DEF db2GetForeignRelSize, db2GetForeignPaths
  <2>2. CASE r \notin query.rels
    <3>1. rels[r] = NoRel
      BY <1>1, <2>2 DEF RelsInv, BaseInv, BaseOk
    <3> QED BY <3>1, NoRelFacts DEF db2GetForeignRelSize, db2GetForeignPaths
  <2> QED BY <2>1, <2>2
<1>4. ASSUME plan.made, NEW o \in Bases, NEW i \in Bases
      PROVE  ~db2GetForeignJoinPaths(o, i)
  <2>1. ScanReady
    BY <1>1, <1>4 DEF JoinRel
  <2>2. ASSUME db2GetForeignJoinPaths(o, i) PROVE FALSE
    <3>1. o # i /\ o \in query.rels /\ i \in query.rels /\ query.cmd = "SELECT"
          /\ ~rels[JoinRel].fdw.has /\ foreign_join_ok(o, i)
      BY <2>2 DEF db2GetForeignJoinPaths
    <3> QED BY <2>1, <3>1 DEF ScanReady
  <2> QED BY <2>2
<1>5. ASSUME plan.made
      PROVE  ~UpperNotHandled /\ ~UpperGrouping /\ ~UpperOrdered /\ ~UpperFinal
  BY <1>1, <1>5 DEF UpperNotHandled, UpperGrouping, UpperOrdered, UpperFinal, AtStage
<1>6. plan.made => db2PlanDirectModify \/ UNCHANGED vars
  <2> SUFFICES ASSUME plan.made PROVE db2PlanDirectModify \/ UNCHANGED vars
    OBVIOUS
  <2>1. ~db2GetForeignPlan
    BY DEF db2GetForeignPlan
  <2>2. /\ ~\E r \in Bases : db2GetForeignRelSize(r) \/ db2GetForeignPaths(r)
        /\ ~\E o, i \in Bases : db2GetForeignJoinPaths(o, i)
    BY <1>3, <1>4
  <2> QED BY <1>5, <2>1, <2>2 DEF Next
<1>7. ~plan.made => db2GetForeignPlan \/ plan' = plan
  <2>1. \A r \in Bases : db2GetForeignRelSize(r) \/ db2GetForeignPaths(r) => plan' = plan
    BY DEF db2GetForeignRelSize, db2GetForeignPaths
  <2>2. \A o, i \in Bases : db2GetForeignJoinPaths(o, i) => plan' = plan
    BY DEF db2GetForeignJoinPaths
  <2>3. UpperNotHandled \/ UpperGrouping \/ UpperOrdered \/ UpperFinal => plan' = plan
    BY DEF UpperNotHandled, UpperGrouping, UpperOrdered, UpperFinal, NextStage
  <2>4. db2PlanDirectModify => plan.made
    BY DEF db2PlanDirectModify
  <2>5. UNCHANGED vars => plan' = plan
    BY DEF vars
  <2> QED BY <2>1, <2>2, <2>3, <2>4, <2>5 DEF Next
<1> QED BY <1>6, <1>7

\* What is scanned is a base relation or the join.
LEMMA BelowPlan ==
  ASSUME PInv, NEW r \in query.rels \cup {3, 4}, rels[r].fdw.has
  PROVE  /\ r \in {1, 2, 3, 4}
         /\ rels[r].kind = IF r \in Bases THEN "base" ELSE IF r = 3 THEN "join" ELSE "upper"
         /\ Scanrel(rels, r) = IF r = 4 THEN ScanTop(query) ELSE r
         /\ Scanrel(rels, r) \in {1, 2, 3} /\ rels[Scanrel(rels, r)].fdw.has
         /\ Scanrel(rels, r) \in query.rels \cup {3}
         /\ rels[Scanrel(rels, r)].kind = IF Scanrel(rels, r) \in Bases THEN "base" ELSE "join"
         /\ rels[r].kind = "upper" <=> r = 4
<1>1. query \in Queries /\ RelsInv /\ query.rels \in {{1}, {2}, {1, 2}} /\ Bases = {1, 2}
  <2>1. query \in Queries /\ RelsInv
    BY DEF PInv, StagesInv
  <2>2. query.rels \in {{1}, {2}, {1, 2}}
    BY <2>1, QueryFacts
  <2> QED BY <2>1, <2>2 DEF Bases
<1>2. /\ r \in {1, 2, 3, 4}
      /\ rels[r].kind = IF r \in Bases THEN "base" ELSE IF r = 3 THEN "join" ELSE "upper"
  BY <1>1, Kinds
<1>3. rels[r].kind = "upper" <=> r = 4
  BY <1>1, <1>2
<1>4. CASE r # 4
  <2>1. Scanrel(rels, r) = r
    BY <1>3, <1>4 DEF Scanrel
  <2> QED BY <1>1, <1>2, <1>3, <1>4, <2>1
<1>5. CASE r = 4
  <2>1. rels[4] # NoRel
    BY <1>5, NoRelFacts
  <2>2. rels[4].fdw.outer = ScanTop(query) /\ ScanTop(query) \in {1, 2, 3} /\ rels[ScanTop(query)].fdw.has
    BY <1>1, <2>1, GroupBelow DEF RelsInv
  <2>3. ScanTop(query) \in query.rels \cup {3}
    BY <1>1, ScanTopFacts
  <2>4. rels[ScanTop(query)].kind = IF ScanTop(query) \in Bases THEN "base" ELSE "join"
    <3>1. PICK s : s = ScanTop(query)
      OBVIOUS
    <3>2. s \in query.rels \cup {3, 4} /\ rels[s].fdw.has /\ s \in {1, 2, 3}
      BY <2>2, <2>3, <3>1
    <3>3. rels[s].kind = IF s \in Bases THEN "base" ELSE IF s = 3 THEN "join" ELSE "upper"
      BY <1>1, <3>2, Kinds
    <3> QED BY <1>1, <3>1, <3>2, <3>3
  <2>5. Scanrel(rels, r) = ScanTop(query)
    BY <1>3, <1>5, <2>2 DEF Scanrel
  <2> QED BY <1>2, <1>3, <1>5, <2>2, <2>3, <2>4, <2>5
<1> QED BY <1>4, <1>5

LEMMA PlanFactsMade ==
  ASSUME PInv, NEW path, NEW tlist, Made(path, tlist)
  PROVE  PlanFacts'
<1>r. PICK r : r = path.parent
  OBVIOUS
<1>1. /\ query' = query /\ r \in query.rels \cup {3, 4} /\ rels[r].fdw.has /\ tlist \in PassedTlists(r)
      /\ \A k \in 1 .. 8 : Kept(k)
      /\ PathOk(path) /\ plan'.made = TRUE /\ plan'.rel = r /\ plan'.path = path /\ plan'.stmt.cmd = "SELECT"
  BY <1>r DEF Made, NewPlan
<1>2. /\ r \in {1, 2, 3, 4} /\ Scanrel(rels, r) \in {1, 2, 3}
      /\ rels[Scanrel(rels, r)].kind = IF Scanrel(rels, r) \in Bases THEN "base" ELSE "join"
  BY <1>1, BelowPlan
<1>3. Kept(r) /\ (rels[r].kind = "upper" => Kept(rels[r].fdw.outer)) /\ rels[Scanrel(rels, r)].kind # "upper"
  <2>1. r \in 1 .. 8 /\ Scanrel(rels, r) \in 1 .. 8
    BY <1>2
  <2>2. rels[r].kind = "upper" => rels[r].fdw.outer = Scanrel(rels, r)
    BY DEF Scanrel
  <2> QED BY <1>1, <1>2, <2>1, <2>2
<1>4. /\ PassedTlists(r)' = PassedTlists(r) /\ build_tlist_to_deparse(rels, r)' = build_tlist_to_deparse(rels, r)
      /\ QualVars(rels[r].fdw)' = QualVars(rels[r].fdw)
      /\ \A l : BaseScanTlist(r, l)' = BaseScanTlist(r, l)
      /\ \A p, scan, remote :
           deparseSelectStmtForRel(query, rels, r, scan, remote, p.pathkeys, p.sort, p.limit)'
             = deparseSelectStmtForRel(query, rels, r, scan, remote, p.pathkeys, p.sort, p.limit)
  BY <1>1, <1>3, ScanKept
<1>5. PathOk(path)'
  <2>1. PICK n : n = 0
    OBVIOUS
  <2>2. StepAt(n)
    BY <1>1, <2>1 DEF StepAt
  <2>3. query \in Queries /\ BaseInv /\ GroupInv
    BY DEF PInv, StagesInv, RelsInv
  <2> QED BY <1>1, <2>2, <2>3, PathKept
<1>6. PlanOf(tlist)'
  <2>1. r \in Bases =>
          /\ plan'.scan = BaseScanTlist(r, tlist) /\ plan'.recheck = plan'.remote
          /\ plan'.tlist = add_to_flat_tlist(tlist, Only(QualVars(rels[r].fdw), {v \in ToSet(QualVars(rels[r].fdw)) : v.attno > 0}))
    BY <1>r DEF Made, NewPlan
  <2>2. r \notin Bases =>
          /\ plan'.scan = build_tlist_to_deparse(rels, r)
          /\ plan'.remote = rels[r].fdw.remote_conds /\ plan'.qual = rels[r].fdw.local_conds
    BY <1>r DEF Made, NewPlan
  <2>3. rels'[r].fdw.remote_conds = rels[r].fdw.remote_conds /\ rels'[r].fdw.local_conds = rels[r].fdw.local_conds
    BY <1>3 DEF Kept
  <2> QED BY <1>1, <1>4, <2>1, <2>2, <2>3 DEF PlanOf
<1>7. SelectInv'
  <2>1. plan'.stmt = deparseSelectStmtForRel(query, rels, r, plan'.scan, plan'.remote, path.pathkeys, path.sort, path.limit)
    BY <1>r DEF Made, NewPlan
  <2>2. PICK scan, remote : scan = plan'.scan /\ remote = plan'.remote
    OBVIOUS
  <2>3. plan'.stmt = deparseSelectStmtForRel(query, rels, r, scan, remote, path.pathkeys, path.sort, path.limit)'
    BY <1>4, <2>1, <2>2
  <2> QED BY <1>1, <2>2, <2>3 DEF SelectInv
<1>8. \E l \in PassedTlists(r)' : PlanOf(l)'
  BY <1>1, <1>4, <1>6
<1> QED BY <1>1, <1>r, <1>5, <1>7, <1>8 DEF PlanFacts

\* A step that leaves the relations alone leaves alone what a plan is made from.
LEMMA PlanKept ==
  ASSUME PInv, PlanFacts, plan.made, rels' = rels, query' = query,
         plan'.rel = plan.rel, plan'.path = plan.path, plan'.scan = plan.scan, plan'.remote = plan.remote,
         plan'.qual = plan.qual, plan'.recheck = plan.recheck, plan'.tlist = plan.tlist
  PROVE  /\ PathOk(plan.path)' /\ (\E l \in PassedTlists(plan.rel)' : PlanOf(l)')
         /\ plan'.stmt = plan.stmt => (SelectInv => SelectInv')
<1>r. PICK r, path, scan, remote : r = plan.rel /\ path = plan.path /\ scan = plan.scan /\ remote = plan.remote
  OBVIOUS
<1>1. /\ r \in query.rels \cup {3, 4} /\ rels[r].fdw.has /\ PathOk(path)
  BY <1>r DEF PInv, PlanInv, PlanFacts, JoinRel
<1>2. /\ \A k : Kept(k)
      /\ rels[Scanrel(rels, r)].kind = IF Scanrel(rels, r) \in Bases THEN "base" ELSE "join"
  BY <1>1, BelowPlan, SameIsKept
<1>3. /\ PassedTlists(r)' = PassedTlists(r) /\ build_tlist_to_deparse(rels, r)' = build_tlist_to_deparse(rels, r)
      /\ QualVars(rels[r].fdw)' = QualVars(rels[r].fdw)
      /\ \A l : BaseScanTlist(r, l)' = BaseScanTlist(r, l)
      /\ \A p, s, c :
           deparseSelectStmtForRel(query, rels, r, s, c, p.pathkeys, p.sort, p.limit)'
             = deparseSelectStmtForRel(query, rels, r, s, c, p.pathkeys, p.sort, p.limit)
  BY <1>2, ScanKept
<1>4. PathOk(path)'
  <2>1. PICK n : n = 0
    OBVIOUS
  <2>2. StepAt(n)
    BY <1>2, <2>1 DEF StepAt
  <2>3. query \in Queries /\ BaseInv /\ GroupInv
    BY DEF PInv, StagesInv, RelsInv
  <2> QED BY <1>1, <2>2, <2>3, PathKept
<1>5. PICK tlist \in PassedTlists(r) : PlanOf(tlist)
  BY <1>r DEF PlanFacts
<1>6. PlanOf(tlist)'
  BY <1>r, <1>3, <1>5 DEF PlanOf
<1>7. plan'.stmt = plan.stmt /\ SelectInv => SelectInv'
  <2> SUFFICES ASSUME plan'.stmt = plan.stmt, SelectInv PROVE SelectInv'
    OBVIOUS
  <2>1. plan.stmt = deparseSelectStmtForRel(query, rels, r, scan, remote, path.pathkeys, path.sort, path.limit)
    BY <1>r DEF SelectInv
  <2>2. plan'.stmt = deparseSelectStmtForRel(query, rels, r, scan, remote, path.pathkeys, path.sort, path.limit)'
    BY <1>3, <2>1
  <2> QED BY <1>r, <2>2 DEF SelectInv
<1> QED BY <1>r, <1>3, <1>4, <1>5, <1>6, <1>7

LEMMA PlanFactsDirect ==
  ASSUME PInv, PlanFacts, db2PlanDirectModify
  PROVE  PlanFacts'
<1>1. /\ plan.made /\ plan'.made = TRUE /\ plan'.rel = plan.rel /\ plan'.path = plan.path /\ plan'.scan = plan.scan
      /\ plan'.remote = plan.remote /\ plan'.qual = plan.qual /\ plan'.recheck = plan.recheck /\ plan'.tlist = plan.tlist
      /\ rels' = rels /\ query' = query
      /\ query.cmd \in {"UPDATE", "DELETE"}
      /\ plan'.stmt = IF query.cmd = "UPDATE"
                        THEN deparseDirectUpdateSql(rels, plan.rel, query.set, rels[plan.rel].fdw.final_remote_exprs)
                        ELSE deparseDirectDeleteSql(rels, plan.rel, rels[plan.rel].fdw.final_remote_exprs)
      /\ plan'.stmt.cmd = query.cmd
  BY DirectFacts
<1>2. PathOk(plan.path)' /\ (\E l \in PassedTlists(plan.rel)' : PlanOf(l)')
  BY <1>1, PlanKept
<1>4. DirectInv'
  <2>1. /\ ~query.returning /\ find_modifytable_subplan /\ plan.qual = <<>>
        /\ query.cmd = "UPDATE" => \A k \in DOMAIN query.set : Ships(rels, plan.rel, query.set[k].expr)
    BY DEF db2PlanDirectModify
  <2> QED BY <1>1, <2>1 DEF DirectInv, find_modifytable_subplan
<1>5. plan.path.parent = plan.rel
  BY <1>1 DEF PlanFacts
<1>6. plan'.stmt.cmd # "SELECT"
  BY <1>1
<1> QED BY <1>1, <1>2, <1>4, <1>5, <1>6 DEF PlanFacts

LEMMA PlanFactsInit ==
  Init => PlanFacts
BY DEF Init, NoPlan, PlanFacts

LEMMA PlanFactsNext ==
  PInv /\ PlanFacts /\ [Next]_vars => PlanFacts'
<1> SUFFICES ASSUME PInv, PlanFacts, [Next]_vars PROVE PlanFacts'
  OBVIOUS
<1>1. CASE db2PlanDirectModify
  BY <1>1, PlanFactsDirect
<1>2. CASE ~plan.made /\ db2GetForeignPlan
  BY <1>2, PlanMade, PlanFactsMade
<1>3. CASE ~plan.made /\ plan' = plan
  BY <1>3 DEF PlanFacts
<1>4. CASE UNCHANGED vars
  <2>1. query' = query /\ rels' = rels /\ plan' = plan
    BY <1>4 DEF vars
  <2> SUFFICES ASSUME plan.made PROVE PlanFacts'
    BY <2>1 DEF PlanFacts
  <2>2. /\ PathOk(plan.path)' /\ (\E l \in PassedTlists(plan.rel)' : PlanOf(l)')
        /\ SelectInv => SelectInv'
    BY <2>1, PlanKept
  <2>5. DirectInv => DirectInv'
    BY <2>1 DEF DirectInv, find_modifytable_subplan, deparseDirectUpdateSql, deparseDirectDeleteSql, Ships, Glob, Scanrel
  <2> QED BY <2>1, <2>2, <2>5 DEF PlanFacts
<1> QED BY <1>1, <1>2, <1>3, <1>4, OnlyLast

\* The plan is what its path and its target list make it, and its statement is
\* that of the plan or the modification that has taken its place.
THEOREM PlannerPlans == Spec => []PlanFacts
BY InitInv, NextInv, PlanFactsInit, PlanFactsNext, PTL DEF Spec

(***************************************************************************)
(* Each condition once.                                                    *)
(***************************************************************************)
\* What a made plan is over.
LEMMA MadeFacts ==
  ASSUME PInv, PlanFacts, plan.made
  PROVE  /\ query \in Queries /\ query.rels \in {{1}, {2}, {1, 2}} /\ Bases = {1, 2}
         /\ plan.rel \in {1, 2, 3, 4} /\ plan.rel \in query.rels \cup {3, 4} /\ rels[plan.rel].fdw.has
         /\ rels[plan.rel].kind = IF plan.rel \in Bases THEN "base" ELSE IF plan.rel = 3 THEN "join" ELSE "upper"
         /\ ScanOf = Scanrel(rels, plan.rel) /\ ScanOf = IF plan.rel = 4 THEN ScanTop(query) ELSE plan.rel
         /\ ScanOf \in {1, 2, 3} /\ ScanOf \in query.rels \cup {3} /\ rels[ScanOf].fdw.has
         /\ rels[ScanOf].kind = IF ScanOf \in Bases THEN "base" ELSE "join"
         /\ ScanOf \in Bases => BaseFdw(ScanOf) /\ OwnRelids = {ScanOf}
         /\ ScanOf = 3 => OwnRelids = {1, 2} /\ query.rels = {1, 2}
         /\ PathOk(plan.path) /\ plan.path.parent = plan.rel
         /\ plan.rel = 4 => rels[4].fdw.pushdown_safe /\ GroupFdw /\ Grouping(query)
<1>1. query \in Queries /\ RelsInv /\ PlanInv /\ query.rels \in {{1}, {2}, {1, 2}}
  <2>1. query \in Queries /\ RelsInv /\ PlanInv
    BY DEF PInv, StagesInv
  <2> QED BY <2>1, QueryFacts
<1>2. /\ plan.rel \in query.rels \cup {3, 4} /\ rels[plan.rel].fdw.has
      /\ PathOk(plan.path) /\ plan.path.parent = plan.rel
  BY <1>1 DEF PlanInv, PlanFacts, JoinRel
<1>r. PICK r : r = plan.rel
  OBVIOUS
<1>3. /\ r \in {1, 2, 3, 4}
      /\ rels[r].kind = IF r \in Bases THEN "base" ELSE IF r = 3 THEN "join" ELSE "upper"
      /\ Scanrel(rels, r) = IF r = 4 THEN ScanTop(query) ELSE r
      /\ Scanrel(rels, r) \in {1, 2, 3} /\ rels[Scanrel(rels, r)].fdw.has
      /\ Scanrel(rels, r) \in query.rels \cup {3}
      /\ rels[Scanrel(rels, r)].kind = IF Scanrel(rels, r) \in Bases THEN "base" ELSE "join"
  BY <1>2, <1>r, BelowPlan
<1>4. ScanOf = Scanrel(rels, plan.rel) /\ Bases = {1, 2}
  BY DEF ScanOf, Scanrel, Bases
<1>s. PICK s : s = ScanOf
  OBVIOUS
<1>5. s \in {1, 2, 3} /\ s \in query.rels \cup {3} /\ rels[s].fdw.has
  BY <1>3, <1>4, <1>r, <1>s
<1>6. s \in Bases => BaseFdw(s) /\ OwnRelids = {s}
  <2> SUFFICES ASSUME s \in Bases PROVE BaseFdw(s) /\ OwnRelids = {s}
    OBVIOUS
  <2>1. BaseOk(s) /\ s \in query.rels
    BY <1>1, <1>4, <1>5 DEF RelsInv, BaseInv
  <2> QED BY <1>5, <1>s, <2>1 DEF BaseOk, OwnRelids
<1>7. s = 3 => OwnRelids = {1, 2} /\ query.rels = {1, 2}
  <2> SUFFICES ASSUME s = 3 PROVE OwnRelids = {1, 2} /\ query.rels = {1, 2}
    OBVIOUS
  <2>1. rels[3] # NoRel
    BY <1>5, NoRelFacts
  <2> QED BY <1>1, <1>s, <2>1 DEF RelsInv, JoinInv, JoinRel, OwnRelids
<1>8. plan.rel = 4 => rels[4].fdw.pushdown_safe /\ GroupFdw /\ Grouping(query)
  <2> SUFFICES ASSUME plan.rel = 4 PROVE rels[4].fdw.pushdown_safe /\ GroupFdw /\ Grouping(query)
    OBVIOUS
  <2>1. rels[4] # NoRel /\ rels[4].fdw.pushdown_safe
    BY <1>2, NoRelFacts DEF PathOk, GroupPathOk
  <2> QED BY <1>1, <2>1 DEF RelsInv, GroupInv
<1> QED BY <1>1, <1>2, <1>3, <1>4, <1>5, <1>6, <1>7, <1>8, <1>r, <1>s

LEMMA SameBagByCount ==
  ASSUME NEW es, NEW fs, \A e : Count(es, e) = Count(fs, e)
  PROVE  SameBag(es, fs)
BY DEF SameBag, Count, Places

LEMMA CountEmpty ==
  ASSUME NEW e
  PROVE  Count(<<>>, e) = 0
<1>1. Places(<<>>, e) = {}
  BY DEF Places
<1> QED BY <1>1, FS_EmptySet DEF Count

\* The walker puts each condition on one side.
LEMMA ClassifiedOnce ==
  ASSUME NEW glob, NEW es \in Seq(Expressions), NEW e
  PROVE  /\ classifyConditions(glob, es).remote \in Seq(Expressions)
         /\ classifyConditions(glob, es).local \in Seq(Expressions)
         /\ Count(classifyConditions(glob, es).remote, e) + Count(classifyConditions(glob, es).local, e) = Count(es, e)
         /\ Count(classifyConditions(glob, es).remote, e) \in Nat
         /\ ToSet(classifyConditions(glob, es).remote) \cup ToSet(classifyConditions(glob, es).local) = ToSet(es)
<1>1. PICK A, B : A = {c \in ToSet(es) : is_foreign_expr(glob, c)} /\ B = {c \in ToSet(es) : ~is_foreign_expr(glob, c)}
  OBVIOUS
<1>2. classifyConditions(glob, es).remote = Only(es, A) /\ classifyConditions(glob, es).local = Only(es, B)
  BY <1>1 DEF classifyConditions
<1>3. ToSet(es) \subseteq A \cup B /\ A \cap B = {}
  BY <1>1
<1>4. Count(Only(es, A), e) + Count(Only(es, B), e) = Count(es, e)
  BY <1>3, CountSplit
<1>5. Only(es, A) \in Seq(Expressions) /\ Only(es, B) \in Seq(Expressions)
      /\ ToSet(Only(es, A)) = ToSet(es) \cap A /\ ToSet(Only(es, B)) = ToSet(es) \cap B
  BY OnlyList
<1>6. Count(Only(es, A), e) \in Nat
  BY <1>5, PlacesFinite
<1> QED BY <1>2, <1>3, <1>4, <1>5, <1>6

\* A base relation whose conditions are all in DB2.
LEMMA RestrictCount ==
  ASSUME query \in Queries, NEW r \in Bases, BaseFdw(r), rels[r].fdw.local_conds = <<>>, NEW e
  PROVE  /\ rels[r].fdw.remote_conds \in Seq(Expressions)
         /\ Count(rels[r].fdw.remote_conds, e) = Count(query.restrict[r], e)
<1>1. PICK es, glob : es = query.restrict[r] /\ glob = BaseGlob(r)
  OBVIOUS
<1>2. es \in Seq(Expressions)
  BY <1>1, QueryFacts
<1>3. /\ rels[r].fdw.remote_conds = classifyConditions(glob, es).remote
      /\ rels[r].fdw.local_conds = classifyConditions(glob, es).local
  BY <1>1 DEF BaseFdw
<1>4. /\ classifyConditions(glob, es).remote \in Seq(Expressions)
      /\ Count(classifyConditions(glob, es).remote, e) + Count(classifyConditions(glob, es).local, e) = Count(es, e)
      /\ Count(classifyConditions(glob, es).remote, e) \in Nat
  BY <1>2, ClassifiedOnce
<1>5. Count(<<>>, e) = 0
  BY CountEmpty
<1> QED BY <1>1, <1>3, <1>4, <1>5

\* How often a condition is among those of the scanned relations.
LEMMA OwnCount ==
  ASSUME query \in Queries, NEW r \in {1, 2}, NEW e
  PROVE  /\ OwnClauses(r) \in Seq(Expressions)
         /\ Count(OwnClauses(r), e) = IF r \in OwnRelids THEN Count(query.restrict[r] \o query.lateral[r], e) ELSE 0
         /\ query.restrict[r] \in Seq(Expressions) /\ query.lateral[r] \in Seq(Expressions)
         /\ query.restrict[r] \o query.lateral[r] \in Seq(Expressions)
         /\ query.lateral[r] = <<>> => Count(query.restrict[r] \o query.lateral[r], e) = Count(query.restrict[r], e)
         /\ Count(OwnClauses(r), e) \in Nat
<1>1. query.restrict[r] \in Seq(Expressions) /\ query.lateral[r] \in Seq(Expressions)
  <2>1. r \in Bases
    BY DEF Bases
  <2> QED BY <2>1, QueryFacts
<1>2. OwnClauses(r) \in Seq(Expressions)
  BY <1>1 DEF OwnClauses
<1>3. Count(OwnClauses(r), e) = IF r \in OwnRelids THEN Count(query.restrict[r] \o query.lateral[r], e) ELSE 0
  BY CountEmpty DEF OwnClauses
<1>4. Count(OwnClauses(r), e) \in Nat
  BY <1>2, PlacesFinite
<1>5. query.lateral[r] = <<>> => Count(query.restrict[r] \o query.lateral[r], e) = Count(query.restrict[r], e)
  <2>1. ASSUME query.lateral[r] = <<>> PROVE query.restrict[r] \o query.lateral[r] = query.restrict[r]
    BY <1>1, <2>1
  <2> QED BY <2>1
<1> QED BY <1>1, <1>2, <1>3, <1>4, <1>5

LEMMA AllClauses ==
  ASSUME PInv, PlanFacts, plan.made, NEW e
  PROVE  /\ ScanClausesOf \in Seq(Expressions)
         /\ Count(ScanClausesOf, e) = Count(OwnClauses(1), e) + Count(OwnClauses(2), e)
                                      + (IF ScanOf = 3 THEN Count(query.joinquals, e) ELSE 0)
         /\ Count(query.joinquals, e) \in Nat /\ query.joinquals \in Seq(Expressions)
<1>1. /\ query \in Queries /\ rels[ScanOf].kind = IF ScanOf \in {1, 2} THEN "base" ELSE "join"
      /\ ScanOf \in {1, 2, 3}
  BY MadeFacts DEF Bases
<1>2. query.joinquals \in Seq(Expressions)
  BY <1>1, QueryFacts
<1>j. PICK a, b, j : a = OwnClauses(1) /\ b = OwnClauses(2) /\ j = IF rels[ScanOf].kind = "join" THEN query.joinquals ELSE <<>>
  OBVIOUS
<1>3. a \in Seq(Expressions) /\ b \in Seq(Expressions)
  BY <1>1, <1>j, OwnCount
<1>4. j \in Seq(Expressions) /\ Count(j, e) = IF ScanOf = 3 THEN Count(query.joinquals, e) ELSE 0
  BY <1>1, <1>2, <1>j, CountEmpty
<1>5. ScanClausesOf = a \o b \o j
  BY <1>j DEF ScanClausesOf
<1>6. a \o b \in Seq(Expressions) /\ (a \o b) \o j \in Seq(Expressions)
  BY <1>3, <1>4
<1>7. Count(a \o b, e) = Count(a, e) + Count(b, e)
  BY <1>3, CountBoth
<1>8. Count((a \o b) \o j, e) = Count(a \o b, e) + Count(j, e)
  BY <1>4, <1>6, CountBoth
<1>9. Count(query.joinquals, e) \in Nat
  BY <1>2, PlacesFinite
<1> QED BY <1>2, <1>4, <1>5, <1>6, <1>7, <1>8, <1>9, <1>j

\* A scan with nothing left to check has all its conditions in ON and WHERE.
LEMMA WholeScan ==
  ASSUME PInv, PlanFacts, plan.made, rels[ScanOf].fdw.local_conds = <<>>,
         query.lateral[1] = <<>>, query.lateral[2] = <<>>, NEW e
  PROVE  /\ rels[ScanOf].fdw.remote_conds \in Seq(Expressions) /\ JoinExprs \in Seq(Expressions)
         /\ Count(rels[ScanOf].fdw.remote_conds \o JoinExprs, e) = Count(ScanClausesOf, e)
<1>s. PICK s : s = ScanOf
  OBVIOUS
<1>1. /\ query \in Queries /\ s \in {1, 2, 3} /\ s \in query.rels \cup {3} /\ rels[s].fdw.has /\ Bases = {1, 2}
      /\ s \in Bases => BaseFdw(s) /\ OwnRelids = {s}
      /\ s = 3 => OwnRelids = {1, 2} /\ query.rels = {1, 2}
  BY <1>s, MadeFacts
<1>2. \A r \in {1, 2} : /\ Count(OwnClauses(r), e) = IF r \in OwnRelids THEN Count(query.restrict[r], e) ELSE 0
                        /\ Count(OwnClauses(r), e) \in Nat
  BY <1>1, OwnCount
<1>3. /\ Count(ScanClausesOf, e) = Count(OwnClauses(1), e) + Count(OwnClauses(2), e)
                                   + (IF s = 3 THEN Count(query.joinquals, e) ELSE 0)
      /\ query.joinquals \in Seq(Expressions) /\ Count(query.joinquals, e) \in Nat
  BY <1>s, AllClauses
<1>4. CASE s \in Bases
  <2>1. /\ rels[s].fdw.remote_conds \in Seq(Expressions)
        /\ Count(rels[s].fdw.remote_conds, e) = Count(query.restrict[s], e)
    BY <1>1, <1>4, <1>s, RestrictCount
  <2>2. JoinExprs = <<>>
    BY <1>1, <1>4, <1>s DEF BaseFdw, JoinExprs
  <2>3. Count(ScanClausesOf, e) = Count(query.restrict[s], e)
    <3>1. CASE s = 1
      BY <1>1, <1>2, <1>3, <3>1
    <3>2. CASE s = 2
      BY <1>1, <1>2, <1>3, <3>2
    <3> QED BY <1>1, <1>4, <3>1, <3>2
  <2>4. rels[s].fdw.remote_conds \o <<>> = rels[s].fdw.remote_conds
    BY <2>1
  <2>5. <<>> \in Seq(Expressions)
    OBVIOUS
  <2> QED BY <1>s, <2>1, <2>2, <2>3, <2>4, <2>5
<1>5. CASE s = 3
  <2>1. /\ rels[1].fdw.local_conds = <<>> /\ rels[2].fdw.local_conds = <<>>
        /\ rels[1].fdw.has /\ rels[2].fdw.has
        /\ rels[3].fdw.remote_conds = <<>>
        /\ \/ rels[3].fdw.joinclauses = query.joinquals \o rels[2].fdw.remote_conds \o rels[1].fdw.remote_conds
           \/ rels[3].fdw.joinclauses = query.joinquals \o rels[1].fdw.remote_conds \o rels[2].fdw.remote_conds
    <3>1. rels[3] # NoRel
      BY <1>1, <1>5, NoRelFacts
    <3>2. JoinInv
      BY DEF PInv, RelsInv
    <3> QED BY <3>1, <3>2 DEF JoinInv, JoinRel, JoinClausesOf
  <2>2. BaseFdw(1) /\ BaseFdw(2)
    <3>1. BaseOk(1) /\ BaseOk(2)
      BY DEF PInv, RelsInv, BaseInv, Bases
    <3> QED BY <1>1, <1>5, <2>1, <3>1 DEF BaseOk
  <2>a. PICK j, a, b : j = query.joinquals /\ a = rels[1].fdw.remote_conds /\ b = rels[2].fdw.remote_conds
    OBVIOUS
  <2>3. /\ a \in Seq(Expressions) /\ Count(a, e) = Count(query.restrict[1], e)
        /\ b \in Seq(Expressions) /\ Count(b, e) = Count(query.restrict[2], e)
    BY <1>1, <2>1, <2>2, <2>a, RestrictCount
  <2>4. j \in Seq(Expressions)
    BY <1>3, <2>a
  <2>b. PICK ja, jb : ja = j \o a /\ jb = j \o b
    OBVIOUS
  <2>5. /\ ja \in Seq(Expressions) /\ jb \in Seq(Expressions)
        /\ ja \o b \in Seq(Expressions) /\ jb \o a \in Seq(Expressions)
    BY <2>3, <2>4, <2>b
  <2>6. Count(ja, e) = Count(j, e) + Count(a, e) /\ Count(jb, e) = Count(j, e) + Count(b, e)
    BY <2>3, <2>4, <2>b, CountBoth
  <2>7. /\ Count(ja \o b, e) = Count(ja, e) + Count(b, e)
        /\ Count(jb \o a, e) = Count(jb, e) + Count(a, e)
    BY <2>3, <2>5, CountBoth
  <2>8. Count(a, e) \in Nat /\ Count(b, e) \in Nat /\ Count(j, e) \in Nat
    BY <2>3, <2>4, PlacesFinite
  <2>9. JoinExprs = ja \o b \/ JoinExprs = jb \o a
    BY <1>5, <1>s, <2>1, <2>a, <2>b DEF JoinExprs
  <2>c. PICK all : all = JoinExprs
    OBVIOUS
  <2>10. all \in Seq(Expressions) /\ Count(all, e) = Count(j, e) + Count(a, e) + Count(b, e)
    <3>1. CASE all = ja \o b
      BY <2>5, <2>6, <2>7, <2>8, <3>1
    <3>2. CASE all = jb \o a
      BY <2>5, <2>6, <2>7, <2>8, <3>2
    <3> QED BY <2>9, <2>c, <3>1, <3>2
  <2>11. Count(ScanClausesOf, e) = Count(a, e) + Count(b, e) + Count(j, e)
    BY <1>1, <1>2, <1>3, <1>5, <2>3, <2>a
  <2>12. <<>> \in Seq(Expressions) /\ <<>> \o all = all
    BY <2>10
  <2>13. rels[ScanOf].fdw.remote_conds = <<>>
    BY <1>5, <1>s, <2>1
  <2>14. Count(<<>> \o all, e) = Count(ScanClausesOf, e)
    BY <2>8, <2>10, <2>11, <2>12
  <2> QED BY <2>10, <2>12, <2>13, <2>14, <2>c
<1> QED BY <1>1, <1>4, <1>5

LEMMA NoLateral ==
  ASSUME PInv, PlanFacts, plan.made, plan.rel \notin Bases
  PROVE  query.lateral[1] = <<>> /\ query.lateral[2] = <<>>
<1>1. /\ query \in Queries /\ plan.rel \in {3, 4} /\ (plan.rel = 3 => query.rels = {1, 2})
      /\ plan.rel = 4 => Grouping(query)
  BY MadeFacts
<1> SUFFICES ASSUME NEW r \in {1, 2} PROVE query.lateral[r] = <<>>
  OBVIOUS
<1>2. r \in Bases
  BY DEF Bases
<1>3. query.lateral[r] # <<>> => Parameterised(query, r)
  BY <1>1, <1>2, QueryFacts
<1>4. Parameterised(query, r) => query.rels = {r} /\ ~Grouping(query)
  BY DEF Parameterised
<1> QED BY <1>1, <1>3, <1>4

\* A base scan: what its statement and its node check.
LEMMA BaseClauses ==
  ASSUME PInv, PlanFacts, plan.made, plan.rel \in Bases, NEW e
  PROVE  /\ plan.remote \in Seq(Expressions) /\ plan.qual \in Seq(Expressions)
         /\ ScanClauses(plan.rel) \in Seq(Expressions)
         /\ Count(plan.remote, e) + Count(plan.qual, e) = Count(ScanClauses(plan.rel), e)
         /\ ToSet(plan.remote) \cup ToSet(plan.qual) = ToSet(ScanClauses(plan.rel))
<1>1. query \in Queries /\ BasePlanInv(plan.rel)
  BY MadeFacts DEF PInv, PlanInv
<1>es. PICK es, remote, S : /\ es = ScanClauses(plan.rel) /\ remote = plan.remote
                            /\ S = {c \in ToSet(es) : c \in ToSet(rels[plan.rel].fdw.remote_conds)
                                      \/ (c \notin ToSet(rels[plan.rel].fdw.local_conds) /\ Ships(rels, plan.rel, c))}
  OBVIOUS
<1>2. es \in Seq(Expressions)
  <2>1. query.restrict[plan.rel] \in Seq(Expressions) /\ query.lateral[plan.rel] \in Seq(Expressions)
    BY <1>1, QueryFacts
  <2> QED BY <1>es, <2>1 DEF ScanClauses
<1>3. remote = Only(es, S) /\ plan.qual = Only(es, ToSet(es) \ ToSet(remote))
  BY <1>1, <1>es DEF BasePlanInv, RemoteOf
<1>4. remote \in Seq(Expressions) /\ ToSet(remote) = ToSet(es) \cap S
  BY <1>2, <1>3, OnlyList
<1>U. PICK U : U = ToSet(es) \ ToSet(remote)
  OBVIOUS
<1>5. plan.qual = Only(es, U) /\ Only(es, U) \in Seq(Expressions) /\ ToSet(Only(es, U)) = ToSet(es) \cap U
  <2>1. plan.qual = Only(es, U)
    BY <1>3, <1>U
  <2>2. Only(es, U) \in Seq(Expressions) /\ ToSet(Only(es, U)) = ToSet(es) \cap U
    BY <1>2, OnlyList
  <2> QED BY <2>1, <2>2
<1>6. ToSet(es) \subseteq S \cup U /\ S \cap U = {}
  BY <1>4, <1>U, <1>es
<1>7. Count(Only(es, S), e) + Count(Only(es, U), e) = Count(es, e)
  BY <1>2, <1>6, CountSplit
<1>8. ToSet(remote) \cup ToSet(plan.qual) = ToSet(es)
  BY <1>4, <1>5, <1>U
<1> QED BY <1>2, <1>3, <1>4, <1>5, <1>7, <1>8, <1>es

LEMMA ClausesOnce ==
  ASSUME PInv, PlanFacts
  PROVE  EveryClauseOnce
<1> SUFFICES ASSUME plan.made PROVE EveryClauseOnce
  BY DEF EveryClauseOnce
<1>1. /\ query \in Queries /\ plan.rel \in {1, 2, 3, 4} /\ Bases = {1, 2}
      /\ rels[plan.rel].kind = IF plan.rel \in Bases THEN "base" ELSE IF plan.rel = 3 THEN "join" ELSE "upper"
      /\ ScanOf = IF plan.rel = 4 THEN ScanTop(query) ELSE plan.rel
      /\ ScanOf \in Bases => BaseFdw(ScanOf) /\ OwnRelids = {ScanOf}
  BY MadeFacts
<1>2. CASE plan.rel \in Bases
  <2>r. PICK r, remote, qual : r = plan.rel /\ remote = plan.remote /\ qual = plan.qual
    OBVIOUS
  <2>1. WhereExprs = remote /\ JoinExprs = <<>> /\ rels[plan.rel].kind # "upper" /\ OwnRelids = {r} /\ r \in {1, 2} /\ ScanOf = r
    BY <1>1, <1>2, <2>r DEF WhereExprs, JoinExprs, BaseFdw
  <2>2. ASSUME NEW e
        PROVE  Count(WhereExprs \o JoinExprs \o plan.qual, e) = Count(ScanClausesOf, e)
    <3>1. /\ remote \in Seq(Expressions) /\ qual \in Seq(Expressions)
          /\ Count(remote, e) + Count(qual, e) = Count(ScanClauses(r), e)
      BY <1>2, <2>r, BaseClauses
    <3>2. Count(remote \o qual, e) = Count(remote, e) + Count(qual, e)
      BY <3>1, CountBoth
    <3>3. WhereExprs \o JoinExprs \o plan.qual = remote \o qual
      BY <2>1, <2>r, <3>1
    <3>4. /\ Count(ScanClausesOf, e) = Count(OwnClauses(1), e) + Count(OwnClauses(2), e)
                                       + (IF ScanOf = 3 THEN Count(query.joinquals, e) ELSE 0)
          /\ Count(query.joinquals, e) \in Nat
      BY AllClauses
    <3>5. \A k \in {1, 2} : /\ Count(OwnClauses(k), e) = IF k \in OwnRelids THEN Count(query.restrict[k] \o query.lateral[k], e) ELSE 0
                            /\ Count(OwnClauses(k), e) \in Nat
      BY <1>1, OwnCount
    <3>6. Count(ScanClausesOf, e) = Count(ScanClauses(r), e)
      <4>1. CASE r = 1
        BY <2>1, <3>4, <3>5, <4>1 DEF ScanClauses
      <4>2. CASE r = 2
        BY <2>1, <3>4, <3>5, <4>2 DEF ScanClauses
      <4> QED BY <2>1, <4>1, <4>2
    <3> QED BY <3>1, <3>2, <3>3, <3>6
  <2>3. SameBag(WhereExprs \o JoinExprs \o plan.qual, ScanClausesOf)
    BY <2>2, SameBagByCount
  <2> QED BY <2>1, <2>3 DEF EveryClauseOnce
<1>3. CASE plan.rel = 3
  <2>1. query.lateral[1] = <<>> /\ query.lateral[2] = <<>>
    BY <1>1, <1>3, NoLateral
  <2>2. rels[3].fdw.remote_conds = <<>> /\ rels[3].fdw.local_conds = <<>>
    <3>1. rels[3] # NoRel
      BY <1>1, <1>3, NoRelFacts
    <3> QED BY <3>1 DEF PInv, RelsInv, JoinInv, JoinRel
  <2>3. plan.remote = <<>> /\ plan.qual = <<>>
    BY <1>1, <1>3, <2>2 DEF PlanFacts, PlanOf
  <2>4. WhereExprs = rels[ScanOf].fdw.remote_conds /\ rels[ScanOf].fdw.local_conds = <<>> /\ rels[plan.rel].kind # "upper"
    BY <1>1, <1>3, <2>2, <2>3 DEF WhereExprs
  <2>5. ASSUME NEW e
        PROVE  Count(WhereExprs \o JoinExprs \o plan.qual, e) = Count(ScanClausesOf, e)
    <3>1. /\ rels[ScanOf].fdw.remote_conds \in Seq(Expressions) /\ JoinExprs \in Seq(Expressions)
          /\ Count(rels[ScanOf].fdw.remote_conds \o JoinExprs, e) = Count(ScanClausesOf, e)
      BY <2>1, <2>4, WholeScan
    <3>2. (rels[ScanOf].fdw.remote_conds \o JoinExprs) \o <<>> = rels[ScanOf].fdw.remote_conds \o JoinExprs
      BY <3>1
    <3> QED BY <2>3, <2>4, <3>1, <3>2
  <2>6. SameBag(WhereExprs \o JoinExprs \o plan.qual, ScanClausesOf)
    BY <2>5, SameBagByCount
  <2> QED BY <2>4, <2>6 DEF EveryClauseOnce
<1>4. CASE plan.rel = 4
  <2>1. query.lateral[1] = <<>> /\ query.lateral[2] = <<>>
    BY <1>1, <1>4, NoLateral
  <2>2. GroupFdw
    BY <1>4, MadeFacts
  <2>3. rels[ScanOf].fdw.local_conds = <<>>
    BY <1>1, <1>4, <2>2 DEF GroupFdw
  <2>4. WhereExprs = rels[ScanOf].fdw.remote_conds /\ rels[plan.rel].kind = "upper" /\ HavingExprs = plan.remote
    BY <1>1, <1>4 DEF WhereExprs, HavingExprs
  <2>5. \A e : Count(WhereExprs \o JoinExprs, e) = Count(ScanClausesOf, e)
    BY <2>1, <2>3, <2>4, WholeScan
  <2>6. plan.remote = rels[4].fdw.remote_conds /\ plan.qual = rels[4].fdw.local_conds
    BY <1>1, <1>4 DEF PlanFacts, PlanOf
  <2>7. ASSUME NEW e
        PROVE  Count(HavingExprs \o plan.qual, e) = Count(query.having, e)
    <3>1. PICK having, glob, remote, local : /\ having = query.having /\ glob = Glob(rels, 4)
                                             /\ remote = plan.remote /\ local = plan.qual
      OBVIOUS
    <3>2. /\ remote = classifyConditions(glob, having).remote /\ local = classifyConditions(glob, having).local
      BY <2>2, <2>6, <3>1 DEF GroupFdw
    <3>3. having \in Seq(Expressions)
      BY <1>1, <3>1, QueryFacts
    <3>4. /\ classifyConditions(glob, having).remote \in Seq(Expressions)
          /\ classifyConditions(glob, having).local \in Seq(Expressions)
          /\ Count(classifyConditions(glob, having).remote, e) + Count(classifyConditions(glob, having).local, e)
               = Count(having, e)
      BY <3>3, ClassifiedOnce
    <3>5. Count(remote \o local, e) = Count(remote, e) + Count(local, e)
      BY <3>2, <3>4, CountBoth
    <3> QED BY <2>4, <3>1, <3>2, <3>4, <3>5
  <2>8. SameBag(WhereExprs \o JoinExprs, ScanClausesOf) /\ SameBag(HavingExprs \o plan.qual, query.having)
    BY <2>5, <2>7, SameBagByCount
  <2> QED BY <2>4, <2>8 DEF EveryClauseOnce
<1> QED BY <1>1, <1>2, <1>3, <1>4

\* Whatever path wins, each condition of the query is checked once and in the
\* right place: by ON, WHERE or the node below a grouping, by HAVING or the node
\* above it.
THEOREM PlannerClauses == Spec => []EveryClauseOnce
BY PlannerInvariant, PlannerPlans, ClausesOnce, PTL

(***************************************************************************)
(* Limits.                                                                 *)
(***************************************************************************)
\* A base scan without local conditions leaves nothing to the node.
LEMMA NothingLeft ==
  ASSUME PInv, PlanFacts, plan.made, plan.rel \in Bases,
         rels[plan.rel].fdw.local_conds = <<>>, query.lateral[plan.rel] = <<>>
  PROVE  plan.qual = <<>>
<1>r. PICK r, es, remote, glob : /\ r = plan.rel /\ es = query.restrict[r] /\ remote = plan.remote /\ glob = BaseGlob(r)
  OBVIOUS
<1>1. query \in Queries /\ BasePlanInv(r) /\ ScanOf = r /\ BaseFdw(r) /\ r \in Bases
  <2>1. ScanOf = r /\ query \in Queries
    BY <1>r, MadeFacts
  <2> QED BY <1>r, <2>1, MadeFacts DEF PInv, PlanInv
<1>2. es \in Seq(Expressions)
  BY <1>1, <1>r, QueryFacts
<1>3. ScanClauses(r) = es
  <2>1. query.lateral[r] = <<>> /\ es \o <<>> = es
    BY <1>2, <1>r
  <2> QED BY <1>r, <2>1 DEF ScanClauses
<1>4. /\ classifyConditions(glob, es).local = <<>>
      /\ ToSet(classifyConditions(glob, es).remote) \cup ToSet(classifyConditions(glob, es).local) = ToSet(es)
      /\ rels[r].fdw.remote_conds = classifyConditions(glob, es).remote
  BY <1>1, <1>2, <1>r, ClassifiedOnce DEF BaseFdw
<1>5. ToSet(<<>>) = {}
  BY DEF ToSet
<1>6. ToSet(es) \subseteq ToSet(rels[r].fdw.remote_conds)
  BY <1>4, <1>5
<1>S. PICK S : S = {c \in ToSet(es) : c \in ToSet(rels[r].fdw.remote_conds)
                      \/ (c \notin ToSet(rels[r].fdw.local_conds) /\ Ships(rels, r, c))}
  OBVIOUS
<1>7. remote = Only(es, S) /\ plan.qual = Only(es, ToSet(es) \ ToSet(remote))
  BY <1>1, <1>3, <1>r, <1>S DEF BasePlanInv, RemoteOf
<1>8. ToSet(remote) = ToSet(es)
  <2>1. ToSet(Only(es, S)) = ToSet(es) \cap S
    BY <1>2, OnlyList
  <2> QED BY <1>6, <1>7, <1>S, <2>1
<1>U. PICK U : U = ToSet(es) \ ToSet(remote)
  OBVIOUS
<1>9. ToSet(es) \cap U = {}
  BY <1>8, <1>U
<1>10. Only(es, U) = <<>>
  BY <1>2, <1>9, OnlyList
<1> QED BY <1>7, <1>10, <1>U

\* The order a statement asks for, and whether a key was not found.
OrderOf == appendOrderByClause(rels, plan.rel, plan.path.pathkeys, plan.path.sort, query.sortrefs)
KeyExprs == [i \in DOMAIN plan.path.pathkeys |->
              SortExpr(rels, plan.rel, plan.path.pathkeys[i].members, plan.path.sort, query.sortrefs)]
LEMMA OrderFacts ==
  ASSUME SelectInv
  PROVE  /\ plan.stmt.error <=> \E i \in DOMAIN plan.path.pathkeys : KeyExprs[i] = NoExpr
         /\ plan.stmt.order = [i \in DOMAIN OrderOf.pathkeys |->
                                [key |-> OrderOf.keys.txt.parts[i], desc |-> OrderOf.pathkeys[i].desc,
                                 nulls |-> OrderOf.pathkeys[i].nulls]]
         /\ OrderOf = OrderKeys(plan.path.pathkeys, KeyExprs, OwnRelids)
<1>1. OrderOf = OrderKeys(plan.path.pathkeys, KeyExprs, OwnRelids)
  BY DEF OrderOf, appendOrderByClause, KeyExprs, OwnRelids, ScanOf, Scanrel
<1>o. PICK order, path : order = OrderOf /\ path = plan.path
  OBVIOUS
<1>2. plan.stmt.error = order.error /\ plan.stmt.order = [i \in DOMAIN order.pathkeys |->
                                [key |-> order.keys.txt.parts[i], desc |-> order.pathkeys[i].desc,
                                 nulls |-> order.pathkeys[i].nulls]]
  <2>1. PICK scan, upper : scan = Scanrel(rels, plan.rel) /\ upper = (rels[plan.rel].kind = "upper")
    OBVIOUS
  <2>2. PICK relids, list, from, where, group, having, limit :
          /\ relids = rels[scan].relids /\ list = deparseExplicitTargetList(plan.scan, relids)
          /\ from = deparseFromExprForRel(rels, scan)
          /\ where = appendConditions(IF upper THEN rels[scan].fdw.remote_conds ELSE plan.remote, relids)
          /\ group = (IF upper THEN appendGroupByClause(rels[plan.rel].fdw.grouped_tlist, query.groupClause) ELSE <<>>)
          /\ having = appendConditions(IF upper THEN plan.remote ELSE <<>>, relids)
          /\ limit = (IF plan.path.limit THEN appendLimitClause(query.limit, relids) ELSE appendConditions(<<>>, relids))
    OBVIOUS
  <2>3. plan.stmt = SelectStmt(query, relids, list, from, where, group, having, order, limit)
    BY <1>o, <2>1, <2>2 DEF SelectInv, deparseSelectStmtForRel, OrderOf
  <2> QED BY <2>3 DEF SelectStmt
<1>3. order.error <=> \E i \in DOMAIN KeyExprs : KeyExprs[i] = NoExpr
  BY <1>1, <1>o DEF OrderKeys
<1>4. DOMAIN KeyExprs = DOMAIN plan.path.pathkeys
  BY DEF KeyExprs
<1> QED BY <1>1, <1>2, <1>3, <1>4, <1>o

LEMMA LimitExact ==
  ASSUME PInv, PlanFacts
  PROVE  LimitIsExact
<1> SUFFICES ASSUME plan.made, plan.path.limit PROVE LimitIsExact
  BY DEF LimitIsExact
<1>1. /\ query \in Queries /\ query.rels \in {{1}, {2}, {1, 2}} /\ plan.rel \in {1, 2, 3, 4} /\ Bases = {1, 2}
      /\ rels[plan.rel].kind = IF plan.rel \in Bases THEN "base" ELSE IF plan.rel = 3 THEN "join" ELSE "upper"
      /\ ScanOf = IF plan.rel = 4 THEN ScanTop(query) ELSE plan.rel
      /\ ScanOf \in {1, 2, 3}
      /\ ScanOf \in Bases => OwnRelids = {ScanOf}
      /\ ScanOf = 3 => OwnRelids = {1, 2} /\ query.rels = {1, 2}
      /\ PathOk(plan.path) /\ plan.path.parent = plan.rel
  BY MadeFacts
<1>2. /\ ~query.distinct /\ ~query.window /\ ~query.srf /\ ~query.limit.ties /\ query.cmd = "SELECT"
      /\ plan.rel # 3 /\ rels[plan.rel].fdw.local_conds = <<>>
      /\ plan.rel = Below7(query)
      /\ query.limit.count # NoExpr \/ query.limit.offset # NoExpr
      /\ query.sort # <<>> => plan.path.sort
  BY <1>1 DEF PathOk, LimitPathOk, JoinRel
<1>3. /\ plan.rel = 4 <=> Grouping(query)
      /\ ScanOf = ScanTop(query)
  <2>1. Grouping(query) => plan.rel = 4
    BY <1>2 DEF Below7
  <2>2. ~Grouping(query) => plan.rel = ScanTop(query)
    BY <1>2 DEF Below7
  <2>3. ScanTop(query) \in {1, 2, 3}
    BY <1>1, ScanTopFacts
  <2> QED BY <1>1, <2>1, <2>2, <2>3
<1>4. OwnRelids = query.rels
  BY <1>1, <1>3, ScanTopFacts
<1>5. plan.qual = <<>>
  <2>1. CASE plan.rel \in Bases
    <3>1. query.lateral[plan.rel] # <<>> => Parameterised(query, plan.rel)
      BY <1>1, <2>1, QueryFacts
    <3>2. ~Parameterised(query, plan.rel)
      BY <1>2 DEF Parameterised
    <3> QED BY <1>2, <2>1, <3>1, <3>2, NothingLeft
  <2>2. CASE plan.rel \notin Bases
    BY <1>2, <2>2 DEF PlanFacts, PlanOf
  <2> QED BY <2>1, <2>2
<1>6. ASSUME query.sort # <<>>
      PROVE  plan.path.pathkeys = query.sort /\ ~plan.stmt.error
  <2>1. plan.path.sort
    BY <1>2, <1>6
  <2>2. plan.rel = 4
    BY <1>1, <1>2, <2>1 DEF PathOk, BasePathOk
  <2>3. plan.path.pathkeys = query.sort /\ SortIsForeign(4)
    BY <1>1, <2>1, <2>2 DEF PathOk, GroupPathOk
  <2>4. SelectInv
    BY <1>2 DEF PlanFacts, DirectInv
  <2>5. ASSUME NEW i \in DOMAIN plan.path.pathkeys
        PROVE  KeyExprs[i] # NoExpr
    <3>1. find_em_for_rel_target(rels, 4, query.sort[i].members, query.sortrefs) # NoExpr
      BY <2>3, <2>5 DEF SortIsForeign
    <3>2. KeyExprs[i] = find_em_for_rel_target(rels, 4, query.sort[i].members, query.sortrefs)
      BY <2>1, <2>2, <2>3, <2>5 DEF KeyExprs, SortExpr
    <3> QED BY <3>1, <3>2
  <2> QED BY <2>3, <2>4, <2>5, OrderFacts
<1> QED BY <1>1, <1>2, <1>3, <1>4, <1>5, <1>6 DEF LimitIsExact

\* Nothing that could change which rows come first is left to PostgreSQL when
\* a statement ends with a limit.
THEOREM PlannerLimits == Spec => []LimitIsExact
BY PlannerInvariant, PlannerPlans, LimitExact, PTL

(***************************************************************************)
(* Orders.                                                                 *)
(***************************************************************************)
LEMMA FirstOfList ==
  ASSUME NEW T, NEW es \in Seq(T), FirstOf(es) # NoExpr
  PROVE  FirstOf(es) \in ToSet(es)
BY DEF FirstOf, ToSet

\* The nodes of an expression without anything below it.
LEMMA LeafNodes ==
  ASSUME NEW e \in Expressions, e.tag \in {"Const", "Var"}
  PROVE  Nodes(e) = <<e>> /\ ToSet(Nodes(e)) = {e}
<1>1. e # NoExpr
  BY DEF NoExpr
<1>2. Children(e) = <<>>
  BY DEF Children
<1>3. Concat(<<>>) = <<>>
  <2>1. <<>> \in Seq(Seq(Expressions)) /\ DOMAIN <<>> = {}
    OBVIOUS
  <2>2. PICK none : none = <<>>
    OBVIOUS
  <2>3. Concat(none) \in Seq(Expressions) /\ ToSet(Concat(none)) = UNION {ToSet(none[k]) : k \in DOMAIN none}
    BY <2>1, <2>2, ConcatList
  <2>4. ToSet(Concat(none)) = {}
    BY <2>1, <2>2, <2>3
  <2>5. ASSUME NEW s \in Seq(Expressions), s # <<>> PROVE ToSet(s) # {}
    <3>1. 1 \in DOMAIN s
      BY <2>5
    <3> QED BY <3>1 DEF ToSet
  <2> QED BY <2>2, <2>3, <2>4, <2>5
<1>4. Nodes(e) = <<e>>
  <2>1. Nodes(e) = NodesOf(e, [i \in DOMAIN Children(e) |-> Nodes(Children(e)[i])])
    BY ExpressionsAssumption
  <2>2. [i \in DOMAIN Children(e) |-> Nodes(Children(e)[i])] = <<>>
    BY <1>2
  <2>3. Nodes(e) = <<e>> \o Concat(<<>>)
    BY <1>1, <2>1, <2>2 DEF NodesOf
  <2>4. <<e>> \in Seq({e}) /\ <<e>> \o <<>> = <<e>>
    OBVIOUS
  <2> QED BY <1>3, <2>3, <2>4
<1> QED BY <1>4 DEF ToSet

\* The columns in an expression.
LEMMA ColumnsOf ==
  ASSUME NEW e \in Expressions
  PROVE  /\ pull_var_clause(e) \in Seq(Expressions)
         /\ ToSet(pull_var_clause(e)) = {n \in ToSet(Nodes(e)) : IsA(n, "Var")}
         /\ IsA(e, "Var") => ToSet(pull_var_clause(e)) = {e}
         /\ IsA(e, "Const") => ToSet(pull_var_clause(e)) = {}
<1>1. PICK es, V : es = Nodes(e) /\ V = {n \in ToSet(Nodes(e)) : IsA(n, "Var")}
  OBVIOUS
<1>2. es \in Seq(Expressions)
  BY <1>1, ExpressionsAssumption
<1>3. Only(es, V) \in Seq(Expressions) /\ ToSet(Only(es, V)) = ToSet(es) \cap V
  BY <1>2, OnlyList
<1>4. /\ pull_var_clause(e) \in Seq(Expressions)
      /\ ToSet(pull_var_clause(e)) = {n \in ToSet(Nodes(e)) : IsA(n, "Var")}
  BY <1>1, <1>3 DEF pull_var_clause
<1>5. e.tag \in {"Const", "Var"} => ToSet(Nodes(e)) = {e}
  BY LeafNodes
<1> QED BY <1>4, <1>5 DEF IsA

\* A constant has no columns.
LEMMA ConstHasNone ==
  ASSUME NEW e \in Expressions, IsA(e, "Const")
  PROVE  pull_varnos(e) = {}
BY ColumnsOf DEF pull_varnos

\* What is found to sort a scan by.
LEMMA KeyFound ==
  ASSUME PG18, NEW r, NEW members \in Seq(Expressions), NEW em, em = find_em_for_rel(rels, r, members), em # NoExpr
  PROVE  /\ em \in ToSet(members) /\ em \in Expressions /\ ~IsA(em, "Const")
         /\ pull_varnos(em) # {} /\ pull_varnos(em) \subseteq rels[r].relids /\ Ships(rels, r, em)
<1>1. PICK A : A = {e \in ToSet(members) : /\ pull_varnos(e) # {} /\ pull_varnos(e) \subseteq rels[r].relids
                                           /\ Ships(rels, r, e)}
  OBVIOUS
<1>2. Only(members, A) \in Seq(Expressions) /\ ToSet(Only(members, A)) = ToSet(members) \cap A
  BY OnlyList
<1>3. Only(members, A) \o <<>> = Only(members, A)
  BY <1>2
<1>4. em = FirstOf(Only(members, A))
  BY <1>1, <1>3 DEF find_em_for_rel
<1>5. em \in ToSet(Only(members, A))
  BY <1>2, <1>4, FirstOfList
<1>6. em \in ToSet(members) /\ em \in A
  BY <1>2, <1>5
<1>7. em \in Expressions
  BY <1>6 DEF ToSet
<1> QED BY <1>1, <1>6, <1>7, ConstHasNone

\* What is found to sort a grouping by.
LEMMA SortColumnFound ==
  ASSUME query \in Queries, NEW r, rels[r].target = query.grouped, NEW members \in Seq(Expressions), NEW em,
         em = find_em_for_rel_target(rels, r, members, query.sortrefs), em # NoExpr
  PROVE  em \in ToSet(members) /\ ~IsA(em, "Const") /\ Ships(rels, r, em) /\ KeyOfGrouping(em)
<1>t. PICK target, columns, ss :
        /\ target = query.grouped
        /\ columns = Only(target, {t \in ToSet(target) : t.ref \in query.sortrefs})
        /\ ss = [i \in DOMAIN columns |-> Only(members, {m \in ToSet(members) : /\ ~IsA(m, "Const") /\ Ships(rels, r, m)
                                                       /\ strip_relabel(m) = strip_relabel(columns[i].expr)})]
  OBVIOUS
<1>1. target \in Seq(ToSet(target))
  BY <1>t, QueryFacts DEF IsList
<1>2. columns \in Seq(ToSet(target)) /\ ToSet(columns) = ToSet(target) \cap {t \in ToSet(target) : t.ref \in query.sortrefs}
  BY <1>1, <1>t, OnlyList
<1>3. ASSUME NEW i \in DOMAIN columns
      PROVE  /\ ss[i] \in Seq(Expressions)
             /\ ToSet(ss[i]) = ToSet(members) \cap {m \in ToSet(members) : /\ ~IsA(m, "Const") /\ Ships(rels, r, m)
                                                       /\ strip_relabel(m) = strip_relabel(columns[i].expr)}
  BY <1>t, OnlyList
<1>4. ss \in Seq(Seq(Expressions))
  <2>1. DOMAIN columns = 1 .. Len(columns) /\ Len(columns) \in Nat
    BY <1>2
  <2>2. ss \in [1 .. Len(columns) -> Seq(Expressions)]
    BY <1>3, <1>t, <2>1
  <2> QED BY <2>1, <2>2
<1>5. Concat(ss) \in Seq(Expressions) /\ ToSet(Concat(ss)) = UNION {ToSet(ss[k]) : k \in DOMAIN ss}
  BY <1>4, ConcatList
<1>6. em = FirstOf(Concat(ss))
  BY <1>t DEF find_em_for_rel_target
<1>7. PICK i \in DOMAIN columns : em \in ToSet(ss[i])
  <2>1. em \in ToSet(Concat(ss))
    BY <1>5, <1>6, FirstOfList
  <2>2. DOMAIN ss = DOMAIN columns
    BY <1>t
  <2> QED BY <1>5, <2>1, <2>2
<1>8. columns[i] \in ToSet(columns)
  BY <1>2 DEF ToSet
<1>9. columns[i] \in ToSet(query.grouped) /\ columns[i].ref \in query.sortrefs
  BY <1>2, <1>8, <1>t
<1> QED BY <1>3, <1>7, <1>9 DEF KeyOfGrouping

\* The keys that a statement is sorted by, if none is a constant.
KeysOf(order, pathkeys, ems, n, relids) ==
  /\ DOMAIN order.pathkeys = 1 .. n
  /\ \A k \in 1 .. n : order.pathkeys[k] = pathkeys[k] /\ order.keys.txt.parts[k] = Render(ems[k], relids).txt
LEMMA KeysInOrder ==
  ASSUME NEW pathkeys, NEW ems, NEW n \in Nat, DOMAIN pathkeys = 1 .. n, DOMAIN ems = 1 .. n, NEW relids,
         \A i \in 1 .. n : ~IsA(ems[i], "Const"), NEW order, order = OrderKeys(pathkeys, ems, relids)
  PROVE  KeysOf(order, pathkeys, ems, n, relids)
<1>k. PICK kept : kept = [k \in 1 .. n |-> k]
  OBVIOUS
<1>1. Ascending({i \in DOMAIN ems : ~IsA(ems[i], "Const")}) = kept
  <2>1. {i \in DOMAIN ems : ~IsA(ems[i], "Const")} = 1 .. n
    OBVIOUS
  <2> QED BY <1>k, <2>1, AscendingAll
<1>es. PICK es : es = [k \in DOMAIN kept |-> ems[kept[k]]]
  OBVIOUS
<1>2. order.pathkeys = [k \in DOMAIN kept |-> pathkeys[kept[k]]] /\ order.keys = appendConditions(es, relids)
  BY <1>1, <1>es DEF OrderKeys
<1>3. DOMAIN kept = 1 .. n /\ \A k \in 1 .. n : kept[k] = k
  BY <1>k
<1>4. DOMAIN es = 1 .. n /\ \A k \in 1 .. n : es[k] = ems[k]
  BY <1>3, <1>es
<1>5. \A k \in 1 .. n : order.keys.txt.parts[k] = Render(ems[k], relids).txt
  BY <1>2, <1>4 DEF appendConditions, Conjunction, RenderList, Text
<1> QED BY <1>2, <1>3, <1>5 DEF KeysOf

LEMMA OrderClaimed ==
  ASSUME PInv, PlanFacts, PG18
  PROVE  OrderedAsClaimed
<1> SUFFICES ASSUME plan.made, plan.stmt.cmd = "SELECT" PROVE OrderedAsClaimed
  BY DEF OrderedAsClaimed
<1>r. PICK r, pk : r = plan.rel /\ pk = plan.path.pathkeys
  OBVIOUS
<1>1. /\ query \in Queries /\ r \in {1, 2, 3, 4} /\ Bases = {1, 2}
      /\ r \in query.rels \cup {3, 4} /\ rels[r].fdw.has
      /\ ScanOf = Scanrel(rels, r) /\ ScanOf = IF r = 4 THEN ScanTop(query) ELSE r
      /\ ScanOf \in Bases => OwnRelids = {ScanOf}
      /\ PathOk(plan.path) /\ plan.path.parent = r
      /\ SelectInv
  BY <1>r, MadeFacts DEF PlanFacts
<1>2. /\ r \in Bases => /\ ~plan.path.sort /\ pk \in {<<>>, query.pathkeys}
                        /\ \A key \in ToSet(pk) : UsablePathkey(r, key)
      /\ r = 3 => pk = <<>>
      /\ r = 4 => IF plan.path.sort THEN pk = query.sort /\ SortIsForeign(4) ELSE pk = <<>>
  BY <1>1, <1>r DEF PathOk, BasePathOk, GroupPathOk, JoinRel
<1>3. /\ IsList(pk) /\ \A key \in ToSet(pk) : key.members \in Seq(Expressions)
  <2>1. /\ IsList(query.sort) /\ \A key \in ToSet(query.sort) : key.members \in Seq(Expressions)
        /\ IsList(query.pathkeys) /\ \A key \in ToSet(query.pathkeys) : key.members \in Seq(Expressions)
    BY <1>1, QueryFacts
  <2>2. IsList(<<>>) /\ ToSet(<<>>) = {}
    BY DEF IsList, ToSet
  <2> QED BY <1>1, <1>2, <2>1, <2>2
<1>n. PICK n : n = Len(pk)
  OBVIOUS
<1>4. n \in Nat /\ DOMAIN pk = 1 .. n
  BY <1>3, <1>n DEF IsList
<1>5. ASSUME NEW i \in 1 .. n
      PROVE  /\ KeyExprs[i] # NoExpr /\ ~IsA(KeyExprs[i], "Const") /\ KeyExprs[i] \in ToSet(pk[i].members)
             /\ Ships(rels, r, KeyExprs[i])
             /\ IF plan.path.sort THEN KeyOfGrouping(KeyExprs[i]) ELSE KeyOfScan(KeyExprs[i], Render(KeyExprs[i], OwnRelids).txt)
  <2>1. pk[i] \in ToSet(pk) /\ pk # <<>>
    <3>1. i \in DOMAIN pk
      BY <1>4
    <3> QED BY <3>1 DEF ToSet
  <2>m. PICK members, em : members = pk[i].members /\ em = KeyExprs[i]
    OBVIOUS
  <2>2. members \in Seq(Expressions)
    BY <1>3, <2>1, <2>m
  <2>3. em = SortExpr(rels, r, members, plan.path.sort, query.sortrefs)
    BY <1>4, <1>r, <2>m DEF KeyExprs
  <2>4. CASE r \in Bases
    <3>1. em = find_em_for_rel(rels, r, members) /\ ~plan.path.sort
      <4>1. ~plan.path.sort
        BY <1>2, <2>4
      <4>2. Scanrel(rels, r) = r
        BY <1>1, <2>4
      <4> QED BY <2>3, <4>1, <4>2 DEF SortExpr
    <3>2. UsablePathkey(r, pk[i])
      BY <1>2, <2>1, <2>4
    <3>3. em # NoExpr /\ ~IsNothing(Render(em, {r}).txt)
      BY <2>m, <3>1, <3>2 DEF UsablePathkey, Sortable, is_foreign_pathkey
    <3>4. /\ em \in ToSet(members) /\ ~IsA(em, "Const")
          /\ pull_varnos(em) # {} /\ pull_varnos(em) \subseteq rels[r].relids /\ Ships(rels, r, em)
      BY <2>2, <3>1, <3>3, KeyFound
    <3>5. OwnRelids = {r} /\ OwnRelids = rels[r].relids
      BY <1>1, <2>4 DEF OwnRelids
    <3> QED BY <2>m, <3>1, <3>3, <3>4, <3>5 DEF KeyOfScan
  <2>5. CASE r = 3
    BY <1>2, <2>1, <2>5
  <2>6. CASE r = 4
    <3>1. plan.path.sort /\ pk = query.sort /\ SortIsForeign(4)
      BY <1>2, <2>1, <2>6
    <3>2. em = find_em_for_rel_target(rels, r, members, query.sortrefs)
      BY <2>3, <3>1 DEF SortExpr
    <3>3. em # NoExpr
      <4>1. i \in DOMAIN query.sort
        BY <1>4, <3>1
      <4> QED BY <2>6, <2>m, <3>1, <3>2, <4>1 DEF SortIsForeign
    <3>4. rels[r].target = query.grouped
      <4>1. rels[4] # NoRel
        BY <1>1, <2>6, NoRelFacts
      <4> QED BY <2>6, <4>1 DEF PInv, RelsInv, GroupInv
    <3>5. em \in ToSet(members) /\ ~IsA(em, "Const") /\ Ships(rels, r, em) /\ KeyOfGrouping(em)
      BY <1>1, <2>2, <3>2, <3>3, <3>4, SortColumnFound
    <3> QED BY <2>m, <3>1, <3>3, <3>5
  <2> QED BY <1>1, <2>4, <2>5, <2>6
<1>o. PICK order, ems : order = OrderOf /\ ems = KeyExprs
  OBVIOUS
<1>6. /\ ~plan.stmt.error
      /\ plan.stmt.order = [i \in DOMAIN order.pathkeys |->
                             [key |-> order.keys.txt.parts[i], desc |-> order.pathkeys[i].desc,
                              nulls |-> order.pathkeys[i].nulls]]
      /\ order = OrderKeys(pk, ems, OwnRelids)
  <2>1. \A i \in DOMAIN plan.path.pathkeys : KeyExprs[i] # NoExpr
    BY <1>4, <1>5, <1>r
  <2> QED BY <1>1, <1>o, <1>r, <2>1, OrderFacts
<1>7. DOMAIN ems = 1 .. n /\ \A i \in 1 .. n : ~IsA(ems[i], "Const")
  <2>1. DOMAIN ems = 1 .. n
    BY <1>4, <1>o, <1>r DEF KeyExprs
  <2> QED BY <1>5, <1>o, <2>1
<1>8. /\ DOMAIN order.pathkeys = 1 .. n
      /\ \A k \in 1 .. n : order.pathkeys[k] = pk[k] /\ order.keys.txt.parts[k] = Render(ems[k], OwnRelids).txt
  <2>1. PICK relids : relids = OwnRelids
    OBVIOUS
  <2>2. order = OrderKeys(pk, ems, relids)
    BY <1>6, <2>1
  <2>4. n \in Nat /\ DOMAIN pk = 1 .. n
    BY <1>4
  <2>3. KeysOf(order, pk, ems, n, relids)
    BY ONLY <1>7, <2>2, <2>4, KeysInOrder
  <2> QED BY ONLY <2>1, <2>3 DEF KeysOf
<1>9. /\ DOMAIN plan.stmt.order = 1 .. n /\ Len(plan.stmt.order) = n
      /\ \A k \in 1 .. n : /\ plan.stmt.order[k].desc = pk[k].desc /\ plan.stmt.order[k].nulls = pk[k].nulls
                           /\ plan.stmt.order[k].key = Render(ems[k], OwnRelids).txt
  BY <1>4, <1>6, <1>8
<1>10. ASSUME NEW k \in DOMAIN plan.stmt.order
       PROVE  /\ plan.stmt.order[k].desc = plan.path.pathkeys[k].desc /\ plan.stmt.order[k].nulls = plan.path.pathkeys[k].nulls
              /\ \E e \in ToSet(plan.path.pathkeys[k].members) :
                   /\ plan.stmt.order[k].key = Render(e, OwnRelids).txt /\ Ships(rels, plan.rel, e)
                   /\ IF plan.path.sort THEN KeyOfGrouping(e) ELSE KeyOfScan(e, plan.stmt.order[k].key)
  <2>1. k \in 1 .. n
    BY <1>9
  <2>2. PICK e : e = KeyExprs[k]
    OBVIOUS
  <2>3. /\ e \in ToSet(pk[k].members) /\ Ships(rels, r, e)
        /\ IF plan.path.sort THEN KeyOfGrouping(e) ELSE KeyOfScan(e, Render(e, OwnRelids).txt)
    BY <1>5, <2>1, <2>2
  <2>4. /\ plan.stmt.order[k].desc = pk[k].desc /\ plan.stmt.order[k].nulls = pk[k].nulls
        /\ plan.stmt.order[k].key = Render(e, OwnRelids).txt
    BY <1>9, <1>o, <2>1, <2>2
  <2> QED BY <1>r, <2>3, <2>4
<1> QED BY <1>6, <1>9, <1>10, <1>n, <1>r DEF OrderedAsClaimed

\* Built against version 18 or later, a statement sorts by what its path claims:
\* every key in its place, with its direction and its place for nulls, and by an
\* expression that DB2 may evaluate and that is equal to the key.
THEOREM PlannerOrders == Spec => [](PG18 => OrderedAsClaimed)
<1>1. PInv /\ PlanFacts => (PG18 => OrderedAsClaimed)
  BY OrderClaimed
<1> QED BY <1>1, PlannerInvariant, PlannerPlans, PTL

(***************************************************************************)
(* Direct modification.                                                    *)
(***************************************************************************)
LEMMA PartsOfConditions ==
  ASSUME NEW es \in Seq(Expressions), NEW relids
  PROVE  Len(appendConditions(es, relids).txt.parts) = Len(es)
<1>1. PICK parts : parts = [i \in DOMAIN es |-> Render(es[i], relids).txt]
  OBVIOUS
<1>2. appendConditions(es, relids).txt.parts = parts
  <2>1. PICK rs : rs = [i \in DOMAIN es |-> Render(es[i], relids)]
    OBVIOUS
  <2>2. [i \in DOMAIN rs |-> rs[i].txt] = parts
    BY <1>1, <2>1
  <2> QED BY <2>1, <2>2 DEF appendConditions, Conjunction, RenderList, Text
<1>3. DOMAIN parts = 1 .. Len(es) /\ Len(es) \in Nat
  BY <1>1
<1> QED BY <1>1, <1>2, <1>3

LEMMA DirectComplete ==
  ASSUME PInv, PlanFacts
  PROVE  DirectModifyComplete
<1> SUFFICES ASSUME plan.made, plan.stmt.cmd # "SELECT" PROVE DirectModifyComplete
  BY DEF DirectModifyComplete
<1>r. PICK r, es, remote : r = plan.rel /\ es = query.restrict[r] /\ remote = plan.remote
  OBVIOUS
<1>1. /\ DirectInv /\ query \in Queries /\ query.rels \in {{1}, {2}, {1, 2}} /\ Bases = {1, 2}
      /\ rels[r].fdw.final_remote_exprs = remote
      /\ rels[r].kind = IF r \in Bases THEN "base" ELSE IF r = 3 THEN "join" ELSE "upper"
  <2>1. DirectInv
    BY DEF PlanFacts
  <2>2. rels[r].fdw.final_remote_exprs = remote
    BY <1>r DEF PInv, PlanInv
  <2> QED BY <1>r, <2>1, <2>2, MadeFacts
<1>2. /\ query.cmd \in {"UPDATE", "DELETE"} /\ ~query.returning /\ query.rels = {query.result} /\ r = query.result
      /\ plan.qual = <<>>
      /\ query.cmd = "UPDATE" => \A k \in DOMAIN query.set : Ships(rels, r, query.set[k].expr)
      /\ plan.stmt = IF query.cmd = "UPDATE" THEN deparseDirectUpdateSql(rels, r, query.set, remote)
                                             ELSE deparseDirectDeleteSql(rels, r, remote)
  BY <1>1, <1>r DEF DirectInv, find_modifytable_subplan
<1>3. r \in Bases
  BY <1>1, <1>2
<1>4. es \in Seq(Expressions) /\ ScanClauses(r) = es
  <2>1. es \in Seq(Expressions) /\ (query.lateral[r] # <<>> => Parameterised(query, r))
    BY <1>1, <1>3, <1>r, QueryFacts
  <2>2. ~Parameterised(query, r)
    BY <1>2 DEF Parameterised
  <2>3. es \o <<>> = es
    BY <2>1
  <2> QED BY <1>r, <2>1, <2>2, <2>3 DEF ScanClauses
<1>5. remote \in Seq(Expressions) /\ ToSet(remote) = ToSet(es)
  <2>1. plan.rel \in Bases
    BY <1>3, <1>r
  <2>2. \A e : plan.remote \in Seq(Expressions) /\ ToSet(plan.remote) \cup ToSet(plan.qual) = ToSet(ScanClauses(plan.rel))
    BY <2>1, BaseClauses
  <2>3. ToSet(<<>>) = {}
    BY DEF ToSet
  <2> QED BY <1>2, <1>4, <1>r, <2>2, <2>3
<1>6. Len(remote) = Len(es)
  <2>1. BasePlanInv(plan.rel)
    BY <1>3, <1>r DEF PInv, PlanInv
  <2>S. PICK S : S = {c \in ToSet(es) : c \in ToSet(rels[r].fdw.remote_conds)
                        \/ (c \notin ToSet(rels[r].fdw.local_conds) /\ Ships(rels, r, c))}
    OBVIOUS
  <2>2. remote = Only(es, S)
    BY <1>4, <1>r, <2>1, <2>S DEF BasePlanInv, RemoteOf
  <2>3. ToSet(Only(es, S)) = ToSet(es) \cap S /\ (ToSet(es) \subseteq S => Len(Only(es, S)) = Len(es))
    BY <1>4, OnlyList
  <2> QED BY <1>5, <2>2, <2>3
<1>7. Len(plan.stmt.where) = Len(es) /\ plan.stmt.cmd = query.cmd /\ plan.stmt.from = <<r>>
  <2>w. PICK where, relids : relids = rels[r].relids /\ where = appendConditions(remote, relids)
    OBVIOUS
  <2>1. Len(where.txt.parts) = Len(es)
    BY <1>5, <1>6, <2>w, PartsOfConditions
  <2>2. \E sets, list : plan.stmt = DirectSql(query.cmd, r, sets, list, where)
    BY <1>2, <2>w DEF deparseDirectUpdateSql, deparseDirectDeleteSql
  <2> QED BY <2>1, <2>2 DEF DirectSql
<1>8. query.cmd = "UPDATE" => plan.stmt.group = [k \in DOMAIN query.set |-> query.set[k].attno]
  BY <1>2 DEF deparseDirectUpdateSql, DirectSql
<1>9. WhereExprs = remote
  BY <1>1, <1>3, <1>r DEF WhereExprs
<1> QED BY <1>2, <1>5, <1>7, <1>8, <1>9, <1>r DEF DirectModifyComplete

\* A statement that modifies in place has all conditions of the query and no
\* other, and the value of every assigned column; nobody waits for its rows.
THEOREM PlannerModifies == Spec => []DirectModifyComplete
BY PlannerInvariant, PlannerPlans, DirectComplete, PTL

(***************************************************************************)
(* Columns.                                                                *)
(***************************************************************************)
\* All columns in a list of expressions.
Vars(es) == Concat([k \in DOMAIN es |-> pull_var_clause(es[k])])
LEMMA VarsList ==
  ASSUME NEW es \in Seq(Expressions)
  PROVE  /\ Vars(es) \in Seq(Expressions)
         /\ \A v : v \in ToSet(Vars(es)) <=> \E e \in ToSet(es) : v \in ToSet(pull_var_clause(e))
<1>s. PICK ss : ss = [k \in DOMAIN es |-> pull_var_clause(es[k])]
  OBVIOUS
<1>1. DOMAIN es = 1 .. Len(es) /\ Len(es) \in Nat /\ \A k \in DOMAIN es : es[k] \in Expressions
  OBVIOUS
<1>2. \A k \in DOMAIN es : ss[k] = pull_var_clause(es[k]) /\ ss[k] \in Seq(Expressions)
  BY <1>1, <1>s, ColumnsOf
<1>3. ss \in Seq(Seq(Expressions)) /\ DOMAIN ss = DOMAIN es
  <2>1. ss \in [1 .. Len(es) -> Seq(Expressions)]
    BY <1>1, <1>2, <1>s
  <2> QED BY <1>1, <2>1
<1>4. Concat(ss) \in Seq(Expressions) /\ ToSet(Concat(ss)) = UNION {ToSet(ss[k]) : k \in DOMAIN ss}
  BY <1>3, ConcatList
<1>5. Vars(es) = Concat(ss)
  BY <1>s DEF Vars
<1>6. ASSUME NEW v
      PROVE  (\E k \in DOMAIN ss : v \in ToSet(ss[k])) <=> \E e \in ToSet(es) : v \in ToSet(pull_var_clause(e))
  <2>1. ToSet(es) = {es[k] : k \in DOMAIN es}
    BY DEF ToSet
  <2> QED BY <1>2, <1>3, <2>1
<1>7. \A v : v \in ToSet(Concat(ss)) <=> \E k \in DOMAIN ss : v \in ToSet(ss[k])
  BY <1>4
<1>8. \A v : v \in ToSet(Concat(ss)) <=> \E e \in ToSet(es) : v \in ToSet(pull_var_clause(e))
  BY <1>6, <1>7
<1> QED BY <1>4, <1>5, <1>8

LEMMA AddedList ==
  ASSUME NEW tlist \in Seq(Expressions), NEW es \in Seq(Expressions)
  PROVE  /\ add_to_flat_tlist(tlist, es) \in Seq(Expressions)
         /\ ToSet(add_to_flat_tlist(tlist, es)) = ToSet(tlist) \cup ToSet(es)
<1>1. /\ tlist \o Picked(es, {k \in FirstTimes(es) : es[k] \notin ToSet(tlist)}) \in Seq(Expressions)
      /\ ToSet(tlist \o Picked(es, {k \in FirstTimes(es) : es[k] \notin ToSet(tlist)})) = ToSet(tlist) \cup ToSet(es)
  BY FlatTlist
<1> QED BY <1>1 DEF add_to_flat_tlist

\* What the scan of the base relation r fetches, tlist being what PostgreSQL
\* passed: the columns of r in it and in all conditions, and the target list.
ScanListOf(r, tlist) ==
  /\ plan.tlist = add_to_flat_tlist(tlist, Only(QualVars(rels[r].fdw), {v \in ToSet(QualVars(rels[r].fdw)) : v.attno > 0}))
  /\ QualVars(rels[r].fdw) \in Seq(Expressions)
  /\ plan.scan \in Seq(Expressions)
  /\ \A e \in ToSet(tlist) : \A v \in ToSet(pull_var_clause(e)) : v.varno = r => v \in ToSet(plan.scan)
  /\ \A e \in ToSet(query.restrict[r]) : \A v \in ToSet(pull_var_clause(e)) :
       v \in ToSet(QualVars(rels[r].fdw))
  /\ ToSet(QualVars(rels[r].fdw)) \subseteq ToSet(plan.scan)
  /\ \A v \in ToSet(QualVars(rels[r].fdw)) : IsA(v, "Var")
  /\ \A e \in ToSet(Exprs(query.target[r])) :
       \/ is_translate_func_expr(e) /\ e \in ToSet(plan.scan)
       \/ ToSet(pull_var_clause(e)) \subseteq ToSet(plan.scan)
  /\ rels[r].target = query.target[r] /\ Exprs(query.target[r]) \in Seq(Expressions)
LEMMA BaseScanList ==
  ASSUME PInv, PlanFacts, plan.made, plan.rel \in Bases, NEW r, r = plan.rel
  PROVE  \E tlist \in Seq(Expressions) : ScanListOf(r, tlist)
<1>1. /\ query \in Queries /\ Bases = {1, 2} /\ rels[r].fdw.has /\ rels[r].kind = "base" /\ BaseFdw(r)
      /\ r \in {1, 2} /\ r \in query.rels
  <2>1. /\ query \in Queries /\ Bases = {1, 2} /\ rels[r].fdw.has /\ rels[r].kind = "base" /\ ScanOf = r
        /\ ScanOf \in Bases => BaseFdw(ScanOf)
        /\ ScanOf \in query.rels \cup {3}
    BY MadeFacts
  <2> QED BY <2>1
<1>2. rels[r].target = query.target[r]
  <2>1. BaseOk(r)
    BY <1>1 DEF PInv, RelsInv, BaseInv
  <2> QED BY <1>1, <2>1 DEF BaseOk
<1>t. PICK tlist \in PassedTlists(r) : PlanOf(tlist)
  BY DEF PlanFacts
<1>3. Exprs(query.target[r]) \in Seq(Expressions) /\ query.restrict[r] \in Seq(Expressions)
  BY <1>1, QueryFacts
<1>4. tlist \in Seq(Expressions)
  <2>1. [k \in DOMAIN Columns[r] |-> Var(r, k, Columns[r][k].type, Columns[r][k].coll)] \in Seq(Expressions)
    BY <1>1, ColumnsAssumption
  <2>2. <<>> \in Seq(Expressions)
    OBVIOUS
  <2> QED BY <1>1, <1>2, <1>3, <2>1, <2>2 DEF PassedTlists
<1>f. PICK local, remote, glob : /\ local = rels[r].fdw.local_conds /\ remote = rels[r].fdw.remote_conds /\ glob = BaseGlob(r)
  OBVIOUS
<1>5. local \in Seq(Expressions) /\ remote \in Seq(Expressions) /\ ToSet(local) \cup ToSet(remote) = ToSet(query.restrict[r])
  <2>1. PICK es : es = query.restrict[r]
    OBVIOUS
  <2>2. /\ classifyConditions(glob, es).remote \in Seq(Expressions) /\ classifyConditions(glob, es).local \in Seq(Expressions)
        /\ ToSet(classifyConditions(glob, es).remote) \cup ToSet(classifyConditions(glob, es).local) = ToSet(es)
    BY <1>3, <2>1, ClassifiedOnce
  <2>3. local = classifyConditions(glob, es).local /\ remote = classifyConditions(glob, es).remote
    BY <1>1, <1>f, <2>1 DEF BaseFdw
  <2> QED BY <2>1, <2>2, <2>3
<1>q. PICK conds, qualvars : conds = local \o remote /\ qualvars = QualVars(rels[r].fdw)
  OBVIOUS
<1>6. conds \in Seq(Expressions) /\ ToSet(conds) = ToSet(query.restrict[r])
  <2>1. local \o remote \in Seq(Expressions) /\ ToSet(local \o remote) = ToSet(local) \cup ToSet(remote)
    BY <1>5, BothList
  <2> QED BY <1>5, <1>q, <2>1
<1>7. /\ qualvars \in Seq(Expressions)
      /\ \A v : v \in ToSet(qualvars) <=> \E e \in ToSet(conds) : v \in ToSet(pull_var_clause(e))
  <2>1. qualvars = Vars(conds)
    BY <1>f, <1>q DEF QualVars, Vars
  <2> QED BY <1>6, <2>1, VarsList
<1>8. \A v \in ToSet(qualvars) : IsA(v, "Var")
  <2>1. \A e \in ToSet(conds) : e \in Expressions
    BY <1>6 DEF ToSet
  <2> QED BY <1>7, <2>1, ColumnsOf
<1>b. PICK build, all, scanvars, S :
        /\ build = build_tlist_to_deparse(rels, r) /\ all = Vars(tlist)
        /\ S = {v \in ToSet(all) : v.varno = r} /\ scanvars = ScanVars(r, tlist)
  OBVIOUS
<1>9. scanvars = Only(all, S) /\ all \in Seq(Expressions) /\ scanvars \in Seq(Expressions)
      /\ ToSet(scanvars) = ToSet(all) \cap S
  <2>1. scanvars = Only(all, S)
    BY <1>b DEF ScanVars, Vars
  <2>2. all \in Seq(Expressions)
    BY <1>4, <1>b, VarsList
  <2> QED BY <2>1, <2>2, OnlyList
<1>10. /\ build \in Seq(Expressions)
       /\ \A e \in ToSet(Exprs(query.target[r])) :
            \/ is_translate_func_expr(e) /\ e \in ToSet(build)
            \/ ToSet(pull_var_clause(e)) \subseteq ToSet(build)
  <2>e. PICK es, W, N, whole, others, none :
          /\ es = Exprs(query.target[r])
          /\ W = {e \in ToSet(es) : is_translate_func_expr(e) /\ Ships(rels, r, e)}
          /\ N = {e \in ToSet(es) : ~(is_translate_func_expr(e) /\ Ships(rels, r, e))}
          /\ whole = Only(es, W) /\ others = Only(es, N) /\ none = <<>>
    OBVIOUS
  <2>1. /\ whole \in Seq(Expressions) /\ ToSet(whole) = ToSet(es) \cap W
        /\ others \in Seq(Expressions) /\ ToSet(others) = ToSet(es) \cap N
    BY <1>3, <2>e, OnlyList
  <2>2. /\ Vars(others) \in Seq(Expressions) /\ Vars(local) \in Seq(Expressions)
        /\ \A v : v \in ToSet(Vars(others)) <=> \E e \in ToSet(others) : v \in ToSet(pull_var_clause(e))
    BY <1>5, <2>1, VarsList
  <2>v. PICK ov, lv, wo, wol : ov = Vars(others) /\ lv = Vars(local) /\ wo = whole \o ov /\ wol = wo \o lv
    OBVIOUS
  <2>3. /\ wo \in Seq(Expressions) /\ ToSet(wo) = ToSet(whole) \cup ToSet(ov)
    BY <2>1, <2>2, <2>v, BothList
  <2>4. /\ wol \in Seq(Expressions) /\ ToSet(wol) = ToSet(wo) \cup ToSet(lv)
    <3>1. lv \in Seq(Expressions)
      BY <2>2, <2>v
    <3>2. wo \o lv \in Seq(Expressions) /\ ToSet(wo \o lv) = ToSet(wo) \cup ToSet(lv)
      BY <2>3, <3>1, BothList
    <3> QED BY <2>v, <3>2
  <2>5. build = add_to_flat_tlist(none, wol)
    <3>1. rels[r].kind # "upper"
      BY <1>1
    <3> QED BY <1>2, <1>b, <1>f, <2>e, <2>v, <3>1 DEF build_tlist_to_deparse, Vars
  <2>6. build \in Seq(Expressions) /\ ToSet(build) = ToSet(none) \cup ToSet(wol)
    <3>1. none \in Seq(Expressions)
      BY <2>e
    <3> QED BY <2>4, <2>5, <3>1, AddedList
  <2> QED BY <2>1, <2>2, <2>3, <2>4, <2>6, <2>e, <2>v
<1>m. PICK mid : mid = add_to_flat_tlist(build, scanvars)
  OBVIOUS
<1>11. mid \in Seq(Expressions) /\ ToSet(mid) = ToSet(build) \cup ToSet(scanvars)
  BY <1>9, <1>10, <1>m, AddedList
<1>12. plan.scan = add_to_flat_tlist(mid, qualvars)
  <2>1. plan.scan = BaseScanTlist(r, tlist)
    BY <1>t DEF PlanOf
  <2> QED BY <1>b, <1>m, <1>q, <2>1 DEF BaseScanTlist
<1>13. plan.scan \in Seq(Expressions) /\ ToSet(plan.scan) = ToSet(build) \cup ToSet(scanvars) \cup ToSet(qualvars)
  <2>1. PICK scan : scan = add_to_flat_tlist(mid, qualvars)
    OBVIOUS
  <2>2. scan \in Seq(Expressions) /\ ToSet(scan) = ToSet(mid) \cup ToSet(qualvars)
    BY <1>7, <1>11, <2>1, AddedList
  <2> QED BY <1>11, <1>12, <2>1, <2>2
<1>14. \A e \in ToSet(tlist) : \A v \in ToSet(pull_var_clause(e)) : v.varno = r => v \in ToSet(plan.scan)
  <2>1. \A v : v \in ToSet(all) <=> \E e \in ToSet(tlist) : v \in ToSet(pull_var_clause(e))
    BY <1>4, <1>b, VarsList
  <2> QED BY <1>9, <1>13, <1>b, <2>1
<1>15. plan.tlist = add_to_flat_tlist(tlist, Only(QualVars(rels[r].fdw), {v \in ToSet(QualVars(rels[r].fdw)) : v.attno > 0}))
  BY <1>t DEF PlanOf
<1>16. \A e \in ToSet(query.restrict[r]) : \A v \in ToSet(pull_var_clause(e)) : v \in ToSet(qualvars)
  BY <1>6, <1>7
<1>17. \A e \in ToSet(Exprs(query.target[r])) :
          \/ is_translate_func_expr(e) /\ e \in ToSet(plan.scan)
          \/ ToSet(pull_var_clause(e)) \subseteq ToSet(plan.scan)
  BY <1>10, <1>13
<1>18. ScanListOf(r, tlist)
  BY <1>2, <1>3, <1>7, <1>8, <1>13, <1>14, <1>15, <1>16, <1>17, <1>q DEF ScanListOf
<1> QED BY <1>4, <1>18

LEMMA ScanCovers ==
  ASSUME PInv, PlanFacts
  PROVE  ScanListCoversNeeds
<1> DEFINE Found(e, v) == Contains(plan.scan, v) \/ (Contains(plan.scan, e) /\ is_translate_func_expr(e))
<1> SUFFICES ASSUME plan.made, rels[plan.rel].kind = "base",
                    NEW e \in ToSet(plan.tlist \o plan.qual \o plan.recheck \o Exprs(rels[plan.rel].target)),
                    NEW v \in ToSet(pull_var_clause(e)), v.varno = plan.rel
             PROVE  Found(e, v)
  BY DEF ScanListCoversNeeds
<1>r. PICK r : r = plan.rel
  OBVIOUS
<1>1. plan.rel \in Bases /\ r \in Bases /\ query \in Queries
  BY <1>r, MadeFacts
<1>t. PICK tlist \in Seq(Expressions) : ScanListOf(r, tlist)
  BY <1>1, <1>r, BaseScanList, MadeFacts
<1>2.
      /\ plan.tlist = add_to_flat_tlist(tlist, Only(QualVars(rels[r].fdw), {x \in ToSet(QualVars(rels[r].fdw)) : x.attno > 0}))
      /\ QualVars(rels[r].fdw) \in Seq(Expressions)
      /\ plan.scan \in Seq(Expressions)
      /\ \A f \in ToSet(tlist) : \A x \in ToSet(pull_var_clause(f)) : x.varno = r => x \in ToSet(plan.scan)
      /\ \A f \in ToSet(query.restrict[r]) : \A x \in ToSet(pull_var_clause(f)) :
           x \in ToSet(QualVars(rels[r].fdw))
      /\ ToSet(QualVars(rels[r].fdw)) \subseteq ToSet(plan.scan)
      /\ \A x \in ToSet(QualVars(rels[r].fdw)) : IsA(x, "Var")
      /\ \A f \in ToSet(Exprs(query.target[r])) :
           \/ is_translate_func_expr(f) /\ f \in ToSet(plan.scan)
           \/ ToSet(pull_var_clause(f)) \subseteq ToSet(plan.scan)
      /\ rels[r].target = query.target[r] /\ Exprs(query.target[r]) \in Seq(Expressions)
  BY ONLY <1>t DEF ScanListOf
<1>q. PICK qualvars, some, plantl, target, Q :
        /\ qualvars = QualVars(rels[r].fdw) /\ Q = {x \in ToSet(qualvars) : x.attno > 0} /\ some = Only(qualvars, Q)
        /\ plantl = plan.tlist /\ target = Exprs(query.target[r])
  OBVIOUS
<1>3. /\ some \in Seq(Expressions) /\ ToSet(some) \subseteq ToSet(qualvars)
  BY <1>2, <1>q, OnlyList
<1>4. plantl \in Seq(Expressions) /\ ToSet(plantl) = ToSet(tlist) \cup ToSet(some)
  <2>1. add_to_flat_tlist(tlist, some) \in Seq(Expressions)
        /\ ToSet(add_to_flat_tlist(tlist, some)) = ToSet(tlist) \cup ToSet(some)
    BY <1>3, AddedList
  <2> QED BY <1>2, <1>q, <2>1
<1>c. PICK qual, recheck, clauses : qual = plan.qual /\ recheck = plan.recheck /\ clauses = ScanClauses(r)
  OBVIOUS
<1>5. /\ qual \in Seq(Expressions) /\ recheck \in Seq(Expressions) /\ clauses \in Seq(Expressions)
      /\ ToSet(recheck) \cup ToSet(qual) = ToSet(clauses)
  <2>1. PICK x : x = NoExpr
    OBVIOUS
  <2>2. /\ plan.remote \in Seq(Expressions) /\ plan.qual \in Seq(Expressions)
        /\ ScanClauses(plan.rel) \in Seq(Expressions)
        /\ ToSet(plan.remote) \cup ToSet(plan.qual) = ToSet(ScanClauses(plan.rel))
    BY <1>1, BaseClauses
  <2>3. plan.recheck = plan.remote
    BY <1>1 DEF PlanFacts, PlanOf
  <2> QED BY <1>c, <1>r, <2>2, <2>3
<1>6. e \in ToSet(plantl) \/ e \in ToSet(clauses) \/ e \in ToSet(target)
  <2>1. plantl \o qual \in Seq(Expressions) /\ ToSet(plantl \o qual) = ToSet(plantl) \cup ToSet(qual)
    BY <1>4, <1>5, BothList
  <2>a. PICK a, b : a = plantl \o qual /\ b = a \o recheck
    OBVIOUS
  <2>6. a \in Seq(Expressions) /\ ToSet(a) = ToSet(plantl) \cup ToSet(qual) /\ recheck \in Seq(Expressions)
    BY <1>5, <2>1, <2>a
  <2>7. a \o recheck \in Seq(Expressions) /\ ToSet(a \o recheck) = ToSet(a) \cup ToSet(recheck)
    BY ONLY <2>6, BothList
  <2>2. b \in Seq(Expressions) /\ ToSet(b) = ToSet(a) \cup ToSet(recheck)
    BY <2>7, <2>a
  <2>3. target \in Seq(Expressions)
    BY <1>2, <1>q
  <2>4. ToSet(b \o target) = ToSet(b) \cup ToSet(target)
    BY ONLY <2>2, <2>3, BothList
  <2>5. plan.tlist \o plan.qual \o plan.recheck \o Exprs(rels[plan.rel].target) = b \o target
    BY <1>2, <1>c, <1>q, <1>r, <2>a
  <2> QED BY <1>5, <1>c, <2>2, <2>4, <2>5, <2>6
<1>7. \A x \in ToSet(plan.scan) : Contains(plan.scan, x)
  BY <1>2 DEF ToSet, Contains
<1>8. CASE e \in ToSet(plantl)
  <2>1. CASE e \in ToSet(tlist)
    BY <1>2, <1>7, <1>r, <2>1
  <2>2. CASE e \in ToSet(some)
    <3>3. e \in ToSet(qualvars)
      BY <1>3, <2>2
    <3>4. qualvars \in Seq(Expressions)
      BY <1>2, <1>q
    <3>5. e \in Expressions
      BY <3>3, <3>4 DEF ToSet
    <3>6. IsA(e, "Var")
      BY <1>2, <1>q, <3>3
    <3>1. e \in ToSet(qualvars) /\ e \in Expressions /\ IsA(e, "Var")
      BY <3>3, <3>5, <3>6
    <3>2. v = e
      BY <3>1, ColumnsOf
    <3> QED BY <1>2, <1>7, <1>q, <3>1, <3>2
  <2> QED BY <1>4, <1>8, <2>1, <2>2
<1>9. CASE e \in ToSet(clauses)
  <2>0. query.restrict[r] \in Seq(Expressions) /\ query.lateral[r] \in Seq(Expressions)
    BY <1>1, QueryFacts
  <2>1. e \in ToSet(query.restrict[r]) \/ e \in ToSet(query.lateral[r])
    <3>1. PICK s, t : s = query.restrict[r] /\ t = query.lateral[r]
      OBVIOUS
    <3>2. ToSet(s \o t) = ToSet(s) \cup ToSet(t)
      BY <2>0, <3>1, BothList
    <3> QED BY <1>9, <1>c, <3>1, <3>2 DEF ScanClauses
  <2>2. CASE e \in ToSet(query.restrict[r])
    BY <1>2, <1>7, <2>2
  <2>3. CASE e \in ToSet(query.lateral[r])
    <3>1. query.lateral[r] # <<>>
      BY <2>0, <2>3 DEF ToSet
    <3>2. Parameterised(query, r)
      BY <1>1, <3>1, QueryFacts
    <3>3. v \in ToSet(target)
      BY <1>q, <1>r, <2>3, <3>2 DEF Parameterised
    <3>4. e \in Expressions
      BY <2>0, <2>3 DEF ToSet
    <3>5. IsA(v, "Var") /\ v \in Expressions
      BY <3>4, ColumnsOf DEF ToSet
    <3>6. ~is_translate_func_expr(v)
      BY <3>5 DEF is_translate_func_expr, IsA
    <3>7. ToSet(pull_var_clause(v)) = {v}
      BY <3>5, ColumnsOf
    <3>8. v \in ToSet(plan.scan)
      BY <1>2, <1>q, <3>3, <3>6, <3>7
    <3> QED BY <1>7, <3>8
  <2> QED BY <2>1, <2>2, <2>3
<1>10. CASE e \in ToSet(target)
  BY <1>2, <1>7, <1>q, <1>10
<1> QED BY <1>6, <1>8, <1>9, <1>10

\* Every column that PostgreSQL needs at or above the scan of one table, for its
\* output, for the conditions it checks and for those it may check again, is
\* fetched, by itself or within a TRANSLATE that DB2 computes.
THEOREM PlannerScans == Spec => []ScanListCoversNeeds
BY PlannerInvariant, PlannerPlans, ScanCovers, PTL

=============================================================================
