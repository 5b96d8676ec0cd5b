---------------------------- MODULE SentProofs -----------------------------
(***************************************************************************)
(* Proofs about what is sent to DB2: operators and functions have a text,  *)
(* collations come from columns, parameters follow their markers, and a    *)
(* text means in DB2 what its expression means in PostgreSQL.              *)
(*                                                                         *)
(* Expressions are trees that a constant operator Nodes lists, and a claim *)
(* about all of them is proved from an expression of the least Size that   *)
(* breaks it.                                                              *)
(***************************************************************************)
EXTENDS PlannerProofs

(***************************************************************************)
(* Expressions have less below them than they have themselves.             *)
(***************************************************************************)
Size(e) == Len(Nodes(e))
LEMMA NodeSize ==
  ASSUME NEW e \in Expressions
  PROVE  Nodes(e) \in Seq(Expressions) /\ Size(e) \in Nat /\ \A n \in ToSet(Nodes(e)) : n \in Expressions
<1>1. Nodes(e) \in Seq(Expressions)
  BY ExpressionsAssumption
<1> QED BY <1>1 DEF Size, ToSet

LEMMA LeastExpression ==
  ASSUME NEW D \in SUBSET Expressions, D # {}
  PROVE  \E e \in D : \A d \in D : ~(Size(d) < Size(e))
<1> DEFINE S == {Size(d) : d \in D}
<1>1. S \in SUBSET Nat /\ S # {}
  BY NodeSize
<1>2. PICK m \in S : \A k \in S : m <= k
  BY <1>1, LeastNumber
<1>3. PICK e \in D : m = Size(e)
  OBVIOUS
<1>4. ASSUME NEW d \in D PROVE ~(Size(d) < Size(e))
  <2>1. Size(d) \in Nat /\ Size(e) \in Nat
    BY NodeSize
  <2>2. Size(e) <= Size(d)
    BY <1>2, <1>3
  <2> QED BY <2>1, <2>2
<1> QED BY <1>4

\* The nodes of an expression are itself and those of its children.
LEMMA NodesSplit ==
  ASSUME NEW e \in Expressions, e # NoExpr
  PROVE  /\ Children(e) \in Seq(Expressions)
         /\ e \in ToSet(Nodes(e))
         /\ \A n \in ToSet(Nodes(e)) : n = e \/ \E c \in ToSet(Children(e)) : n \in ToSet(Nodes(c))
         /\ \A c \in ToSet(Children(e)) :
              c \in Expressions /\ ToSet(Nodes(c)) \subseteq ToSet(Nodes(e)) /\ Size(c) < Size(e)
<1>c. PICK cs : cs = Children(e)
  OBVIOUS
<1>0. cs \in Seq(Expressions)
  BY <1>c, ExpressionsAssumption
<1>1. cs \in Seq(Expressions) /\ DOMAIN cs = 1 .. Len(cs) /\ Len(cs) \in Nat /\ \A i \in DOMAIN cs : cs[i] \in Expressions
  BY <1>0
<1>s. PICK ss : ss = [i \in DOMAIN cs |-> Nodes(cs[i])]
  OBVIOUS
<1>2. \A i \in DOMAIN cs : ss[i] = Nodes(cs[i]) /\ ss[i] \in Seq(Expressions)
  BY <1>1, <1>s, NodeSize
<1>3. ss \in Seq(Seq(Expressions)) /\ DOMAIN ss = DOMAIN cs
  <2>1. ss \in [1 .. Len(cs) -> Seq(Expressions)]
    BY <1>1, <1>2, <1>s
  <2> QED BY <1>1, <2>1
<1>a. PICK all, one : all = Concat(ss) /\ one = <<e>>
  OBVIOUS
<1>4. all \in Seq(Expressions) /\ ToSet(all) = UNION {ToSet(ss[k]) : k \in DOMAIN ss}
  BY <1>3, <1>a, ConcatList
<1>5. Nodes(e) = one \o all
  <2>1. Nodes(e) = NodesOf(e, [i \in DOMAIN Children(e) |-> Nodes(Children(e)[i])])
    BY ExpressionsAssumption
  <2> QED BY <1>a, <1>c, <1>s, <2>1 DEF NodesOf
<1>6. one \in Seq(Expressions) /\ Len(one) = 1 /\ ToSet(one) = {e}
  BY <1>a DEF ToSet
<1>7. ToSet(one \o all) = ToSet(one) \cup ToSet(all)
  BY <1>4, <1>6, BothList
<1>8. ToSet(Nodes(e)) = {e} \cup ToSet(all)
  BY <1>5, <1>6, <1>7
<1>9. Size(e) = 1 + Len(all) /\ Len(all) \in Nat
  <2>1. Len(one \o all) = 1 + Len(all) /\ Len(all) \in Nat
    <3>1. one \in Seq(Expressions) /\ all \in Seq(Expressions)
      BY <1>4, <1>6
    <3>2. Len(one \o all) = Len(one) + Len(all) /\ Len(all) \in Nat
      BY <3>1
    <3> QED BY <1>6, <3>2
  <2> QED BY <1>5, <2>1 DEF Size
<1>10. \A c \in ToSet(cs) : \E i \in DOMAIN ss : c = cs[i] /\ ss[i] = Nodes(c)
  BY <1>2, <1>3 DEF ToSet
<1>11. ASSUME NEW c \in ToSet(cs)
       PROVE  c \in Expressions /\ ToSet(Nodes(c)) \subseteq ToSet(Nodes(e)) /\ Size(c) < Size(e)
  <2>1. PICK i \in DOMAIN ss : c = cs[i] /\ ss[i] = Nodes(c)
    BY <1>10
  <2>2. Len(ss[i]) <= Len(all)
    BY <1>3, <1>a, ConcatLonger
  <2>3. c \in Expressions /\ Size(c) \in Nat /\ Size(c) = Len(ss[i])
    BY <1>1, <1>3, <2>1, NodeSize DEF Size
  <2>4. ToSet(Nodes(c)) \subseteq ToSet(all)
    BY <1>4, <2>1
  <2> QED BY <1>8, <1>9, <2>2, <2>3, <2>4
<1>12. ASSUME NEW n \in ToSet(Nodes(e)), n # e PROVE \E c \in ToSet(cs) : n \in ToSet(Nodes(c))
  <2>1. PICK k \in DOMAIN ss : n \in ToSet(ss[k])
    BY <1>4, <1>8, <1>12
  <2>2. cs[k] \in ToSet(cs) /\ ss[k] = Nodes(cs[k])
    BY <1>2, <1>3 DEF ToSet
  <2> QED BY <2>1, <2>2
<1> QED BY <1>1, <1>8, <1>11, <1>12, <1>c

LEMMA NothingBelow ==
  Nodes(NoExpr) = <<>> /\ ToSet(Nodes(NoExpr)) = {}
<1>1. Nodes(NoExpr) = NodesOf(NoExpr, [i \in DOMAIN Children(NoExpr) |-> Nodes(Children(NoExpr)[i])])
  BY ExpressionsAssumption
<1>2. Nodes(NoExpr) = <<>>
  BY <1>1 DEF NodesOf
<1> QED BY <1>2 DEF ToSet

(***************************************************************************)
(* What the walker merges.                                                 *)
(***************************************************************************)
Outcomes == {Fail} \cup Passing
LEMMA OutcomeFacts ==
  ASSUME NEW c \in Outcomes
  PROVE  c.ok \in BOOLEAN /\ c.st \in {NONE, SAFE, UNSAFE} /\ (c.ok => c \in Passing) /\ (~c.ok => c = Fail)
<1>1. CASE c = Fail
  BY <1>1 DEF Fail
<1>2. CASE c \in Passing
  BY <1>2 DEF Passing
<1> QED BY <1>1, <1>2 DEF Outcomes

LEMMA EmptyPasses == Empty \in Passing /\ Empty.ok /\ Empty.st = NONE
BY DEF Empty, Passing, NONE

LEMMA MergeOne ==
  ASSUME NEW outer \in Outcomes, NEW inner \in Outcomes, NEW m, m = Merge(outer, inner)
  PROVE  /\ m \in Outcomes
         /\ m.ok => outer.ok /\ inner.ok
         /\ m.ok /\ m.st = SAFE => (outer.st = SAFE /\ outer.coll = m.coll) \/ (inner.st = SAFE /\ inner.coll = m.coll)
<1>1. /\ outer.ok \in BOOLEAN /\ inner.ok \in BOOLEAN /\ (~outer.ok => outer = Fail) /\ (~inner.ok => inner = Fail)
      /\ (outer.ok => outer \in Passing) /\ (inner.ok => inner \in Passing)
  BY OutcomeFacts
<1>2. CASE ~outer.ok \/ ~inner.ok
  <2>1. m = Fail
    BY <1>2 DEF Merge
  <2> QED BY <2>1 DEF Outcomes, Fail
<1>3. CASE outer.ok /\ inner.ok
  <2>1. outer \in Passing /\ inner \in Passing
    BY <1>1, <1>3
  <2>2. m \in {outer, inner, [outer EXCEPT !.st = UNSAFE]}
    BY <1>3 DEF Merge
  <2>u. PICK u : u = [outer EXCEPT !.st = UNSAFE]
    OBVIOUS
  <2>3. u \in Passing /\ u.st # SAFE
    <3>c. PICK C : Passing = [ok : {TRUE}, st : {NONE, SAFE, UNSAFE}, coll : C]
      BY DEF Passing
    <3>1. u \in Passing
      BY <2>1, <2>u, <3>c
    <3>2. u.st = UNSAFE
      BY <2>1, <2>u, <3>c
    <3> QED BY <3>1, <3>2 DEF SAFE, UNSAFE
  <2> QED BY <1>3, <2>1, <2>2, <2>3, <2>u DEF Outcomes
<1> QED BY <1>1, <1>2, <1>3

\* The merges up to each context.
Merging(g, cs, n) == g[0] = Empty /\ \A k \in 1 .. n : g[k] = Merge(g[k - 1], cs[k])
LEMMA MergingExists ==
  ASSUME NEW cs \in Seq(Outcomes), NEW n \in 0 .. Len(cs)
  PROVE  \E g \in [0 .. n -> Outcomes] : Merging(g, cs, n)
<1> DEFINE D == {m \in 0 .. n : ~\E g \in [0 .. m -> Outcomes] : Merging(g, cs, m)}
<1>1. n \in Nat /\ Len(cs) \in Nat /\ n \in 0 .. n
  OBVIOUS
<1>2. D = {}
  <2> SUFFICES ASSUME D # {} PROVE FALSE
    OBVIOUS
  <2>1. D \in SUBSET Nat
    OBVIOUS
  <2>2. PICK m \in D : \A k \in D : m <= k
    BY <2>1, LeastNumber
  <2>3. m \in 0 .. n /\ m \in Nat /\ ~\E g \in [0 .. m -> Outcomes] : Merging(g, cs, m)
    OBVIOUS
  <2>4. CASE m = 0
    <3> DEFINE g == [k \in 0 .. m |-> Empty]
    <3>1. Empty \in Outcomes
      BY EmptyPasses DEF Outcomes
    <3>2. g \in [0 .. m -> Outcomes] /\ Merging(g, cs, m)
      BY <2>4, <3>1 DEF Merging
    <3> QED BY <2>3, <3>2
  <2>5. CASE m # 0
    <3>1. m - 1 \in 0 .. n /\ ~(m <= m - 1) /\ m \in 1 .. Len(cs)
      BY <1>1, <2>3, <2>5
    <3>2. PICK h \in [0 .. (m - 1) -> Outcomes] : Merging(h, cs, m - 1)
      BY <2>2, <3>1
    <3>o. PICK outer, inner : outer = h[m - 1] /\ inner = cs[m]
      OBVIOUS
    <3>3. outer \in Outcomes /\ inner \in Outcomes
      BY <2>3, <2>5, <3>1, <3>2, <3>o
    <3>m. PICK last : last = Merge(outer, inner)
      OBVIOUS
    <3>4. last \in Outcomes
      BY <3>3, <3>m, MergeOne
    <3> DEFINE g == [k \in 0 .. m |-> IF k = m THEN last ELSE h[k]]
    <3>5. g \in [0 .. m -> Outcomes]
      <4>1. \A k \in 0 .. m : k = m \/ k \in 0 .. (m - 1)
        BY <2>3
      <4>2. \A k \in 0 .. m : g[k] \in Outcomes
        BY <3>2, <3>4, <4>1
      <4> QED BY <4>2
    <3>6. g[0] = h[0] /\ g[m] = Merge(h[m - 1], cs[m]) /\ \A k \in 0 .. (m - 1) : g[k] = h[k]
      <4>1. 0 \in 0 .. m /\ 0 # m /\ m \in 0 .. m /\ \A k \in 0 .. (m - 1) : k \in 0 .. m /\ k # m
        BY <2>3, <2>5
      <4> QED BY <3>m, <3>o, <4>1
    <3> HIDE DEF g
    <3>7. ASSUME NEW k \in 1 .. m PROVE g[k] = Merge(g[k - 1], cs[k])
      <4>1. k - 1 \in 0 .. (m - 1) /\ (k = m \/ k \in 1 .. (m - 1)) /\ (k # m => k \in 0 .. (m - 1))
        BY <2>3
      <4> QED BY <3>2, <3>6, <4>1 DEF Merging
    <3>8. Merging(g, cs, m)
      BY <3>2, <3>6, <3>7 DEF Merging
    <3> QED BY <2>3, <3>5, <3>8
  <2> QED BY <2>4, <2>5
<1> QED BY <1>1, <1>2

LEMMA MergeSteps ==
  ASSUME NEW cs \in Seq(Outcomes)
  PROVE  \E g \in [0 .. Len(cs) -> Outcomes] : Merging(g, cs, Len(cs)) /\ MergeAll(cs) = g[Len(cs)]
<1> DEFINE n == Len(cs)
           f == CHOOSE f : f = [k \in 0 .. Len(cs) |-> IF k = 0 THEN Empty ELSE Merge(f[k - 1], cs[k])]
<1>1. n \in Nat /\ n \in 0 .. n
  OBVIOUS
<1>2. MergeAll(cs) = f[n]
  BY DEF MergeAll
<1>3. PICK g \in [0 .. n -> Outcomes] : Merging(g, cs, n)
  BY <1>1, MergingExists
<1>4. \A k \in 0 .. n : g[k] = IF k = 0 THEN Empty ELSE Merge(g[k - 1], cs[k])
  <2> SUFFICES ASSUME NEW k \in 0 .. n PROVE g[k] = IF k = 0 THEN Empty ELSE Merge(g[k - 1], cs[k])
    OBVIOUS
  <2>1. k = 0 \/ k \in 1 .. n
    BY <1>1
  <2> QED BY <1>3, <2>1 DEF Merging
<1>5. g = [k \in 0 .. n |-> IF k = 0 THEN Empty ELSE Merge(g[k - 1], cs[k])]
  BY <1>3, <1>4
<1>6. f = [k \in 0 .. n |-> IF k = 0 THEN Empty ELSE Merge(f[k - 1], cs[k])]
  BY <1>5
<1> HIDE DEF f
<1>7. \A k \in 0 .. n : f[k] = IF k = 0 THEN Empty ELSE Merge(f[k - 1], cs[k])
  BY <1>6
<1> DEFINE D == {k \in 0 .. n : g[k] # f[k]}
<1>8. D = {}
  <2> SUFFICES ASSUME D # {} PROVE FALSE
    OBVIOUS
  <2>1. D \in SUBSET Nat
    OBVIOUS
  <2>2. PICK k \in D : \A j \in D : k <= j
    BY <2>1, LeastNumber
  <2>3. k \in 0 .. n /\ k \in Nat /\ g[k] # f[k]
    OBVIOUS
  <2>4. k # 0
    BY <1>4, <1>7, <2>3
  <2>5. k - 1 \in 0 .. n /\ ~(k <= k - 1)
    BY <1>1, <2>3, <2>4
  <2>6. g[k - 1] = f[k - 1]
    BY <2>2, <2>5
  <2> QED BY <1>4, <1>7, <2>3, <2>4, <2>6
<1>9. g[n] = f[n]
  BY <1>1, <1>8
<1> QED BY <1>2, <1>3, <1>9

\* What is merged has passed, and a collation that is safe is so in one of them.
LEMMA MergedPassed ==
  ASSUME NEW cs \in Seq(Outcomes), NEW m, m = MergeAll(cs)
  PROVE  /\ m \in Outcomes
         /\ m.ok => \A i \in DOMAIN cs : cs[i].ok
         /\ m.ok /\ m.st = SAFE => \E i \in DOMAIN cs : cs[i].ok /\ cs[i].st = SAFE /\ cs[i].coll = m.coll
<1> DEFINE n == Len(cs)
<1>1. n \in Nat /\ n \in 0 .. n /\ DOMAIN cs = 1 .. n
  OBVIOUS
<1>2. PICK g \in [0 .. n -> Outcomes] : Merging(g, cs, n) /\ m = g[n]
  BY MergeSteps
<1> DEFINE Right(k) ==
             /\ g[k].ok => \A i \in 1 .. k : cs[i].ok
             /\ g[k].ok /\ g[k].st = SAFE => \E i \in 1 .. k : cs[i].ok /\ cs[i].st = SAFE /\ cs[i].coll = g[k].coll
           D == {k \in 0 .. n : ~Right(k)}
<1>3. Right(0)
  <2>1. g[0] = Empty /\ 1 .. 0 = {}
    BY <1>2 DEF Merging
  <2>2. g[0].st # SAFE
    BY <2>1, EmptyPasses DEF NONE, SAFE
  <2> QED BY <2>1, <2>2
<1>4. ASSUME NEW k \in 1 .. n, Right(k - 1) PROVE Right(k)
  <2>1. k - 1 \in 0 .. n /\ k \in DOMAIN cs
    BY <1>1
  <2>o. PICK outer, inner, res : outer = g[k - 1] /\ inner = cs[k] /\ res = g[k]
    OBVIOUS
  <2>2. outer \in Outcomes /\ inner \in Outcomes /\ res = Merge(outer, inner)
    BY <1>2, <2>1, <2>o DEF Merging
  <2>3. /\ res.ok => outer.ok /\ inner.ok
        /\ res.ok /\ res.st = SAFE => (outer.st = SAFE /\ outer.coll = res.coll) \/ (inner.st = SAFE /\ inner.coll = res.coll)
    BY <2>2, MergeOne
  <2>4. 1 .. k = (1 .. (k - 1)) \cup {k}
    BY <1>1
  <2>5. /\ outer.ok => \A i \in 1 .. (k - 1) : cs[i].ok
        /\ outer.ok /\ outer.st = SAFE =>
             \E i \in 1 .. (k - 1) : cs[i].ok /\ cs[i].st = SAFE /\ cs[i].coll = outer.coll
    BY <1>4, <2>o
  <2>6. res.ok => \A i \in 1 .. k : cs[i].ok
    BY <2>3, <2>4, <2>5, <2>o
  <2>7. res.ok /\ res.st = SAFE => \E i \in 1 .. k : cs[i].ok /\ cs[i].st = SAFE /\ cs[i].coll = res.coll
    BY <2>3, <2>4, <2>5, <2>o
  <2> QED BY <2>6, <2>7, <2>o
<1> HIDE DEF Right
<1>5. D = {}
  <2> SUFFICES ASSUME D # {} PROVE FALSE
    OBVIOUS
  <2>1. D \in SUBSET Nat
    OBVIOUS
  <2>2. PICK k \in D : \A j \in D : k <= j
    BY <2>1, LeastNumber
  <2>3. k \in 0 .. n /\ k \in Nat /\ ~Right(k)
    OBVIOUS
  <2>4. k # 0
    BY <1>3, <2>3
  <2>5. k - 1 \in 0 .. n /\ ~(k <= k - 1) /\ k \in 1 .. n
    BY <1>1, <2>3, <2>4
  <2>6. Right(k - 1)
    BY <2>2, <2>5
  <2> QED BY <1>4, <2>3, <2>5, <2>6
<1>6. Right(n)
  BY <1>1, <1>5
<1> QED BY <1>1, <1>2, <1>6 DEF Right

(***************************************************************************)
(* What the walker has passed.                                             *)
(***************************************************************************)
\* Every child is the argument of a CASE, or merged, or passes aside.
LEMMA WalkedChildren ==
  ASSUME NEW e \in Expressions, e # NoExpr
  PROVE  /\ Argument(e) \in ToSet(Children(e)) \cup {NoExpr} /\ Argument(e) \in Expressions
         /\ Aside(e) \in Seq(Expressions) /\ Merged(e) \in Seq(Expressions)
         /\ ToSet(Aside(e)) \subseteq ToSet(Children(e)) /\ ToSet(Merged(e)) \subseteq ToSet(Children(e))
         /\ \A c \in ToSet(Children(e)) : c = Argument(e) \/ c \in ToSet(Aside(e)) \/ c \in ToSet(Merged(e))
<1>c. PICK cs : cs = Children(e)
  OBVIOUS
<1>1. cs \in Seq(Expressions) /\ NoExpr \in Expressions
  BY <1>c, NodesSplit, ExpressionsAssumption
<1>2. CASE e.tag \notin {"Case", "Subscripting", "Aggref"}
  <2>1. Argument(e) = NoExpr /\ Aside(e) = <<>> /\ Merged(e) = cs
    BY <1>2, <1>c DEF Argument, Aside, Merged, IsA
  <2>2. <<>> \in Seq(Expressions) /\ ToSet(<<>>) = {}
    BY DEF ToSet
  <2> QED BY <1>1, <1>c, <2>1, <2>2
<1>3. CASE e.tag = "Aggref"
  <2>1. Argument(e) = NoExpr /\ Aside(e) = <<>> /\ Merged(e) = cs
    BY <1>3, <1>c DEF Argument, Aside, Merged, IsA, Children
  <2>2. <<>> \in Seq(Expressions) /\ ToSet(<<>>) = {}
    BY DEF ToSet
  <2> QED BY <1>1, <1>c, <2>1, <2>2
<1>4. CASE e.tag = "Subscripting"
  <2>1. Argument(e) = NoExpr /\ Aside(e) = <<e.index>> /\ Merged(e) = e.args /\ cs = <<e.index, e.args[1]>>
    BY <1>4, <1>c DEF Argument, Aside, Merged, IsA, Children
  <2>2. Len(e.args) = 1 /\ e.args \in Seq(Expressions)
    BY <1>4, ExpressionsAssumption DEF WellFormed, IsA
  <2>3. ToSet(e.args) = {e.args[1]} /\ ToSet(<<e.index>>) = {e.index} /\ ToSet(cs) = {e.index, e.args[1]}
    BY <2>1, <2>2 DEF ToSet
  <2>4. e.index \in Expressions
    BY <1>1, <2>1
  <2> QED BY <1>1, <1>c, <2>1, <2>2, <2>3, <2>4
<1>5. CASE e.tag = "Case"
  <2>0. e.whens \in Seq(Expressions \X Expressions)
    BY <1>5, ExpressionsAssumption DEF WellFormed, IsA
  <2>w. PICK whens, n, all, conds, results :
          /\ whens = e.whens /\ n = Len(e.whens) /\ all = Concat(e.whens)
          /\ conds = [i \in DOMAIN e.whens |-> e.whens[i][1]] /\ results = [i \in DOMAIN e.whens |-> e.whens[i][2]]
    OBVIOUS
  <2>1. n \in Nat /\ DOMAIN whens = 1 .. n /\ Len(whens) = n /\ \A i \in 1 .. n : whens[i] \in Expressions \X Expressions
    BY <2>0, <2>w
  <2>p. ASSUME NEW p \in Expressions \X Expressions
        PROVE  p[1] \in Expressions /\ p[2] \in Expressions /\ p \in Seq(Expressions) /\ ToSet(p) = {p[1], p[2]}
    <3>1. PICK a \in Expressions, b \in Expressions : p = <<a, b>>
      OBVIOUS
    <3>2. <<a, b>> \in Seq(Expressions) /\ ToSet(<<a, b>>) = {a, b} /\ <<a, b>>[1] = a /\ <<a, b>>[2] = b
      BY DEF ToSet
    <3> QED BY <3>1, <3>2
  <2>2. \A p \in Expressions \X Expressions :
          p[1] \in Expressions /\ p[2] \in Expressions /\ p \in Seq(Expressions) /\ ToSet(p) = {p[1], p[2]}
    BY <2>p
  <2>3. whens \in Seq(Seq(Expressions))
    <3>1. \A i \in 1 .. n : whens[i] \in Seq(Expressions)
      BY <2>1, <2>2
    <3>2. whens \in [1 .. n -> Seq(Expressions)]
      <4>1. whens = [i \in 1 .. n |-> whens[i]]
        BY <2>0, <2>1, <2>w
      <4> QED BY <3>1, <4>1
    <3> QED BY <2>1, <3>2
  <2>4. all \in Seq(Expressions) /\ ToSet(all) = UNION {ToSet(whens[k]) : k \in DOMAIN whens}
    BY <2>3, <2>w, ConcatList
  <2>5. conds \in [1 .. n -> Expressions] /\ results \in [1 .. n -> Expressions]
    BY <2>1, <2>2, <2>w
  <2>6. /\ conds \in Seq(Expressions) /\ results \in Seq(Expressions)
        /\ ToSet(conds) = {whens[k][1] : k \in DOMAIN whens} /\ ToSet(results) = {whens[k][2] : k \in DOMAIN whens}
    <3>1. conds \in Seq(Expressions) /\ results \in Seq(Expressions)
      BY <2>1, <2>5
    <3> QED BY <2>1, <2>w, <3>1 DEF ToSet
  <2>a. PICK first, last : first = <<e.arg>> /\ last = <<e.default>>
    OBVIOUS
  <2>7. cs = first \o all \o last /\ Argument(e) = e.arg /\ Aside(e) = conds /\ Merged(e) = results \o last
    BY <1>5, <1>c, <2>a, <2>w DEF Argument, Aside, Merged, IsA, Children
  <2>8. e.arg \in Expressions /\ e.default \in Expressions
    BY <1>5, ExpressionsAssumption DEF WellFormed, IsA
  <2>9. /\ first \in Seq(Expressions) /\ last \in Seq(Expressions)
        /\ ToSet(first) = {e.arg} /\ ToSet(last) = {e.default}
    BY <2>8, <2>a DEF ToSet
  <2>b. PICK both : both = first \o all
    OBVIOUS
  <2>10. both \in Seq(Expressions) /\ ToSet(both) = {e.arg} \cup ToSet(all)
    BY <2>4, <2>9, <2>b, BothList
  <2>11. ToSet(cs) = {e.arg} \cup ToSet(all) \cup {e.default}
    <3>1. ToSet(both \o last) = ToSet(both) \cup ToSet(last)
      BY <2>9, <2>10, BothList
    <3> QED BY <2>7, <2>9, <2>10, <2>b, <3>1
  <2>12. Merged(e) \in Seq(Expressions) /\ ToSet(Merged(e)) = ToSet(results) \cup {e.default}
    <3>1. results \o last \in Seq(Expressions) /\ ToSet(results \o last) = ToSet(results) \cup ToSet(last)
      BY <2>6, <2>9, BothList
    <3> QED BY <2>7, <2>9, <3>1
  <2>13. ToSet(all) = ToSet(conds) \cup ToSet(results)
    <3>1. \A k \in DOMAIN whens : ToSet(whens[k]) = {whens[k][1], whens[k][2]}
      BY <2>1, <2>2
    <3> QED BY <2>4, <2>6, <3>1
  <2> QED BY <1>1, <1>c, <2>6, <2>7, <2>8, <2>11, <2>12, <2>13
<1> QED BY <1>2, <1>3, <1>4, <1>5

\* The context of an expression that has passed: what is below has passed, too,
\* and a safe collation is that of a column, or of what is merged, or comes from
\* the CASE around a CaseTest.
SafeFrom(e, glob, case, ctx) ==
  \/ IsA(e, "Var") /\ e.varno \in glob.relids /\ e.coll = ctx.coll
  \/ IsA(e, "CaseTest") /\ case.st = SAFE /\ case.coll = ctx.coll
  \/ \E c \in ToSet(Merged(e)) : Walk(c, glob, case).st = SAFE /\ Walk(c, glob, case).coll = ctx.coll
InputFrom(e, glob, case) ==
  \E c \in ToSet(Merged(e)) : Walk(c, glob, case).st = SAFE /\ Walk(c, glob, case).coll = e.incoll
Collating == {"Op", "Distinct", "Func", "ScalarArray", "Aggref"}

LEMMA WalkNothing ==
  ASSUME NEW glob \in Globs, NEW case \in Cases
  PROVE  Walk(NoExpr, glob, case) = Empty
BY ExpressionsAssumption, WalkAssumption DEF foreign_expr_walker

LEMMA DerivedPassed ==
  ASSUME NEW coll, NEW c, c.ok \in BOOLEAN, NEW d, d = Derived(coll, c), d.ok
  PROVE  c.ok /\ (d.st = SAFE => d = c)
<1>1. c.ok
  <2>1. ~c.ok => d = Fail
    BY DEF Derived
  <2> QED BY <2>1 DEF Fail
<1>2. CASE coll = "none"
  <2>1. d = Empty
    BY <1>1, <1>2 DEF Derived
  <2> QED BY <1>1, <2>1 DEF Empty, NONE, SAFE
<1>3. CASE coll # "none" /\ c.st = SAFE /\ coll = c.coll
  <2>1. d = c
    BY <1>1, <1>3 DEF Derived
  <2> QED BY <1>1, <2>1
<1>4. CASE coll # "none" /\ ~(c.st = SAFE /\ coll = c.coll)
  <2>1. d = [ok |-> TRUE, st |-> IF coll = "default" THEN NONE ELSE UNSAFE, coll |-> coll]
    BY <1>1, <1>4 DEF Derived
  <2>2. d.st \in {NONE, UNSAFE}
    BY <2>1
  <2> QED BY <1>1, <2>2 DEF NONE, SAFE, UNSAFE
<1> QED BY <1>2, <1>3, <1>4

LEMMA WalkPassed ==
  ASSUME NEW e \in Expressions, e # NoExpr, NEW glob \in Globs, NEW case \in Cases,
         NEW ctx, ctx = Walk(e, glob, case), ctx.ok, NEW arg, arg = Walk(Argument(e), glob, case)
  PROVE  /\ ctx \in Passing /\ arg \in Passing
         /\ \A c \in ToSet(Aside(e)) : Walk(c, glob, AsideCase(e, case, arg)).ok
         /\ \A c \in ToSet(Merged(e)) : Walk(c, glob, case).ok
         /\ ctx.st = SAFE => SafeFrom(e, glob, case, ctx)
         /\ e.tag \in Collating /\ e.incoll # "none" => InputFrom(e, glob, case)
<1>1. Argument(e) \in Expressions /\ Aside(e) \in Seq(Expressions) /\ Merged(e) \in Seq(Expressions)
  BY WalkedChildren
<1>2. PICK aside, merged :
        /\ aside = [i \in DOMAIN Aside(e) |-> Walk(Aside(e)[i], glob, AsideCase(e, case, arg))]
        /\ merged = [i \in DOMAIN Merged(e) |-> Walk(Merged(e)[i], glob, case)]
  OBVIOUS
<1>3. ctx = foreign_expr_walker(e, glob, case, arg, aside, merged)
  BY <1>2, WalkAssumption
<1>4. ctx \in Outcomes /\ arg \in Outcomes
  BY <1>1, WalkAssumption DEF Outcomes
<1>5. ctx \in Passing
  BY <1>4, OutcomeFacts
<1>i. PICK in : in = MergeAll(merged)
  OBVIOUS
<1>6. /\ arg.ok /\ (\A i \in DOMAIN aside : aside[i].ok)
      /\ ctx = WalkNode(e, in, glob, case)
  BY <1>3, <1>i DEF foreign_expr_walker, Checked, Fail
<1>7. arg \in Passing
  BY <1>4, <1>6, OutcomeFacts
<1>8. \A c \in ToSet(Aside(e)) : Walk(c, glob, AsideCase(e, case, arg)).ok
  BY <1>2, <1>6 DEF ToSet
<1>9. merged \in Seq(Outcomes) /\ DOMAIN merged = DOMAIN Merged(e)
  <2>1. DOMAIN Merged(e) = 1 .. Len(Merged(e)) /\ Len(Merged(e)) \in Nat /\ \A i \in DOMAIN Merged(e) : Merged(e)[i] \in Expressions
    BY <1>1
  <2>2. \A i \in DOMAIN Merged(e) : Walk(Merged(e)[i], glob, case) \in Outcomes
    BY <2>1, WalkAssumption DEF Outcomes
  <2>3. merged \in [1 .. Len(Merged(e)) -> Outcomes]
    BY <1>2, <2>1, <2>2
  <2> QED BY <2>1, <2>3
<1>10. /\ in \in Outcomes
       /\ in.ok => \A i \in DOMAIN merged : merged[i].ok
       /\ in.ok /\ in.st = SAFE => \E i \in DOMAIN merged : merged[i].ok /\ merged[i].st = SAFE /\ merged[i].coll = in.coll
  BY <1>9, <1>i, MergedPassed
<1>11. in.ok /\ in.st = SAFE =>
         \E c \in ToSet(Merged(e)) : Walk(c, glob, case).st = SAFE /\ Walk(c, glob, case).coll = in.coll
  BY <1>2, <1>9, <1>10 DEF ToSet
<1>12. in.ok => \A c \in ToSet(Merged(e)) : Walk(c, glob, case).ok
  BY <1>2, <1>9, <1>10 DEF ToSet
<1>o. in.ok \in BOOLEAN /\ case.ok \in BOOLEAN
  <2>1. in.ok \in BOOLEAN
    BY <1>10, OutcomeFacts
  <2>2. case.ok \in BOOLEAN
    <3>1. case = NoCtx \/ case \in Passing
      BY DEF Cases
    <3>2. NoCtx.ok \in BOOLEAN /\ \A c \in Passing : c.ok \in BOOLEAN
      BY DEF NoCtx, Passing
    <3> QED BY <3>1, <3>2
  <2> QED BY <2>1, <2>2
<1>13. CASE e.tag \in {"Func", "Op", "Distinct", "Aggref"}
  <2>1. ctx = Derived(e.coll, in) /\ SafeInput(e.incoll, in)
    <3>d. PICK d, safe : d = Derived(e.coll, in) /\ safe = SafeInput(e.incoll, in)
      OBVIOUS
    <3>0. safe \in BOOLEAN
      BY <3>d DEF SafeInput
    <3>1. CASE e.tag = "Func"
      <4>1. ctx = Checked(is_shippable(e.builtin) /\ isTranslatableFuncExpr(e) /\ safe, d)
        BY <1>6, <3>1, <3>d DEF WalkNode, WalkFunc
      <4> QED BY <3>0, <3>d, <4>1 DEF Checked, Fail
    <3>2. CASE e.tag \in {"Op", "Distinct"}
      <4>1. ctx = Checked(is_shippable(e.builtin) /\ isTranslatableOpExpr(e.name, e.left, e.right) /\ safe, d)
        BY <1>6, <3>2, <3>d DEF WalkNode, WalkOp
      <4> QED BY <3>0, <3>d, <4>1 DEF Checked, Fail
    <3>3. CASE e.tag = "Aggref"
      <4>1. ctx = Checked(glob.upper, WalkAggregate(e, db2AggregateInfo(e.name, e.kind), in))
        BY <1>6, <3>3 DEF WalkNode, WalkAggref
      <4>2. ctx = WalkAggregate(e, db2AggregateInfo(e.name, e.kind), in)
        BY <4>1 DEF Checked, Fail
      <4>3. PICK others \in BOOLEAN : ctx = Checked(others /\ safe, d)
        BY <4>2, <3>d DEF WalkAggregate
      <4> QED BY <3>0, <3>d, <4>3 DEF Checked, Fail
    <3> QED BY <1>13, <3>1, <3>2, <3>3
  <2>2. in.ok /\ (ctx.st = SAFE => ctx = in)
    BY <1>o, <2>1, DerivedPassed
  <2>3. e.incoll # "none" => in.st = SAFE /\ in.coll = e.incoll
    BY <2>1 DEF SafeInput
  <2>4. ctx.st = SAFE => SafeFrom(e, glob, case, ctx)
    BY <1>11, <2>2 DEF SafeFrom
  <2>5. e.incoll # "none" => InputFrom(e, glob, case)
    BY <1>11, <2>2, <2>3 DEF InputFrom
  <2> QED BY <1>5, <1>7, <1>8, <1>12, <2>2, <2>4, <2>5
<1>14. CASE e.tag = "ScalarArray"
  <2>1. ctx = Empty /\ SafeInput(e.incoll, in) /\ in.ok
    BY <1>5, <1>6, <1>14 DEF WalkNode, WalkScalarArray, Checked, Fail, Passing
  <2>2. ctx.st # SAFE
    BY <2>1 DEF Empty, NONE, SAFE
  <2>3. e.incoll # "none" => InputFrom(e, glob, case)
    BY <1>11, <2>1 DEF InputFrom, SafeInput
  <2> QED BY <1>5, <1>7, <1>8, <1>12, <2>1, <2>2, <2>3
<1>15. CASE e.tag \in {"Bool", "NullTest"}
  <2>1. ctx = Empty /\ in.ok
    BY <1>5, <1>6, <1>15 DEF WalkNode, Checked, Fail, Passing
  <2>2. ctx.st # SAFE
    BY <2>1 DEF Empty, NONE, SAFE
  <2> QED BY <1>5, <1>7, <1>8, <1>12, <1>15, <2>1, <2>2 DEF Collating
<1>16. CASE e.tag \in {"Relabel", "ArrayCoerce", "Array", "Case", "Subscripting"}
  <2>1. ctx = Derived(e.coll, in)
    BY <1>6, <1>16 DEF WalkNode
  <2>2. in.ok /\ (ctx.st = SAFE => ctx = in)
    BY <1>o, <2>1, DerivedPassed
  <2>4. ctx.st = SAFE => SafeFrom(e, glob, case, ctx)
    BY <1>11, <2>2 DEF SafeFrom
  <2> QED BY <1>5, <1>7, <1>8, <1>12, <1>16, <2>2, <2>4 DEF Collating
<1>17. CASE e.tag \in {"Var", "Const", "Param", "CaseTest"}
  <2>1. Merged(e) = <<>>
    BY <1>17 DEF Merged, Children, IsA
  <2>2. ToSet(Merged(e)) = {}
    BY <2>1 DEF ToSet
  <2>6. ctx.st = SAFE => SafeFrom(e, glob, case, ctx)
    <3> SUFFICES ASSUME ctx.st = SAFE PROVE SafeFrom(e, glob, case, ctx)
      OBVIOUS
    <3>1. CASE e.tag = "Var"
      <4>1. ctx = WalkVar(e, glob)
        BY <1>6, <3>1 DEF WalkNode
      <4>2. e.varno \in glob.relids /\ e.coll = ctx.coll
        BY <4>1 DEF WalkVar, Checked, Fail, NONE, SAFE, UNSAFE
      <4> QED BY <3>1, <4>2 DEF SafeFrom, IsA
    <3>2. CASE e.tag \in {"Const", "Param"}
      <4>1. ctx = WalkConst(e) \/ ctx = WalkParam(e)
        BY <1>6, <3>2 DEF WalkNode
      <4>2. ctx.st # SAFE
        BY <4>1 DEF WalkConst, WalkParam, Checked, Fail, NONE, SAFE, UNSAFE
      <4> QED BY <4>2
    <3>3. CASE e.tag = "CaseTest"
      <4>1. ctx = Checked(case # NoCtx, Derived(e.coll, case))
        BY <1>6, <3>3 DEF WalkNode, WalkCaseTest
      <4>2. ctx = Derived(e.coll, case)
        BY <4>1 DEF Checked, Fail
      <4>3. ctx = case
        BY <1>o, <4>2, DerivedPassed
      <4> QED BY <3>3, <4>3 DEF SafeFrom, IsA
    <3> QED BY <1>17, <3>1, <3>2, <3>3
  <2> QED BY <1>5, <1>7, <1>8, <1>17, <2>2, <2>6 DEF Collating
<1>18. e.tag \in {"Func", "Op", "Distinct", "Aggref", "ScalarArray", "Bool", "NullTest", "Relabel", "ArrayCoerce", "Array",
                  "Case", "Subscripting", "Var", "Const", "Param", "CaseTest"}
  <2>1. SUFFICES ASSUME e.tag \notin {"Func", "Op", "Distinct", "Aggref", "ScalarArray", "Bool", "NullTest", "Relabel", "ArrayCoerce", "Array",
                  "Case", "Subscripting", "Var", "Const", "Param", "CaseTest"} PROVE FALSE
    OBVIOUS
  <2>2. ctx = Fail
    BY <1>6, <2>1 DEF WalkNode
  <2> QED BY <2>2 DEF Fail
<1> QED BY <1>13, <1>14, <1>15, <1>16, <1>17, <1>18

ColumnIn(glob, coll, e) == \E v \in ToSet(Nodes(e)) : IsA(v, "Var") /\ v.varno \in glob.relids /\ v.coll = coll
HasCaseTest(e) == \E n \in ToSet(Nodes(e)) : IsA(n, "CaseTest")

\* A safe collation is that of a column below, or comes from the CASE around.
SafeTraced(e, glob, case) ==
  Walk(e, glob, case).ok /\ Walk(e, glob, case).st = SAFE =>
    \/ ColumnIn(glob, Walk(e, glob, case).coll, e)
    \/ HasCaseTest(e) /\ case.st = SAFE /\ case.coll = Walk(e, glob, case).coll
LEMMA SafeHasColumn ==
  ASSUME NEW glob \in Globs, NEW case \in Cases
  PROVE  \A e \in Expressions : SafeTraced(e, glob, case)
<1> DEFINE D == {e \in Expressions : ~SafeTraced(e, glob, case)}
<1>1. D = {}
  <2> SUFFICES ASSUME D # {} PROVE FALSE
    OBVIOUS
  <2>1. PICK e \in D : \A d \in D : ~(Size(d) < Size(e))
    BY LeastExpression
  <2>2. e \in Expressions /\ ~SafeTraced(e, glob, case)
    OBVIOUS
  <2>c. PICK ctx, arg : ctx = Walk(e, glob, case) /\ arg = Walk(Argument(e), glob, case)
    OBVIOUS
  <2>3. /\ ctx.ok /\ ctx.st = SAFE /\ ~ColumnIn(glob, ctx.coll, e)
        /\ ~(HasCaseTest(e) /\ case.st = SAFE /\ case.coll = ctx.coll)
    BY <2>2, <2>c DEF SafeTraced
  <2>4. e # NoExpr
    BY <2>3, <2>c, WalkNothing DEF Empty, NONE, SAFE
  <2>5. SafeFrom(e, glob, case, ctx) /\ \A c \in ToSet(Merged(e)) : Walk(c, glob, case).ok
    BY <2>2, <2>3, <2>4, <2>c, WalkPassed
  <2>6. e \in ToSet(Nodes(e))
    BY <2>2, <2>4, NodesSplit
  <2>7. PICK c \in ToSet(Merged(e)) : Walk(c, glob, case).st = SAFE /\ Walk(c, glob, case).coll = ctx.coll
    BY <2>3, <2>5, <2>6 DEF SafeFrom, ColumnIn, HasCaseTest
  <2>8. c \in ToSet(Children(e))
    BY <2>2, <2>4, WalkedChildren
  <2>9. c \in Expressions /\ ToSet(Nodes(c)) \subseteq ToSet(Nodes(e)) /\ Size(c) < Size(e)
    BY <2>2, <2>4, <2>8, NodesSplit
  <2>10. SafeTraced(c, glob, case)
    BY <2>1, <2>9
  <2>11. ColumnIn(glob, ctx.coll, c) \/ (HasCaseTest(c) /\ case.st = SAFE /\ case.coll = ctx.coll)
    BY <2>5, <2>7, <2>10 DEF SafeTraced
  <2> QED BY <2>3, <2>9, <2>11 DEF ColumnIn, HasCaseTest
<1> QED BY <1>1

\* Every node of what has passed has passed, in some context.
LEMMA NodesPassed ==
  ASSUME NEW glob \in Globs, NEW e \in Expressions, NEW case \in Cases, Walk(e, glob, case).ok
  PROVE  \A n \in ToSet(Nodes(e)) : n # NoExpr /\ \E c \in Cases : Walk(n, glob, c).ok
<1> DEFINE AllPassed(d) ==
             \A k \in Cases : Walk(d, glob, k).ok =>
               \A n \in ToSet(Nodes(d)) : n # NoExpr /\ \E c \in Cases : Walk(n, glob, c).ok
           D == {d \in Expressions : ~AllPassed(d)}
<1>1. D = {}
  <2> SUFFICES ASSUME D # {} PROVE FALSE
    OBVIOUS
  <2>1. PICK d \in D : \A c \in D : ~(Size(c) < Size(d))
    BY LeastExpression
  <2>2. d \in Expressions /\ ~AllPassed(d)
    OBVIOUS
  <2>3. PICK k \in Cases, n \in ToSet(Nodes(d)) :
          Walk(d, glob, k).ok /\ ~(n # NoExpr /\ \E c \in Cases : Walk(n, glob, c).ok)
    BY <2>2
  <2>4. d # NoExpr
    BY <2>3, NothingBelow
  <2>c. PICK ctx, arg : ctx = Walk(d, glob, k) /\ arg = Walk(Argument(d), glob, k)
    OBVIOUS
  <2>5. /\ arg \in Passing /\ arg.ok
        /\ \A c \in ToSet(Aside(d)) : Walk(c, glob, AsideCase(d, k, arg)).ok
        /\ \A c \in ToSet(Merged(d)) : Walk(c, glob, k).ok
    <3>1. /\ arg \in Passing
          /\ \A c \in ToSet(Aside(d)) : Walk(c, glob, AsideCase(d, k, arg)).ok
          /\ \A c \in ToSet(Merged(d)) : Walk(c, glob, k).ok
      BY <2>2, <2>3, <2>4, <2>c, WalkPassed
    <3> QED BY <3>1 DEF Passing
  <2>6. AsideCase(d, k, arg) \in Cases
    BY <2>5 DEF AsideCase, Cases
  <2>7. n # d
    BY <2>2, <2>3, <2>4
  <2>8. PICK c \in ToSet(Children(d)) : n \in ToSet(Nodes(c))
    BY <2>2, <2>3, <2>4, <2>7, NodesSplit
  <2>9. c \in Expressions /\ Size(c) < Size(d)
    BY <2>2, <2>4, <2>8, NodesSplit
  <2>10. AllPassed(c)
    BY <2>1, <2>9
  <2>11. c = Argument(d) \/ c \in ToSet(Aside(d)) \/ c \in ToSet(Merged(d))
    BY <2>2, <2>4, <2>8, WalkedChildren
  <2>12. \E kk \in Cases : Walk(c, glob, kk).ok
    BY <2>5, <2>6, <2>11, <2>c
  <2> QED BY <2>3, <2>8, <2>10, <2>12
<1> QED BY <1>1

\* The input collation of what has passed is that of a column below; where it is
\* not, it comes from the argument of a CASE, and from a column of that.
InputTraced(n, e, glob, case) ==
  \/ ColumnIn(glob, n.incoll, n)
  \/ HasCaseTest(n) /\ (ColumnIn(glob, n.incoll, e) \/ (case.st = SAFE /\ case.coll = n.incoll))
AllTraced(e, glob) ==
  \A case \in Cases : Walk(e, glob, case).ok =>
    \A n \in ToSet(Nodes(e)) : n.tag \in Collating /\ n.incoll # "none" => InputTraced(n, e, glob, case)
LEMMA InputsHaveColumns ==
  ASSUME NEW glob \in Globs
  PROVE  \A e \in Expressions : AllTraced(e, glob)
<1> DEFINE D == {e \in Expressions : ~AllTraced(e, glob)}
<1>1. D = {}
  <2> SUFFICES ASSUME D # {} PROVE FALSE
    OBVIOUS
  <2>1. PICK e \in D : \A d \in D : ~(Size(d) < Size(e))
    BY LeastExpression
  <2>2. e \in Expressions /\ ~AllTraced(e, glob)
    OBVIOUS
  <2>3. PICK case \in Cases, n \in ToSet(Nodes(e)) :
          Walk(e, glob, case).ok /\ n.tag \in Collating /\ n.incoll # "none" /\ ~InputTraced(n, e, glob, case)
    BY <2>2 DEF AllTraced
  <2>4. e # NoExpr
    BY <2>3, NothingBelow
  <2>c. PICK ctx, arg : ctx = Walk(e, glob, case) /\ arg = Walk(Argument(e), glob, case)
    OBVIOUS
  <2>5. /\ arg \in Passing
        /\ \A c \in ToSet(Aside(e)) : Walk(c, glob, AsideCase(e, case, arg)).ok
        /\ \A c \in ToSet(Merged(e)) : Walk(c, glob, case).ok
        /\ e.tag \in Collating /\ e.incoll # "none" => InputFrom(e, glob, case)
    BY <2>2, <2>3, <2>4, <2>c, WalkPassed
  <2>p. arg.ok
    BY <2>5 DEF Passing
  <2>6. \A c \in ToSet(Children(e)) :
          c \in Expressions /\ ToSet(Nodes(c)) \subseteq ToSet(Nodes(e)) /\ Size(c) < Size(e)
    BY <2>2, <2>4, NodesSplit
  <2>7. /\ Argument(e) \in ToSet(Children(e)) \cup {NoExpr} /\ ToSet(Merged(e)) \subseteq ToSet(Children(e))
        /\ \A c \in ToSet(Children(e)) : c = Argument(e) \/ c \in ToSet(Aside(e)) \/ c \in ToSet(Merged(e))
    BY <2>2, <2>4, WalkedChildren
  <2>8. CASE n = e
    <3>1. PICK c \in ToSet(Merged(e)) : Walk(c, glob, case).st = SAFE /\ Walk(c, glob, case).coll = n.incoll
      BY <2>3, <2>5, <2>8 DEF InputFrom
    <3>2. c \in Expressions /\ ToSet(Nodes(c)) \subseteq ToSet(Nodes(e))
      BY <2>6, <2>7
    <3>3. SafeTraced(c, glob, case)
      BY <3>2, SafeHasColumn
    <3>4. ColumnIn(glob, n.incoll, c) \/ (HasCaseTest(c) /\ case.st = SAFE /\ case.coll = n.incoll)
      BY <2>5, <3>1, <3>3 DEF SafeTraced
    <3>5. InputTraced(n, e, glob, case)
      BY <2>8, <3>2, <3>4 DEF InputTraced, ColumnIn, HasCaseTest
    <3> QED BY <2>3, <3>5
  <2>9. CASE n # e
    <3>1. PICK c \in ToSet(Children(e)) : n \in ToSet(Nodes(c))
      BY <2>2, <2>3, <2>4, <2>9, NodesSplit
    <3>2. AllTraced(c, glob)
      BY <2>1, <2>6
    <3>3. c \in Expressions /\ ToSet(Nodes(c)) \subseteq ToSet(Nodes(e))
      BY <2>6
    <3>4. \A k \in Cases : Walk(c, glob, k).ok => InputTraced(n, c, glob, k)
      BY <2>3, <3>1, <3>2 DEF AllTraced
    <3>5. \A k : InputTraced(n, c, glob, k) => InputTraced(n, e, glob, k)
      BY <3>3 DEF InputTraced, ColumnIn
    <3>6. CASE c = Argument(e) \/ c \in ToSet(Merged(e))
      BY <2>3, <2>5, <2>c, <2>p, <3>4, <3>5, <3>6
    <3>7. CASE c \in ToSet(Aside(e))
      <4>1. AsideCase(e, case, arg) \in Cases
        BY <2>5 DEF AsideCase, Cases
      <4>2. InputTraced(n, e, glob, AsideCase(e, case, arg))
        BY <2>5, <3>4, <3>5, <3>7, <4>1
      <4>3. CASE ~IsA(e, "Case")
        BY <2>3, <4>2, <4>3 DEF AsideCase
      <4>4. CASE IsA(e, "Case")
        <5>1. InputTraced(n, e, glob, arg)
          BY <4>2, <4>4 DEF AsideCase
        <5>2. PICK a : a = Argument(e)
          OBVIOUS
        <5>3. a \in Expressions /\ ToSet(Nodes(a)) \subseteq ToSet(Nodes(e))
          BY <2>6, <2>7, <5>2, NothingBelow, ExpressionsAssumption
        <5>4. SafeTraced(a, glob, case)
          BY <5>3, SafeHasColumn
        <5>5. arg.st = SAFE => ColumnIn(glob, arg.coll, e) \/ (case.st = SAFE /\ case.coll = arg.coll)
          BY <2>c, <2>p, <5>2, <5>3, <5>4 DEF SafeTraced, ColumnIn
        <5>6. InputTraced(n, e, glob, case)
          BY <5>1, <5>5 DEF InputTraced
        <5> QED BY <2>3, <5>6
      <4> QED BY <4>3, <4>4
    <3> QED BY <2>7, <3>6, <3>7
  <2> QED BY <2>8, <2>9
<1> QED BY <1>1

(***************************************************************************)
(* Operators and functions that have passed can be printed.                *)
(***************************************************************************)
LEMMA WrapWhole ==
  ASSUME NEW kw, kw # "", NEW each, each.ok
  PROVE  ~IsNothing(Wrap(kw, each).txt)
BY DEF Wrap, Text, IsNothing

LEMMA EachWhole ==
  ASSUME NEW rs, \A i \in DOMAIN rs : ~IsNothing(rs[i].txt)
  PROVE  Each(rs).ok
BY DEF Each

LEMMA OperatorNamed ==
  ASSUME NEW name, NEW left, NEW right, isTranslatableOpExpr(name, left, right)
  PROVE  DB2Operator(name) # "" /\ canHandleType(right)
<1>1. canHandleType(right) /\ name # ""
  BY DEF isTranslatableOpExpr
<1>2. CASE name \in {"~~", "!~~", "~~*", "!~~*", "^", "%", "&", "|/", "@"}
  <2>1. DB2Operator(name) \in {"LIKE", "NOT LIKE", "UPPER LIKE", "UPPER NOT LIKE", "POWER", "MOD", "BITAND", "SQRT", "ABS"}
    BY <1>2 DEF DB2Operator
  <2> QED BY <1>1, <2>1
<1>3. CASE name \notin {"~~", "!~~", "~~*", "!~~*", "^", "%", "&", "|/", "@"}
  <2>1. DB2Operator(name) = name
    BY <1>3 DEF DB2Operator
  <2> QED BY <1>1, <2>1
<1> QED BY <1>2, <1>3

LEMMA FunctionNamed ==
  ASSUME NEW name, name # ""
  PROVE  DB2Function(name) # ""
<1>1. CASE name \in {"ceiling", "char_length", "character_length", "pow", "octet_length", "position", "strpos", "substring"}
  <2>1. DB2Function(name) \in {"CEIL", "LENGTH", "POWER", "LENGTHB", "INSTR", "SUBSTR"}
    BY <1>1 DEF DB2Function
  <2> QED BY <2>1
<1>2. CASE name \notin {"ceiling", "char_length", "character_length", "pow", "octet_length", "position", "strpos", "substring"}
  <2>1. DB2Function(name) = name
    BY <1>2 DEF DB2Function
  <2> QED BY <2>1
<1> QED BY <1>1, <1>2

\* What the walker has asked of an operator or a function.
LEMMA OperatorPassed ==
  ASSUME NEW e \in Expressions, e # NoExpr, NEW glob \in Globs, NEW case \in Cases, Walk(e, glob, case).ok
  PROVE  /\ e.tag \in {"Op", "Distinct"} => e.builtin /\ isTranslatableOpExpr(e.name, e.left, e.right)
         /\ e.tag = "Func" => isTranslatableFuncExpr(e)
<1>c. PICK ctx, arg : ctx = Walk(e, glob, case) /\ arg = Walk(Argument(e), glob, case)
  OBVIOUS
<1>2. PICK aside, merged :
        /\ aside = [i \in DOMAIN Aside(e) |-> Walk(Aside(e)[i], glob, AsideCase(e, case, arg))]
        /\ merged = [i \in DOMAIN Merged(e) |-> Walk(Merged(e)[i], glob, case)]
  OBVIOUS
<1>3. ctx = foreign_expr_walker(e, glob, case, arg, aside, merged)
  BY <1>c, <1>2, WalkAssumption
<1>i. PICK in : in = MergeAll(merged)
  OBVIOUS
<1>4. ctx.ok /\ ctx = WalkNode(e, in, glob, case)
  BY <1>3, <1>c, <1>i DEF foreign_expr_walker, Checked, Fail
<1>d. PICK d, safe : d = Derived(e.coll, in) /\ safe = SafeInput(e.incoll, in)
  OBVIOUS
<1>5. CASE e.tag \in {"Op", "Distinct"}
  <2>1. ctx = Checked(is_shippable(e.builtin) /\ isTranslatableOpExpr(e.name, e.left, e.right) /\ safe, d)
    BY <1>4, <1>5, <1>d DEF WalkNode, WalkOp
  <2>2. is_shippable(e.builtin) /\ isTranslatableOpExpr(e.name, e.left, e.right)
    BY <1>4, <2>1 DEF Checked, Fail
  <2> QED BY <1>5, <2>2 DEF is_shippable
<1>6. CASE e.tag = "Func"
  <2>1. ctx = Checked(is_shippable(e.builtin) /\ isTranslatableFuncExpr(e) /\ safe, d)
    BY <1>4, <1>6, <1>d DEF WalkNode, WalkFunc
  <2>2. isTranslatableFuncExpr(e)
    BY <1>4, <2>1 DEF Checked, Fail
  <2> QED BY <1>6, <2>2
<1> QED BY <1>5, <1>6

LEMMA OperatorsText ==
  ASSUME NEW e \in Expressions, e # NoExpr, NEW glob \in Globs, NEW case \in Cases, Walk(e, glob, case).ok,
         e.tag \in {"Op", "Distinct", "Func"}, NEW relids \in SUBSET Bases,
         \A k \in DOMAIN e.args : ~IsNothing(Render(e.args[k], relids).txt)
  PROVE  ~IsNothing(Render(e, relids).txt)
<1>a. PICK args : args = e.args
  OBVIOUS
<1>1. Operands(e) = args /\ Children(e) = args
  BY <1>a DEF Operands, Children, IsA
<1>2. args \in Seq(Expressions)
  BY <1>1, ExpressionsAssumption
<1>r. PICK rs : rs = [i \in DOMAIN args |-> Render(args[i], relids)]
  OBVIOUS
<1>3. DOMAIN rs = DOMAIN args /\ \A i \in DOMAIN rs : ~IsNothing(rs[i].txt)
  BY <1>a, <1>r
<1>t. PICK res : res = Render(e, relids)
  OBVIOUS
<1>4. res = deparseExpr(e, rs, relids)
  BY <1>1, <1>r, <1>t, RenderAssumption
<1>h. PICK each : each = Each(rs)
  OBVIOUS
<1>5. each.ok
  BY <1>3, <1>h, EachWhole
<1>6. CASE e.tag \in {"Op", "Distinct"}
  <2>1. e.builtin /\ isTranslatableOpExpr(e.name, e.left, e.right)
    BY <1>6, OperatorPassed
  <2>n. PICK name, left, right : name = e.name /\ left = e.left /\ right = e.right
    OBVIOUS
  <2>2. DB2Operator(name) # "" /\ canHandleType(right)
    BY <2>1, <2>n, OperatorNamed
  <2>k. PICK kw : kw = IF e.tag = "Op" THEN DB2Operator(name) ELSE "IS DISTINCT FROM"
    OBVIOUS
  <2>3. kw # ""
    BY <2>2, <2>k
  <2>4. res = Wrap(kw, each)
    <3>1. CASE e.tag = "Op"
      <4>1. res = RenderOp(e, rs)
        BY <1>4, <3>1 DEF deparseExpr
      <4> QED BY <1>h, <2>1, <2>k, <2>n, <3>1, <4>1 DEF RenderOp
    <3>2. CASE e.tag = "Distinct"
      <4>1. res = RenderDistinct(e, rs)
        BY <1>4, <3>2 DEF deparseExpr
      <4> QED BY <1>h, <2>2, <2>k, <2>n, <3>2, <4>1 DEF RenderDistinct
    <3> QED BY <1>6, <3>1, <3>2
  <2>5. ~IsNothing(Wrap(kw, each).txt)
    BY <1>5, <2>3, WrapWhole
  <2> QED BY <1>t, <2>4, <2>5
<1>7. CASE e.tag = "Func"
  <2>1. isTranslatableFuncExpr(e)
    BY <1>7, OperatorPassed
  <2>2. res = RenderFunc(e, rs)
    BY <1>4, <1>7 DEF deparseExpr
  <2>3. CASE e.form = "implicit"
    <3>1. res = rs[1]
      BY <2>1, <2>2, <2>3 DEF RenderFunc
    <3>2. args # <<>>
      BY <1>7, <1>a, <2>3, ExpressionsAssumption DEF WellFormed, IsA
    <3>3. 1 \in DOMAIN rs
      BY <1>2, <1>3, <3>2
    <3> QED BY <1>3, <1>t, <3>1, <3>3
  <2>4. CASE e.form # "implicit" /\ e.name = "translate"
    <3>1. res = RenderTranslate(rs)
      BY <2>1, <2>2, <2>4 DEF RenderFunc
    <3>2. Len(e.args) = 3
      BY <2>1, <2>4 DEF isTranslatableFuncExpr, isTranslatableNormalFunction
    <3>3. \A i \in 1 .. 3 : i \in DOMAIN rs
      BY <1>2, <1>3, <1>a, <3>2
    <3>e. PICK three : three = [ok    |-> \A i \in 1..3 : ~IsNothing(rs[i].txt),
                     parts |-> <<rs[1].txt, rs[3].txt, rs[2].txt>>,
                     seen  |-> rs[1].seen \o rs[2].seen \o rs[3].seen]
      OBVIOUS
    <3>4. three.ok
      BY <1>3, <3>3, <3>e
    <3>k. PICK kw : kw = "TRANSLATE"
      OBVIOUS
    <3>5. res = Wrap(kw, three)
      BY <3>1, <3>e, <3>k DEF RenderTranslate
    <3>6. ~IsNothing(Wrap(kw, three).txt)
      BY <3>4, <3>k, WrapWhole
    <3> QED BY <1>t, <3>5, <3>6
  <2>5. CASE e.form # "implicit" /\ e.name \in {"now", "transaction_timestamp"}
    <3>1. res = Rendered(Leaf(":now", e))
      BY <2>1, <2>2, <2>5 DEF RenderFunc
    <3>2. res.txt.kw = ":now"
      BY <3>1 DEF Rendered, Leaf
    <3> QED BY <1>t, <3>2 DEF IsNothing
  <2>6. CASE e.form # "implicit" /\ e.name \notin {"translate", "now", "transaction_timestamp"}
    <3>n. PICK name, kw : name = e.name /\ kw = IF e.name = "date_part" THEN "EXTRACT" ELSE DB2Function(e.name)
      OBVIOUS
    <3>1. res = Wrap(kw, each)
      BY <1>h, <2>1, <2>2, <2>6, <3>n DEF RenderFunc
    <3>2. name # ""
      BY <2>1, <2>6, <3>n DEF isTranslatableFuncExpr, isTranslatableNormalFunction
    <3>3. DB2Function(name) # ""
      BY <3>2, FunctionNamed
    <3>4. kw # ""
      BY <3>3, <3>n
    <3>5. ~IsNothing(Wrap(kw, each).txt)
      BY <1>5, <3>4, WrapWhole
    <3> QED BY <1>t, <3>1, <3>5
  <2> QED BY <2>3, <2>4, <2>5, <2>6
<1> QED BY <1>6, <1>7

(***************************************************************************)
(* What a pushed down grouping selects.                                    *)
(***************************************************************************)
\* The columns and aggregates of an expression are expressions.
LEMMA AggregatesList ==
  \A e \in Expressions : pull_var_and_aggregates(e) \in Seq(Expressions)
<1> DEFINE D == {e \in Expressions : pull_var_and_aggregates(e) \notin Seq(Expressions)}
<1>1. D = {}
  <2> SUFFICES ASSUME D # {} PROVE FALSE
    OBVIOUS
  <2>1. PICK e \in D : \A d \in D : ~(Size(d) < Size(e))
    BY LeastExpression
  <2>2. e \in Expressions /\ pull_var_and_aggregates(e) \notin Seq(Expressions)
    OBVIOUS
  <2>c. PICK cs, below : cs = Children(e) /\ below = [i \in DOMAIN Children(e) |-> pull_var_and_aggregates(Children(e)[i])]
    OBVIOUS
  <2>3. pull_var_and_aggregates(e) = VarsAndAggregates(e, below)
    BY <2>2, <2>c, ExpressionsAssumption
  <2>4. CASE e = NoExpr
    <3>1. pull_var_and_aggregates(e) = <<>>
      BY <2>3, <2>4 DEF VarsAndAggregates
    <3> QED BY <2>2, <3>1
  <2>5. CASE e # NoExpr /\ e.tag \in {"Var", "Aggref"}
    <3>1. pull_var_and_aggregates(e) = <<e>>
      BY <2>3, <2>5 DEF VarsAndAggregates
    <3> QED BY <2>2, <3>1
  <2>6. CASE e # NoExpr /\ e.tag \notin {"Var", "Aggref"}
    <3>1. pull_var_and_aggregates(e) = Concat(below)
      BY <2>3, <2>6 DEF VarsAndAggregates
    <3>2. cs \in Seq(Expressions) /\ \A c \in ToSet(cs) : c \in Expressions /\ Size(c) < Size(e)
      BY <2>2, <2>6, <2>c, NodesSplit
    <3>3. \A c \in ToSet(cs) : pull_var_and_aggregates(c) \in Seq(Expressions)
      BY <2>1, <3>2
    <3>4. DOMAIN cs = 1 .. Len(cs) /\ Len(cs) \in Nat /\ \A i \in DOMAIN cs : cs[i] \in ToSet(cs)
      BY <3>2 DEF ToSet
    <3>5. below \in [1 .. Len(cs) -> Seq(Expressions)]
      BY <2>c, <3>3, <3>4
    <3>6. below \in Seq(Seq(Expressions))
      BY <3>4, <3>5
    <3>7. Concat(below) \in Seq(Expressions)
      BY <3>6, ConcatList
    <3> QED BY <2>2, <3>1, <3>7
  <2> QED BY <2>4, <2>5, <2>6
<1> QED BY <1>1

\* A list that the walker accepts as a whole has no member that it refuses.
LEMMA ListPassed ==
  ASSUME NEW es \in Seq(Expressions), NEW glob \in Globs, WalkList(es, glob, NoCtx).ok
  PROVE  \A e \in ToSet(es) : Walk(e, glob, NoCtx).ok
<1>c. PICK cs : cs = [i \in DOMAIN es |-> Walk(es[i], glob, NoCtx)]
  OBVIOUS
<1>1. DOMAIN es = 1 .. Len(es) /\ Len(es) \in Nat /\ \A i \in DOMAIN es : es[i] \in Expressions
  OBVIOUS
<1>2. NoCtx \in Cases
  BY DEF Cases
<1>3. \A i \in DOMAIN es : Walk(es[i], glob, NoCtx) \in Outcomes
  BY <1>1, <1>2, WalkAssumption DEF Outcomes
<1>4. cs \in [1 .. Len(es) -> Outcomes]
  BY <1>c, <1>1, <1>3
<1>5. cs \in Seq(Outcomes)
  BY <1>1, <1>4
<1>m. PICK m : m = MergeAll(cs)
  OBVIOUS
<1>6. m.ok
  BY <1>c, <1>m DEF WalkList
<1>7. \A i \in DOMAIN cs : cs[i].ok
  BY <1>5, <1>6, <1>m, MergedPassed
<1> QED BY <1>c, <1>7 DEF ToSet

\* The parts of GroupedTlist.
RefOf(t) == t.ref # 0 /\ t.ref \in ToSet(query.groupClause)
WholeOf(known, g, e) == Ships(known, g, e) /\ ~is_foreign_param(Glob(known, g), e)
AggsOf(e) == Only(pull_var_and_aggregates(e), {n \in ToSet(pull_var_and_aggregates(e)) : IsA(n, "Aggref")})
PlainOf(es) == [k \in DOMAIN es |-> [expr |-> es[k], ref |-> 0]]
LocalOf(known, g) == Only(query.having, {e \in ToSet(query.having) : ~Ships(known, g, e)})
ColumnOf(known, g, t) ==
  IF RefOf(t) THEN <<t>> ELSE PlainOf(IF WholeOf(known, g, t.expr) THEN <<t.expr>> ELSE AggsOf(t.expr))
WantedOf(known, g) ==
  Concat([k \in DOMAIN query.grouped |-> ColumnOf(known, g, query.grouped[k])])
    \o Concat([k \in DOMAIN LocalOf(known, g) |-> PlainOf(AggsOf(LocalOf(known, g)[k]))])
LEMMA GroupedTlistParts ==
  ASSUME NEW known, NEW g
  PROVE  GroupedTlist(known, g) = Picked(WantedOf(known, g),
           {k \in DOMAIN WantedOf(known, g) : RefOf(WantedOf(known, g)[k]) \/ k \in FirstTimes(Exprs(WantedOf(known, g)))})
BY DEF GroupedTlist, WantedOf, ColumnOf, LocalOf, PlainOf, AggsOf, WholeOf, RefOf

\* Entries that may be selected.
Selectable(glob) ==
  {t \in ToSet(query.grouped) \cup [expr : Expressions, ref : {0}] :
     t.expr \in Expressions /\ Walk(t.expr, glob, NoCtx).ok}
LEMMA PlainSelectable ==
  ASSUME NEW glob, NEW es \in Seq(Expressions), \A e \in ToSet(es) : Walk(e, glob, NoCtx).ok
  PROVE  PlainOf(es) \in Seq(Selectable(glob))
<1>1. DOMAIN es = 1 .. Len(es) /\ Len(es) \in Nat /\ \A i \in DOMAIN es : es[i] \in Expressions /\ es[i] \in ToSet(es)
  BY DEF ToSet
<1>2. ASSUME NEW i \in DOMAIN es PROVE [expr |-> es[i], ref |-> 0] \in Selectable(glob)
  <2>e. PICK e : e = es[i]
    OBVIOUS
  <2>1. e \in Expressions /\ Walk(e, glob, NoCtx).ok
    BY <1>1, <2>e
  <2>2. [expr |-> e, ref |-> 0] \in [expr : Expressions, ref : {0}]
    BY <2>1
  <2> QED BY <2>e, <2>1, <2>2 DEF Selectable
<1>3. PlainOf(es) \in [1 .. Len(es) -> Selectable(glob)]
  BY <1>1, <1>2 DEF PlainOf
<1> QED BY <1>1, <1>3

LEMMA AggsList ==
  ASSUME NEW e \in Expressions
  PROVE  /\ AggsOf(e) \in Seq(Expressions)
         /\ ToSet(AggsOf(e)) = {n \in ToSet(pull_var_and_aggregates(e)) : IsA(n, "Aggref")}
<1>s. PICK s, S : s = pull_var_and_aggregates(e) /\ S = {n \in ToSet(pull_var_and_aggregates(e)) : IsA(n, "Aggref")}
  OBVIOUS
<1>1. s \in Seq(Expressions)
  BY <1>s, AggregatesList
<1>2. Only(s, S) \in Seq(Expressions) /\ ToSet(Only(s, S)) = ToSet(s) \cap S
  BY <1>1, OnlyList
<1>3. S \subseteq ToSet(s)
  BY <1>s
<1> QED BY <1>s, <1>2, <1>3 DEF AggsOf

\* What foreign_grouping_ok has asked of the output columns and of HAVING.
LEMMA GroupingAsked ==
  ASSUME NEW known, NEW glob, glob = Glob(known, 4), foreign_grouping_ok(known, 4)
  PROVE  /\ \A t \in ToSet(query.grouped) :
              \/ WholeOf(known, 4, t.expr)
              \/ ~RefOf(t) /\ WalkList(pull_var_and_aggregates(t.expr), glob, NoCtx).ok
         /\ \A e \in ToSet(query.having) : Ships(known, 4, e)
              \/ \A n \in ToSet(pull_var_and_aggregates(e)) : IsA(n, "Aggref") => Ships(known, 4, n)
BY DEF foreign_grouping_ok, WholeOf, RefOf

LEMMA ShipsPassed ==
  ASSUME NEW known, NEW g, NEW glob, glob = Glob(known, g), NEW e, Ships(known, g, e)
  PROVE  Walk(e, glob, NoCtx).ok
BY DEF Ships, is_foreign_expr, Accepted

LEMMA GroupedListPassed ==
  ASSUME query \in Queries, NEW known, NEW glob \in Globs, glob = Glob(known, 4), foreign_grouping_ok(known, 4),
         NEW list, list = GroupedTlist(known, 4)
  PROVE  IsList(list) /\ \A t \in ToSet(list) : t.expr \in Expressions /\ Walk(t.expr, glob, NoCtx).ok
<1>T. PICK T : T = Selectable(glob)
  OBVIOUS
<1>q. PICK grouped, having : grouped = query.grouped /\ having = query.having
  OBVIOUS
<1>1. /\ grouped \in Seq(ToSet(grouped)) /\ Exprs(grouped) \in Seq(Expressions) /\ having \in Seq(Expressions)
  <2>1. IsList(query.grouped) /\ Exprs(query.grouped) \in Seq(Expressions) /\ query.having \in Seq(Expressions)
    BY QueryFacts
  <2> QED BY <1>q, <2>1 DEF IsList
<1>2. DOMAIN grouped = 1 .. Len(grouped) /\ Len(grouped) \in Nat
  BY <1>1
<1>3. \A k \in DOMAIN grouped : grouped[k] \in ToSet(grouped) /\ grouped[k].expr \in Expressions
  <2>1. DOMAIN Exprs(grouped) = DOMAIN grouped /\ \A k \in DOMAIN grouped : Exprs(grouped)[k] = grouped[k].expr
    BY DEF Exprs
  <2>2. \A k \in DOMAIN grouped : Exprs(grouped)[k] \in Expressions
    BY <1>1, <2>1
  <2> QED BY <2>1, <2>2 DEF ToSet
<1>4. ASSUME NEW t, t \in ToSet(grouped), t.expr \in Expressions PROVE ColumnOf(known, 4, t) \in Seq(T)
  <2>e. PICK e : e = t.expr
    OBVIOUS
  <2>0. e \in Expressions
    BY <1>4, <2>e
  <2>1. WholeOf(known, 4, e) \/ (~RefOf(t) /\ WalkList(pull_var_and_aggregates(e), glob, NoCtx).ok)
    BY <1>4, <1>q, <2>e, GroupingAsked
  <2>2. WholeOf(known, 4, e) => Walk(e, glob, NoCtx).ok
    BY ShipsPassed DEF WholeOf
  <2>3. CASE RefOf(t)
    <3>1. Walk(e, glob, NoCtx).ok
      BY <2>1, <2>2, <2>3
    <3>2. t \in T
      BY <1>4, <1>q, <1>T, <2>e, <3>1 DEF Selectable
    <3>o. PICK one : one = <<t>>
      OBVIOUS
    <3>3. ColumnOf(known, 4, t) = one
      BY <2>3, <3>o DEF ColumnOf
    <3>4. one \in Seq(T)
      BY ONLY <3>o, <3>2
    <3> QED BY <3>3, <3>4
  <2>4. CASE ~RefOf(t) /\ WholeOf(known, 4, e)
    <3>o. PICK one : one = <<e>>
      OBVIOUS
    <3>1. ColumnOf(known, 4, t) = PlainOf(one)
      BY <2>4, <2>e, <3>o DEF ColumnOf
    <3>2. one \in Seq(Expressions) /\ \A x \in ToSet(one) : x = e
      BY <2>0, <3>o DEF ToSet
    <3>3. \A x \in ToSet(one) : Walk(x, glob, NoCtx).ok
      BY <2>2, <2>4, <3>2
    <3> QED BY <3>1, <3>2, <3>3, <1>T, PlainSelectable
  <2>5. CASE ~RefOf(t) /\ ~WholeOf(known, 4, e)
    <3>o. PICK aggs, all : aggs = AggsOf(e) /\ all = pull_var_and_aggregates(e)
      OBVIOUS
    <3>1. ColumnOf(known, 4, t) = PlainOf(aggs)
      BY <2>5, <2>e, <3>o DEF ColumnOf
    <3>2. aggs \in Seq(Expressions) /\ ToSet(aggs) = {n \in ToSet(all) : IsA(n, "Aggref")} /\ all \in Seq(Expressions)
      BY <2>0, <3>o, AggsList, AggregatesList
    <3>3. \A x \in ToSet(all) : Walk(x, glob, NoCtx).ok
      BY <2>1, <2>5, <3>2, <3>o, ListPassed
    <3>4. \A x \in ToSet(aggs) : Walk(x, glob, NoCtx).ok
      BY <3>2, <3>3
    <3> QED BY <3>1, <3>2, <3>4, <1>T, PlainSelectable
  <2> QED BY <2>3, <2>4, <2>5
<1>5. ASSUME NEW e \in ToSet(having), e \in Expressions, ~Ships(known, 4, e) PROVE PlainOf(AggsOf(e)) \in Seq(T)
  <2>o. PICK aggs : aggs = AggsOf(e)
    OBVIOUS
  <2>1. /\ aggs \in Seq(Expressions) /\ ToSet(aggs) = {n \in ToSet(pull_var_and_aggregates(e)) : IsA(n, "Aggref")}
    BY <1>5, <2>o, AggsList
  <2>2. \A x \in ToSet(aggs) : Ships(known, 4, x)
    BY <1>5, <1>q, <2>1, GroupingAsked
  <2>3. \A x \in ToSet(aggs) : Walk(x, glob, NoCtx).ok
    BY <2>2, ShipsPassed
  <2> QED BY <2>1, <2>3, <2>o, <1>T, PlainSelectable
<1>l. PICK local, S : local = LocalOf(known, 4) /\ S = {e \in ToSet(having) : ~Ships(known, 4, e)}
  OBVIOUS
<1>6. local \in Seq(Expressions) /\ ToSet(local) = ToSet(having) \cap S
  <2>1. local = Only(having, S)
    BY <1>l, <1>q DEF LocalOf
  <2>2. Only(having, S) \in Seq(Expressions) /\ ToSet(Only(having, S)) = ToSet(having) \cap S
    BY <1>1, OnlyList
  <2> QED BY <2>1, <2>2
<1>7. /\ DOMAIN local = 1 .. Len(local) /\ Len(local) \in Nat
      /\ \A k \in DOMAIN local : local[k] \in ToSet(local) /\ local[k] \in Expressions
  BY <1>6 DEF ToSet
<1>8. \A k \in DOMAIN local : PlainOf(AggsOf(local[k])) \in Seq(T)
  <2> SUFFICES ASSUME NEW k \in DOMAIN local PROVE PlainOf(AggsOf(local[k])) \in Seq(T)
    OBVIOUS
  <2>e. PICK e : e = local[k]
    OBVIOUS
  <2>1. e \in ToSet(having) /\ e \in Expressions /\ ~Ships(known, 4, e)
    BY <1>6, <1>7, <1>l, <2>e
  <2> QED BY <1>5, <2>1, <2>e
<1>c. PICK A, B : /\ A = [k \in DOMAIN grouped |-> ColumnOf(known, 4, grouped[k])]
                  /\ B = [k \in DOMAIN local |-> PlainOf(AggsOf(local[k]))]
  OBVIOUS
<1>9. A \in Seq(Seq(T)) /\ B \in Seq(Seq(T))
  <2>1. \A k \in DOMAIN grouped : ColumnOf(known, 4, grouped[k]) \in Seq(T)
    <3> SUFFICES ASSUME NEW k \in DOMAIN grouped PROVE ColumnOf(known, 4, grouped[k]) \in Seq(T)
      OBVIOUS
    <3>t. PICK t : t = grouped[k]
      OBVIOUS
    <3>1. t \in ToSet(grouped) /\ t.expr \in Expressions
      BY <1>3, <3>t
    <3> QED BY <1>4, <3>1, <3>t
  <2>2. A \in [1 .. Len(grouped) -> Seq(T)] /\ B \in [1 .. Len(local) -> Seq(T)]
    BY <1>2, <1>7, <1>8, <1>c, <2>1
  <2> QED BY <1>2, <1>7, <2>2
<1>d. PICK a, b, wanted : a = Concat(A) /\ b = Concat(B) /\ wanted = WantedOf(known, 4)
  OBVIOUS
<1>10. a \in Seq(T) /\ b \in Seq(T)
  BY <1>9, <1>d, ConcatList
<1>11. wanted = a \o b
  BY <1>c, <1>d, <1>l, <1>q DEF WantedOf
<1>12. wanted \in Seq(T)
  BY <1>10, <1>11
<1>e. PICK at : at = {k \in DOMAIN wanted : RefOf(wanted[k]) \/ k \in FirstTimes(Exprs(wanted))}
  OBVIOUS
<1>13. at \in SUBSET (1 .. Len(wanted))
  BY <1>12, <1>e
<1>14. list = Picked(wanted, at)
  BY <1>d, <1>e, GroupedTlistParts
<1>15. list \in Seq(T)
  <2>1. Picked(wanted, at) \in Seq(T)
    BY ONLY <1>12, <1>13, PickedList
  <2> QED BY ONLY <1>14, <2>1
<1>16. DOMAIN list = 1 .. Len(list) /\ Len(list) \in Nat /\ \A i \in DOMAIN list : list[i] \in T /\ list[i] \in ToSet(list)
  BY <1>15 DEF ToSet
<1>17. list \in [1 .. Len(list) -> ToSet(list)]
  BY <1>15, <1>16
<1>18. IsList(list)
  BY <1>16, <1>17 DEF IsList
<1>19. ToSet(list) \subseteq T
  BY <1>16 DEF ToSet
<1> QED BY <1>18, <1>19, <1>T DEF Selectable

\* Every other step leaves the grouping and the relation below it as they are.
LEMMA GroupingStays ==
  ASSUME PInv, [Next]_vars, ~UpperGrouping
  PROVE  Kept(4) /\ (rels[4] # NoRel => Kept(ScanTop(query))) /\ query' = query
<1>1. query \in Queries /\ GroupInv /\ ShapeInv /\ StagesInv /\ DOMAIN rels = 1 .. 8 /\ BaseInv
  BY DEF PInv, StagesInv, RelsInv, ShapeInv
<1>2. ASSUME NEW n \in 0 .. 8, n # 4, query' = query, n \in 1 .. 3 => ~rels[n].fdw.has,
             \A k \in 1 .. 8 : k # n => rels'[k] = rels[k]
      PROVE  Kept(4) /\ (rels[4] # NoRel => Kept(ScanTop(query)))
  <2>1. StepAt(n)
    BY <1>2, SameIsKept DEF StepAt
  <2>2. Kept(4)
    BY <1>2, <2>1 DEF StepAt
  <2> QED BY <1>1, <1>2, <2>1, <2>2, GroupKept
<1>3. ASSUME query' = query, \A k \in 1 .. 8 : Kept(k)
      PROVE  Kept(4) /\ (rels[4] # NoRel => Kept(ScanTop(query)))
  <2>1. ScanTop(query) \in 1 .. 3
    BY <1>1, TopFacts
  <2> QED BY <1>3, <2>1
<1>4. CASE \E r \in Bases : db2GetForeignRelSize(r)
  <2>1. PICK r \in Bases : db2GetForeignRelSize(r)
    BY <1>4
  <2>f. PICK fdw : rels' = [[rels EXCEPT ![r].fdw = [ZeroFdw EXCEPT !.cols = Columns[r]]] EXCEPT ![r].fdw = fdw]
    BY <2>1 DEF db2GetForeignRelSize
  <2>2. query' = query /\ ~rels[r].fdw.has
    BY <2>1 DEF db2GetForeignRelSize
  <2>3. r \in 0 .. 8 /\ r # 4
    BY DEF Bases
  <2>4. \A k \in 1 .. 8 : k # r => rels'[k] = rels[k]
    BY <1>1, <2>f
  <2> QED BY <1>2, <2>2, <2>3, <2>4
<1>5. CASE \E r \in Bases : db2GetForeignPaths(r)
  <2>1. PICK r \in Bases : db2GetForeignPaths(r)
    BY <1>5
  <2>p. PICK paths : rels' = [rels EXCEPT ![r].paths = paths]
    BY <2>1 DEF db2GetForeignPaths
  <2>2. query' = query /\ rels[r].fdw.has
    BY <2>1 DEF db2GetForeignPaths
  <2>3. r \in 1 .. 8 /\ DOMAIN rels[r] = DOMAIN NoRel
    BY <1>1 DEF Bases, ShapeInv
  <2>4. \A k \in 1 .. 8 : k # r => rels'[k] = rels[k]
    BY <1>1, <2>p
  <2>5. /\ rels'[r].fdw = rels[r].fdw /\ rels'[r].kind = rels[r].kind /\ rels'[r].relids = rels[r].relids
        /\ rels'[r].target = rels[r].target
    BY <1>1, <2>3, <2>p DEF NoRel
  <2>6. Kept(r)
    BY <2>2, <2>5 DEF Kept
  <2>7. \A k \in 1 .. 8 : Kept(k)
    BY <2>4, <2>6, SameIsKept
  <2> QED BY <1>3, <2>2, <2>7
<1>6. CASE \E o, i \in Bases : db2GetForeignJoinPaths(o, i)
  <2>1. PICK o \in Bases, i \in Bases : db2GetForeignJoinPaths(o, i)
    BY <1>6
  <2>r. PICK rel : rels' = [rels EXCEPT ![3] = rel]
    BY <2>1 DEF db2GetForeignJoinPaths, JoinRel
  <2>2. query' = query /\ ~rels[3].fdw.has
    BY <2>1 DEF db2GetForeignJoinPaths, JoinRel
  <2>3. \A k \in 1 .. 8 : k # 3 => rels'[k] = rels[k]
    BY <1>1, <2>r
  <2> QED BY <1>2, <2>2, <2>3
<1>7. CASE UpperNotHandled
  <2>1. query' = query /\ rels' = rels
    BY <1>7 DEF UpperNotHandled, NextStage
  <2> QED BY <1>3, <2>1, SameIsKept
<1>8. CASE UpperOrdered
  <2>1. query' = query
    BY <1>8 DEF UpperOrdered, NextStage
  <2>k. PICK known : known = Upper(top, "ORDERED", query.grouped)
    OBVIOUS
  <2>2. rels' = known \/ \E paths : rels' = [known EXCEPT ![7].fdw.pushdown_safe = TRUE, ![7].paths = paths]
    BY <1>8, <2>k, UpperRels DEF UpperOrdered
  <2>3. DOMAIN known = 1 .. 8 /\ \A k \in 1 .. 8 : k # 7 => known[k] = rels[k]
    BY <1>1, <2>k, UpperRels DEF Upper
  <2>4. \A k \in 1 .. 8 : k # 7 => rels'[k] = rels[k]
    BY <2>2, <2>3
  <2> QED BY <1>2, <2>1, <2>4
<1>9. CASE UpperFinal
  <2>1. query' = query
    BY <1>9 DEF UpperFinal, NextStage
  <2>k. PICK known : known = Upper(top, "FINAL", query.grouped)
    OBVIOUS
  <2>2. rels' = known \/ \E paths : rels' = [known EXCEPT ![8].fdw.pushdown_safe = TRUE, ![8].paths = paths]
    BY <1>9, <2>k, UpperRels DEF UpperFinal
  <2>3. DOMAIN known = 1 .. 8 /\ \A k \in 1 .. 8 : k # 8 => known[k] = rels[k]
    BY <1>1, <2>k, UpperRels DEF Upper
  <2>4. \A k \in 1 .. 8 : k # 8 => rels'[k] = rels[k]
    BY <2>2, <2>3
  <2> QED BY <1>2, <2>1, <2>4
<1>10. CASE db2GetForeignPlan
  <2>1. PICK path, tlist : Made(path, tlist)
    BY <1>10, PlanMade
  <2> QED BY <1>3, <2>1 DEF Made
<1>11. CASE db2PlanDirectModify
  <2>1. query' = query /\ rels' = rels
    BY <1>11 DEF db2PlanDirectModify
  <2> QED BY <1>3, <2>1, SameIsKept
<1>12. CASE UNCHANGED vars
  <2>1. query' = query /\ rels' = rels
    BY <1>12 DEF vars
  <2> QED BY <1>3, <2>1, SameIsKept
<1>13. query' = query
  BY <1>2, <1>4, <1>5, <1>6, <1>7, <1>8, <1>9, <1>10, <1>11, <1>12 DEF db2GetForeignRelSize, db2GetForeignPaths, db2GetForeignJoinPaths,
     UpperNotHandled, UpperOrdered, UpperFinal, NextStage, db2GetForeignPlan, db2PlanDirectModify, vars, Next
<1> QED BY <1>4, <1>5, <1>6, <1>7, <1>8, <1>9, <1>10, <1>11, <1>12, <1>13 DEF Next

LEMMA GroupListMade ==
  ASSUME PInv, UpperGrouping
  PROVE  GroupListInv'
<1>known. PICK known, parts, tlist, path :
            /\ known = Upper(top, "GROUP_AGG", query.grouped) /\ parts = GroupConditions(known, 4)
            /\ tlist = GroupedTlist(known, 4) /\ path = Path(4, <<>>, FALSE, FALSE)
  OBVIOUS
<1>fdw. PICK fdw : fdw = Classified([known[4].fdw EXCEPT !.grouped_tlist = tlist], parts)
  OBVIOUS
<1>1. /\ AtStage("GROUP_AGG") /\ rels[top].fdw.has
      /\ rels' = IF ~foreign_grouping_ok(known, 4) THEN known
                 ELSE [known EXCEPT ![4].fdw = fdw, ![4].paths = {path}]
  BY <1>known, <1>fdw, UpperRels DEF UpperGrouping
<1>2. StagesInv /\ ShapeInv /\ RelsInv /\ query \in Queries
  BY DEF PInv, StagesInv
<1>4. "GROUP_AGG" \in DOMAIN UpperRel /\ UpperRel["GROUP_AGG"] = 4
  BY UpperRels
<1>5. top = ScanTop(query) /\ top \in 1 .. 3
  <2>1. "GROUP_AGG" \in Needed(query) /\ 4 > top
    BY <1>1, <1>2, <1>4, NextIsLowest
  <2>2. top \in {ScanTop(query)} \cup 4 .. 8 /\ ScanTop(query) \in 1 .. 3
    BY <1>2, TopFacts DEF StagesInv
  <2> QED BY <2>1, <2>2
<1>6. /\ DOMAIN known = 1 .. 8 /\ \A k \in 1 .. 8 : k # 4 => known[k] = rels[k]
      /\ known[4].kind = "upper" /\ known[4].fdw.has = TRUE /\ DOMAIN known[4].fdw = DOMAIN ZeroFdw
      /\ DOMAIN known[4] = DOMAIN NoRel /\ known[4].fdw.outer = top /\ known[4].fdw.pushdown_safe = FALSE
  <2>1. top \in 1 .. 8
    BY <1>5
  <2>stage. PICK stage, target, n, in : stage = "GROUP_AGG" /\ target = query.grouped /\ n = 4 /\ in = top
    OBVIOUS
  <2>2. in \in 1 .. 8 /\ rels[in].fdw.has /\ stage \in DOMAIN UpperRel /\ n = UpperRel[stage] /\ known = Upper(in, stage, target)
    BY <1>known, <1>1, <1>4, <2>1, <2>stage
  <2>3. Started(known, in, stage, target, n)
    BY <1>2, <2>2, UpperFacts
  <2> QED BY ONLY <2>stage, <2>3 DEF Started
<1>7. rels[top].relids \in SUBSET Bases
  <2>1. Bases = {1, 2}
    BY DEF Bases
  <2>2. CASE top \in {1, 2}
    <3>1. BaseOk(top)
      BY <1>2, <2>1, <2>2 DEF RelsInv, BaseInv
    <3>2. rels[top].relids = {top}
      BY <1>1, <3>1, NoRelFacts DEF BaseOk
    <3> QED BY <2>1, <2>2, <3>2
  <2>3. CASE top = 3
    <3>1. rels[3] # NoRel
      BY <1>1, <2>3, NoRelFacts
    <3>2. rels[3].relids = {1, 2}
      BY <1>2, <3>1 DEF RelsInv, JoinInv, JoinRel
    <3> QED BY <2>1, <2>3, <3>2
  <2> QED BY <1>5, <2>2, <2>3
<1>glob. PICK glob : glob = Glob(known, 4)
  OBVIOUS
<1>8. glob \in Globs
  <2>1. known[top] = rels[top]
    BY <1>5, <1>6
  <2>2. glob = [upper |-> TRUE, relids |-> rels[top].relids, fdw |-> TRUE]
    BY <1>6, <1>glob, <2>1 DEF Glob, Scanrel
  <2> QED BY <1>7, <2>2 DEF Globs
<1>9. CASE ~foreign_grouping_ok(known, 4)
  <2>1. rels'[4].fdw.pushdown_safe = FALSE
    BY <1>1, <1>6, <1>9
  <2> QED BY <2>1 DEF GroupListInv
<1>10. CASE foreign_grouping_ok(known, 4)
  <2>1. rels' = [known EXCEPT ![4].fdw = fdw, ![4].paths = {path}]
    BY <1>1, <1>10
  <2>2. /\ rels'[4].fdw = fdw /\ rels'[4].kind = "upper" /\ \A k \in 1 .. 8 : k # 4 => rels'[k] = known[k]
    <3>1. 4 \in DOMAIN known /\ {"fdw", "paths", "kind"} \subseteq DOMAIN known[4]
      BY <1>6 DEF NoRel
    <3> QED BY <1>6, <2>1, <3>1
  <2>3. fdw.has = TRUE /\ fdw.outer = top /\ fdw.grouped_tlist = tlist
    <3>1. {"has", "outer", "grouped_tlist", "pushdown_safe", "remote_conds", "local_conds"} \subseteq DOMAIN known[4].fdw
      BY <1>6 DEF ZeroFdw
    <3>m. PICK mid : mid = [known[4].fdw EXCEPT !.grouped_tlist = tlist]
      OBVIOUS
    <3>2. DOMAIN mid = DOMAIN known[4].fdw /\ mid.has = TRUE /\ mid.outer = top /\ mid.grouped_tlist = tlist
      BY <1>6, <3>1, <3>m
    <3>3. fdw = Classified(mid, parts)
      BY <1>fdw, <3>m
    <3> QED BY <3>1, <3>2, <3>3 DEF Classified
  <2>4. Glob(rels, 4)' = glob
    <3>1. /\ rels'[4].kind = known[4].kind /\ rels'[4].fdw.has = known[4].fdw.has
          /\ rels'[4].fdw.outer = known[4].fdw.outer
          /\ rels'[known[4].fdw.outer].relids = known[known[4].fdw.outer].relids /\ known[4].kind = "upper"
      <4>1. rels'[top] = known[top] /\ known[4].fdw.outer = top
        BY <1>5, <1>6, <2>2
      <4>2. rels'[known[4].fdw.outer] = known[known[4].fdw.outer]
        BY <4>1
      <4>3. rels'[4].kind = known[4].kind /\ rels'[4].fdw.has = known[4].fdw.has /\ rels'[4].fdw.outer = top
        BY <1>6, <2>2, <2>3
      <4> QED BY <1>6, <4>1, <4>2, <4>3
    <3> QED BY ONLY <1>glob, <3>1 DEF Glob, Scanrel
  <2>5. IsList(tlist) /\ \A t \in ToSet(tlist) : t.expr \in Expressions /\ Walk(t.expr, glob, NoCtx).ok
    BY <1>2, <1>8, <1>10, <1>glob, <1>known, GroupedListPassed
  <2> QED BY <2>2, <2>3, <2>4, <2>5 DEF GroupListInv
<1> QED BY <1>9, <1>10

LEMMA GroupListNext ==
  PInv /\ GroupListInv /\ [Next]_vars => GroupListInv'
<1> SUFFICES ASSUME PInv, GroupListInv, [Next]_vars PROVE GroupListInv'
  OBVIOUS
<1>1. CASE UpperGrouping
  BY <1>1, GroupListMade
<1>2. CASE ~UpperGrouping
  <2>1. Kept(4) /\ (rels[4] # NoRel => Kept(ScanTop(query)))
    BY <1>2, GroupingStays
  <2>2. CASE ~rels[4].fdw.has
    BY <2>1, <2>2 DEF GroupListInv, Kept
  <2>3. CASE rels[4].fdw.has
    <3>1. rels[4] # NoRel
      BY <2>3, NoRelFacts
    <3>2. rels[4].kind = "upper" /\ rels[4].fdw.outer = ScanTop(query)
      BY <3>1 DEF PInv, RelsInv, GroupInv
    <3>3. Glob(rels, 4)' = Glob(rels, 4)
      BY <2>1, <3>1, <3>2, GlobKept
    <3> QED BY <2>1, <3>3 DEF GroupListInv, Kept
  <2> QED BY <2>2, <2>3
<1> QED BY <1>1, <1>2

LEMMA GroupListInit ==
  Init => GroupListInv
<1> SUFFICES ASSUME Init PROVE GroupListInv
  OBVIOUS
<1>1. query.rels \in {{1}, {2}, {1, 2}}
  BY QueryFacts DEF Init
<1>2. 4 \in 1 .. 8 /\ 4 \notin query.rels
  BY <1>1
<1>3. rels[4] = NoRel
  BY <1>2 DEF Init
<1> QED BY <1>3, NoRelFacts DEF GroupListInv

(***************************************************************************)
(* What is sent has passed the walker.                                     *)
(***************************************************************************)
\* An expression that the walker has accepted for the scanned tables, or a column.
Seen(e) ==
  /\ e \in Expressions
  /\ IsA(e, "Var") \/ \E glob \in Globs : glob.relids = OwnRelids /\ Walk(e, glob, NoCtx).ok
SeenList(es) == es \in Seq(Expressions) /\ \A e \in ToSet(es) : Seen(e)

LEMMA EmptySeen == SeenList(<<>>)
BY DEF SeenList, ToSet

LEMMA BothSeen ==
  ASSUME NEW es, NEW fs, SeenList(es), SeenList(fs)
  PROVE  SeenList(es \o fs)
<1>1. es \in Seq(Expressions) /\ fs \in Seq(Expressions)
  BY DEF SeenList
<1>2. es \o fs \in Seq(Expressions) /\ ToSet(es \o fs) = ToSet(es) \cup ToSet(fs)
  BY <1>1, BothList
<1> QED BY <1>2 DEF SeenList

LEMMA VarsSeen ==
  ASSUME NEW es \in Seq(Expressions)
  PROVE  SeenList(Vars(es))
<1>v. PICK vars1 : vars1 = Vars(es)
  OBVIOUS
<1>1. /\ vars1 \in Seq(Expressions)
      /\ \A v : v \in ToSet(vars1) <=> \E e \in ToSet(es) : v \in ToSet(pull_var_clause(e))
  BY <1>v, VarsList
<1>2. \A e \in ToSet(es) : e \in Expressions
  BY DEF ToSet
<1>3. ASSUME NEW v \in ToSet(vars1) PROVE Seen(v)
  <2>1. PICK e \in ToSet(es) : v \in ToSet(pull_var_clause(e))
    BY <1>1
  <2>2. IsA(v, "Var")
    BY <1>2, <2>1, ColumnsOf
  <2>3. v \in Expressions
    BY <1>1 DEF ToSet
  <2> QED BY <2>2, <2>3 DEF Seen
<1> QED BY <1>1, <1>3, <1>v DEF SeenList

LEMMA AddedSeen ==
  ASSUME NEW es, NEW fs, SeenList(es), SeenList(fs)
  PROVE  SeenList(add_to_flat_tlist(es, fs))
<1>1. es \in Seq(Expressions) /\ fs \in Seq(Expressions)
  BY DEF SeenList
<1>2. add_to_flat_tlist(es, fs) \in Seq(Expressions) /\ ToSet(add_to_flat_tlist(es, fs)) = ToSet(es) \cup ToSet(fs)
  BY <1>1, AddedList
<1> QED BY <1>2 DEF SeenList

LEMMA OnlySeen ==
  ASSUME NEW es \in Seq(Expressions), NEW S, \A e \in ToSet(es) \cap S : Seen(e)
  PROVE  SeenList(Only(es, S))
<1>1. Only(es, S) \in Seq(Expressions) /\ ToSet(Only(es, S)) = ToSet(es) \cap S
  BY OnlyList
<1> QED BY <1>1 DEF SeenList

\* The relation that is asked about is the one that is scanned.
LEMMA PlanGlob ==
  ASSUME PInv, PlanFacts, plan.made
  PROVE  /\ Glob(rels, plan.rel) \in Globs /\ Glob(rels, plan.rel).relids = OwnRelids
         /\ ScanOf \in Bases => BaseGlob(ScanOf) \in Globs /\ BaseGlob(ScanOf).relids = OwnRelids
<1>1. /\ Bases = {1, 2} /\ rels[plan.rel].fdw.has /\ ScanOf = Scanrel(rels, plan.rel) /\ ScanOf \in {1, 2, 3}
      /\ ScanOf \in Bases => OwnRelids = {ScanOf}
      /\ ScanOf = 3 => OwnRelids = {1, 2}
      /\ rels[plan.rel].fdw.has \in BOOLEAN
  <2>1. plan.rel \in 1 .. 8
    BY MadeFacts
  <2>2. rels[plan.rel].fdw.has \in BOOLEAN
    BY <2>1 DEF PInv, ShapeInv
  <2> QED BY <2>2, MadeFacts
<1>2. OwnRelids \in SUBSET Bases
  BY <1>1
<1>3. Glob(rels, plan.rel) = [upper |-> rels[plan.rel].kind = "upper", relids |-> OwnRelids, fdw |-> TRUE]
  BY <1>1 DEF Glob, OwnRelids
<1>4. (rels[plan.rel].kind = "upper") \in BOOLEAN
  OBVIOUS
<1>5. ScanOf \in Bases => BaseGlob(ScanOf) = [upper |-> FALSE, relids |-> OwnRelids, fdw |-> TRUE]
  BY <1>1 DEF BaseGlob
<1>6. PICK up, rl : up = (rels[plan.rel].kind = "upper") /\ rl = OwnRelids
  OBVIOUS
<1>7. rl \in SUBSET Bases /\ up \in BOOLEAN
  BY <1>2, <1>4, <1>6
<1>8. [upper |-> up, relids |-> rl, fdw |-> TRUE] \in Globs /\ [upper |-> FALSE, relids |-> rl, fdw |-> TRUE] \in Globs
  BY <1>7 DEF Globs
<1>9. Glob(rels, plan.rel) = [upper |-> up, relids |-> rl, fdw |-> TRUE]
  BY <1>3, <1>6
<1>10. ScanOf \in Bases => BaseGlob(ScanOf) = [upper |-> FALSE, relids |-> rl, fdw |-> TRUE]
  <2> SUFFICES ASSUME ScanOf \in Bases PROVE BaseGlob(ScanOf) = [upper |-> FALSE, relids |-> rl, fdw |-> TRUE]
    OBVIOUS
  <2>1. rl = {ScanOf}
    BY <1>1, <1>6
  <2> QED BY <2>1 DEF BaseGlob
<1>11. Glob(rels, plan.rel) \in Globs /\ Glob(rels, plan.rel).relids = OwnRelids
  BY <1>6, <1>8, <1>9
<1>12. ScanOf \in Bases => BaseGlob(ScanOf) \in Globs /\ BaseGlob(ScanOf).relids = OwnRelids
  <2>b. PICK b : b = [upper |-> FALSE, relids |-> rl, fdw |-> TRUE]
    OBVIOUS
  <2>1. b \in Globs /\ b.relids = rl
    BY <1>8, <2>b
  <2>2. ScanOf \in Bases => BaseGlob(ScanOf) = b
    BY <1>10, <2>b
  <2> QED BY <1>6, <2>1, <2>2
<1> QED BY <1>11, <1>12

LEMMA ShipsSeen ==
  ASSUME PInv, PlanFacts, plan.made, NEW e \in Expressions, Ships(rels, plan.rel, e)
  PROVE  Seen(e)
<1>g. PICK glob : glob = Glob(rels, plan.rel)
  OBVIOUS
<1>1. Walk(e, glob, NoCtx).ok
  BY <1>g DEF Ships, is_foreign_expr, Accepted
<1>2. glob \in Globs /\ glob.relids = OwnRelids
  BY <1>g, PlanGlob
<1> QED BY <1>1, <1>2 DEF Seen

LEMMA RemoteSeen ==
  ASSUME NEW glob \in Globs, glob.relids = OwnRelids, NEW es \in Seq(Expressions)
  PROVE  SeenList(classifyConditions(glob, es).remote)
<1>s. PICK S : S = {c \in ToSet(es) : is_foreign_expr(glob, c)}
  OBVIOUS
<1>1. classifyConditions(glob, es).remote = Only(es, S)
  BY <1>s DEF classifyConditions
<1>2. ASSUME NEW e \in ToSet(es) \cap S PROVE Seen(e)
  <2>1. Walk(e, glob, NoCtx).ok
    BY <1>s DEF is_foreign_expr, Accepted
  <2>2. e \in Expressions
    BY DEF ToSet
  <2> QED BY <2>1, <2>2 DEF Seen
<1>3. SeenList(Only(es, S))
  BY <1>2, OnlySeen
<1> QED BY <1>1, <1>3

\* The conditions below a scan or a grouping.
LEMMA BaseCondsSeen ==
  ASSUME PInv, PlanFacts, plan.made
  PROVE  SeenList(rels[ScanOf].fdw.remote_conds) /\ rels[ScanOf].fdw.local_conds \in Seq(Expressions)
<1>1. /\ query \in Queries /\ ScanOf \in {1, 2, 3} /\ rels[ScanOf].fdw.has /\ Bases = {1, 2}
      /\ ScanOf \in Bases => BaseFdw(ScanOf)
  BY MadeFacts
<1>2. CASE ScanOf \in Bases
  <2>g. PICK glob, es : glob = BaseGlob(ScanOf) /\ es = query.restrict[ScanOf]
    OBVIOUS
  <2>1. es \in Seq(Expressions) /\ glob \in Globs /\ glob.relids = OwnRelids
    BY <1>1, <1>2, <2>g, QueryFacts, PlanGlob
  <2>2. SeenList(classifyConditions(glob, es).remote) /\ classifyConditions(glob, es).local \in Seq(Expressions)
    <3>1. PICK x : x = NoExpr
      OBVIOUS
    <3> QED BY <2>1, RemoteSeen, ClassifiedOnce
  <2>3. /\ rels[ScanOf].fdw.remote_conds = classifyConditions(glob, es).remote
        /\ rels[ScanOf].fdw.local_conds = classifyConditions(glob, es).local
    BY <1>1, <1>2, <2>g DEF BaseFdw
  <2> QED BY <2>2, <2>3
<1>3. CASE ScanOf = 3
  <2>1. rels[3] # NoRel
    BY <1>1, <1>3, NoRelFacts
  <2>2. rels[3].fdw.remote_conds = <<>> /\ rels[3].fdw.local_conds = <<>>
    BY <2>1 DEF PInv, RelsInv, JoinInv, JoinRel
  <2> QED BY <1>3, <2>2, EmptySeen DEF SeenList
<1> QED BY <1>1, <1>2, <1>3

\* WHERE and HAVING.
LEMMA ConditionsSeen ==
  ASSUME PInv, PlanFacts, plan.made
  PROVE  SeenList(WhereExprs) /\ SeenList(HavingExprs)
<1>1. /\ query \in Queries /\ Bases = {1, 2} /\ plan.rel \in {1, 2, 3, 4}
      /\ rels[plan.rel].kind = IF plan.rel \in Bases THEN "base" ELSE IF plan.rel = 3 THEN "join" ELSE "upper"
      /\ ScanOf = IF plan.rel = 4 THEN ScanTop(query) ELSE plan.rel
      /\ plan.rel = 4 => GroupFdw
  BY MadeFacts
<1>2. plan.rel \notin Bases => plan.remote = rels[plan.rel].fdw.remote_conds
  BY DEF PlanFacts, PlanOf
<1>3. CASE plan.rel = 4
  <2>1. SeenList(WhereExprs)
    <3>1. WhereExprs = rels[ScanOf].fdw.remote_conds
      BY <1>1, <1>3 DEF WhereExprs
    <3> QED BY <3>1, BaseCondsSeen
  <2>g. PICK glob, es : glob = Glob(rels, plan.rel) /\ es = query.having
    OBVIOUS
  <2>2. HavingExprs = classifyConditions(glob, es).remote
    BY <1>1, <1>2, <1>3, <2>g DEF HavingExprs, GroupFdw
  <2>3. es \in Seq(Expressions) /\ glob \in Globs /\ glob.relids = OwnRelids
    BY <1>1, <2>g, QueryFacts, PlanGlob
  <2> QED BY <2>1, <2>2, <2>3, RemoteSeen
<1>4. CASE plan.rel = 3
  <2>1. WhereExprs = rels[ScanOf].fdw.remote_conds /\ HavingExprs = <<>>
    BY <1>1, <1>2, <1>4 DEF WhereExprs, HavingExprs
  <2> QED BY <2>1, BaseCondsSeen, EmptySeen
<1>5. CASE plan.rel \in Bases
  <2>r. PICK r, es, S : /\ r = plan.rel /\ es = ScanClauses(plan.rel)
                        /\ S = {e \in ToSet(ScanClauses(plan.rel)) :
                                  \/ e \in ToSet(rels[plan.rel].fdw.remote_conds)
                                  \/ e \notin ToSet(rels[plan.rel].fdw.local_conds) /\ Ships(rels, plan.rel, e)}
    OBVIOUS
  <2>1. WhereExprs = plan.remote /\ HavingExprs = <<>>
    BY <1>1, <1>5 DEF WhereExprs, HavingExprs
  <2>2. plan.remote = Only(es, S)
    BY <1>5, <2>r DEF PInv, PlanInv, BasePlanInv, RemoteOf
  <2>3. es \in Seq(Expressions)
    <3>1. PICK x : x = NoExpr
      OBVIOUS
    <3> QED BY <1>5, <2>r, <3>1, BaseClauses
  <2>4. ASSUME NEW e \in ToSet(es) \cap S PROVE Seen(e)
    <3>1. e \in Expressions
      BY <2>3 DEF ToSet
    <3>2. CASE e \in ToSet(rels[plan.rel].fdw.remote_conds)
      <4>1. ScanOf = plan.rel
        BY <1>1, <1>5
      <4> QED BY <3>2, <4>1, BaseCondsSeen DEF SeenList
    <3>3. CASE Ships(rels, plan.rel, e)
      BY <3>1, <3>3, ShipsSeen
    <3> QED BY <2>r, <3>2, <3>3
  <2>5. SeenList(Only(es, S))
    BY <2>3, <2>4, OnlySeen
  <2> QED BY <2>1, <2>2, <2>5, EmptySeen
<1> QED BY <1>1, <1>3, <1>4, <1>5

\* A list as PostgreSQL takes it apart: some expressions whole, of the others the columns.
LEMMA ListOfParts ==
  ASSUME NEW es \in Seq(Expressions), NEW W, NEW N, NEW local \in Seq(Expressions), NEW none, none = <<>>,
         \A e \in ToSet(es) \cap W : Seen(e)
  PROVE  SeenList(add_to_flat_tlist(none, Only(es, W) \o Vars(Only(es, N)) \o Vars(local)))
<1>e. PICK whole, others : whole = Only(es, W) /\ others = Only(es, N)
  OBVIOUS
<1>1. SeenList(whole) /\ others \in Seq(Expressions)
  BY <1>e, OnlySeen, OnlyList
<1>v. PICK ov, lv, wo, wol : ov = Vars(others) /\ lv = Vars(local) /\ wo = whole \o ov /\ wol = wo \o lv
  OBVIOUS
<1>2. SeenList(ov) /\ SeenList(lv)
  BY <1>1, <1>v, VarsSeen
<1>3. SeenList(wo)
  BY <1>1, <1>2, <1>v, BothSeen
<1>4. SeenList(wol)
  BY <1>2, <1>3, <1>v, BothSeen
<1>5. SeenList(none)
  BY EmptySeen
<1>6. SeenList(add_to_flat_tlist(none, wol))
  BY <1>4, <1>5, AddedSeen
<1> QED BY <1>6, <1>e, <1>v

\* What a relation that is no grouping fetches.
LEMMA BuildSeen ==
  ASSUME PInv, PlanFacts, plan.made, plan.rel # 4, NEW r, r = plan.rel
  PROVE  SeenList(build_tlist_to_deparse(rels, r))
<1>1. /\ query \in Queries /\ Bases = {1, 2} /\ r \in {1, 2, 3} /\ ScanOf = r /\ rels[r].kind # "upper"
      /\ rels[r].fdw.has /\ r \in query.rels \cup {3}
  BY MadeFacts
<1>2. rels[r].target = query.target[r]
  <2>1. CASE r = 3
    <3>1. rels[3] # NoRel
      BY <1>1, <2>1, NoRelFacts
    <3> QED BY <2>1, <3>1 DEF PInv, RelsInv, JoinInv, JoinRel
  <2>2. CASE r \in Bases
    <3>1. BaseOk(r) /\ r \in query.rels
      BY <1>1, <2>2 DEF PInv, RelsInv, BaseInv
    <3> QED BY <3>1 DEF BaseOk
  <2> QED BY <1>1, <2>1, <2>2
<1>e. PICK es, W, N, local, none :
        /\ es = Exprs(query.target[r])
        /\ W = {e \in ToSet(es) : is_translate_func_expr(e) /\ Ships(rels, r, e)}
        /\ N = {e \in ToSet(es) : ~(is_translate_func_expr(e) /\ Ships(rels, r, e))}
        /\ local = rels[r].fdw.local_conds /\ none = <<>>
  OBVIOUS
<1>3. es \in Seq(Expressions)
  <2>1. r \in Bases \cup {JoinRel}
    BY <1>1 DEF JoinRel
  <2> QED BY <1>1, <1>e, <2>1, QueriesAssumption
<1>4. local \in Seq(Expressions)
  BY <1>1, <1>e, BaseCondsSeen
<1>5. ASSUME NEW e \in ToSet(es) \cap W PROVE Seen(e)
  <2>1. e \in Expressions
    BY <1>3 DEF ToSet
  <2> QED BY <1>e, <2>1, ShipsSeen
<1>6. SeenList(add_to_flat_tlist(none, Only(es, W) \o Vars(Only(es, N)) \o Vars(local)))
  BY <1>3, <1>4, <1>5, <1>e, ListOfParts
<1>7. build_tlist_to_deparse(rels, r) = add_to_flat_tlist(none, Only(es, W) \o Vars(Only(es, N)) \o Vars(local))
  BY <1>1, <1>2, <1>e DEF build_tlist_to_deparse, Vars
<1> QED BY <1>6, <1>7

\* What PostgreSQL may pass as the target list of a scan.
LEMMA PassedList ==
  ASSUME PInv, PlanFacts, plan.made, plan.rel \in Bases, NEW tlist \in PassedTlists(plan.rel)
  PROVE  tlist \in Seq(Expressions)
<1>1. /\ query \in Queries /\ Bases = {1, 2} /\ plan.rel \in query.rels
  BY MadeFacts
<1>r. PICK r : r = plan.rel
  OBVIOUS
<1>2. rels[r].target = query.target[r]
  <2>1. BaseOk(r)
    BY <1>1, <1>r DEF PInv, RelsInv, BaseInv
  <2> QED BY <1>1, <1>r, <2>1 DEF BaseOk
<1>3. Exprs(query.target[r]) \in Seq(Expressions)
  BY <1>1, <1>r, QueryFacts
<1>4. [k \in DOMAIN Columns[r] |-> Var(r, k, Columns[r][k].type, Columns[r][k].coll)] \in Seq(Expressions)
  BY <1>r, ColumnsAssumption
<1>5. <<>> \in Seq(Expressions)
  OBVIOUS
<1> QED BY <1>r, <1>2, <1>3, <1>4, <1>5 DEF PassedTlists

\* The list of a scan of one table.
LEMMA BaseListSeen ==
  ASSUME PInv, PlanFacts, plan.made, plan.rel \in Bases
  PROVE  SeenList(plan.scan)
<1>t. PICK tlist \in PassedTlists(plan.rel) : PlanOf(tlist)
  BY DEF PlanFacts
<1>1. tlist \in Seq(Expressions)
  BY <1>t, PassedList
<1>2. Bases = {1, 2} /\ ScanOf = plan.rel /\ plan.rel # 4
  BY MadeFacts
<1>f. PICK r, local, remote : r = plan.rel /\ local = rels[r].fdw.local_conds /\ remote = rels[r].fdw.remote_conds
  OBVIOUS
<1>3. SeenList(remote) /\ local \in Seq(Expressions)
  BY <1>2, <1>f, BaseCondsSeen
<1>b. PICK build, all, S, scanvars, conds, qualvars, mid :
        /\ build = build_tlist_to_deparse(rels, r) /\ all = Vars(tlist) /\ S = {v \in ToSet(all) : v.varno = r}
        /\ scanvars = Only(all, S) /\ conds = local \o remote /\ qualvars = Vars(conds)
        /\ mid = add_to_flat_tlist(build, scanvars)
  OBVIOUS
<1>4. SeenList(build)
  BY <1>2, <1>b, <1>f, BuildSeen
<1>5. SeenList(scanvars)
  <2>1. SeenList(all)
    BY <1>1, <1>b, VarsSeen
  <2> QED BY <1>b, <2>1, OnlySeen DEF SeenList
<1>6. SeenList(qualvars)
  <2>1. remote \in Seq(Expressions)
    BY <1>3 DEF SeenList
  <2>2. local \o remote \in Seq(Expressions)
    BY <1>3, <2>1, BothList
  <2>3. conds \in Seq(Expressions)
    BY <1>b, <2>2
  <2> QED BY <1>b, <2>3, VarsSeen
<1>7. SeenList(mid)
  BY <1>4, <1>5, <1>b, AddedSeen
<1>8. SeenList(add_to_flat_tlist(mid, qualvars))
  BY <1>6, <1>7, AddedSeen
<1>9. plan.scan = add_to_flat_tlist(mid, qualvars)
  <2>1. plan.scan = BaseScanTlist(r, tlist)
    BY <1>f, <1>t DEF PlanOf
  <2>2. scanvars = ScanVars(r, tlist)
    BY <1>b DEF ScanVars, Vars
  <2>3. qualvars = QualVars(rels[r].fdw)
    BY <1>b, <1>f DEF QualVars, Vars
  <2> QED BY <1>b, <2>1, <2>2, <2>3 DEF BaseScanTlist
<1> QED BY <1>8, <1>9

\* The list of a grouping.
LEMMA GroupListSeen ==
  ASSUME PInv, PlanFacts, GroupListInv, plan.made, plan.rel = 4
  PROVE  SeenList(plan.scan)
<1>1. /\ rels[4].fdw.has /\ rels[4].fdw.pushdown_safe /\ rels[4].kind = "upper" /\ Bases = {1, 2}
  BY MadeFacts
<1>l. PICK list, es : list = rels[4].fdw.grouped_tlist /\ es = [i \in DOMAIN list |-> list[i].expr]
  OBVIOUS
<1>g. PICK glob : glob = Glob(rels, plan.rel)
  OBVIOUS
<1>2. glob \in Globs /\ glob.relids = OwnRelids
  BY <1>g, PlanGlob
<1>3. IsList(list) /\ \A t \in ToSet(list) : t.expr \in Expressions /\ Walk(t.expr, glob, NoCtx).ok
  BY <1>1, <1>g, <1>l DEF GroupListInv
<1>4. plan.scan = es
  <2>1. \E tlist \in PassedTlists(plan.rel) : PlanOf(tlist)
    BY DEF PlanFacts
  <2> QED BY <1>1, <1>l, <2>1 DEF PlanOf, build_tlist_to_deparse, Exprs
<1>5. DOMAIN list = 1 .. Len(list) /\ Len(list) \in Nat /\ \A i \in DOMAIN list : list[i] \in ToSet(list)
  BY <1>3 DEF IsList, ToSet
<1>6. \A i \in DOMAIN list : Seen(list[i].expr) /\ list[i].expr \in Expressions
  BY <1>2, <1>3, <1>5 DEF Seen
<1>7. es \in Seq(Expressions)
  <2>1. es \in [1 .. Len(list) -> Expressions]
    BY <1>5, <1>6, <1>l
  <2> QED BY <1>5, <2>1
<1>8. \A e \in ToSet(es) : Seen(e)
  BY <1>6, <1>l DEF ToSet
<1> QED BY <1>4, <1>7, <1>8 DEF SeenList

\* What a statement lists: columns fetched, or values assigned.
LEMMA ListSeen ==
  ASSUME PInv, PlanFacts, GroupListInv, plan.made
  PROVE  SeenList(ListExprs)
<1>1. plan.rel \in {1, 2, 3, 4} /\ Bases = {1, 2} /\ query \in Queries
      /\ rels[plan.rel].kind = IF plan.rel \in Bases THEN "base" ELSE IF plan.rel = 3 THEN "join" ELSE "upper"
  BY MadeFacts
<1>2. CASE plan.stmt.cmd = "SELECT"
  <2>1. ListExprs = plan.scan
    BY <1>2 DEF ListExprs
  <2>2. CASE plan.rel \in Bases
    BY <2>1, <2>2, BaseListSeen
  <2>3. CASE plan.rel = 3
    <3>1. \E tlist \in PassedTlists(plan.rel) : PlanOf(tlist)
      BY DEF PlanFacts
    <3>2. plan.scan = build_tlist_to_deparse(rels, plan.rel)
      BY <1>1, <2>3, <3>1 DEF PlanOf
    <3>3. SeenList(build_tlist_to_deparse(rels, plan.rel))
      BY <2>3, BuildSeen
    <3> QED BY <2>1, <3>2, <3>3
  <2>4. CASE plan.rel = 4
    BY <2>1, <2>4, GroupListSeen
  <2> QED BY <1>1, <2>2, <2>3, <2>4
<1>3. CASE plan.stmt.cmd # "SELECT"
  <2>1. /\ query.cmd \in {"UPDATE", "DELETE"}
        /\ query.cmd = "UPDATE" => \A k \in DOMAIN query.set : Ships(rels, plan.rel, query.set[k].expr)
        /\ plan.stmt = IF query.cmd = "UPDATE"
                    THEN deparseDirectUpdateSql(rels, plan.rel, query.set, rels[plan.rel].fdw.final_remote_exprs)
                    ELSE deparseDirectDeleteSql(rels, plan.rel, rels[plan.rel].fdw.final_remote_exprs)
    BY <1>3 DEF PlanFacts, DirectInv
  <2>2. plan.stmt.cmd = query.cmd
    BY <2>1 DEF deparseDirectUpdateSql, deparseDirectDeleteSql, DirectSql
  <2>3. CASE query.cmd = "DELETE"
    <3>1. ListExprs = <<>>
      BY <2>2, <2>3 DEF ListExprs
    <3> QED BY <3>1, EmptySeen
  <2>4. CASE query.cmd = "UPDATE"
    <3>l. PICK list, es : list = query.set /\ es = [k \in DOMAIN list |-> list[k].expr]
      OBVIOUS
    <3>1. ListExprs = es
      BY <2>2, <2>4, <3>l DEF ListExprs
    <3>2. IsList(list) /\ \A s \in ToSet(list) : s.expr \in Expressions
      BY <1>1, <3>l, QueriesAssumption
    <3>3. DOMAIN list = 1 .. Len(list) /\ Len(list) \in Nat /\ \A i \in DOMAIN list : list[i] \in ToSet(list)
      BY <3>2 DEF IsList, ToSet
    <3>4. \A i \in DOMAIN list : Seen(list[i].expr) /\ list[i].expr \in Expressions
      BY <2>1, <2>4, <3>2, <3>3, <3>l, ShipsSeen
    <3>5. es \in Seq(Expressions)
      <4>1. es \in [1 .. Len(list) -> Expressions]
        BY <3>3, <3>4, <3>l
      <4> QED BY <3>3, <4>1
    <3>6. \A e \in ToSet(es) : Seen(e)
      BY <3>4, <3>l DEF ToSet
    <3> QED BY <3>1, <3>5, <3>6 DEF SeenList
  <2> QED BY <2>1, <2>3, <2>4
<1> QED BY <1>2, <1>3

\* What is sent, with its texts.
SeenPairs(ps) == IsList(ps) /\ \A p \in ToSet(ps) : Seen(p.expr)

LEMMA PairSeen ==
  ASSUME NEW es, SeenList(es), NEW txts
  PROVE  SeenPairs(Pair(es, txts))
<1>p. PICK ps : ps = Pair(es, txts)
  OBVIOUS
<1>1. DOMAIN es = 1 .. Len(es) /\ Len(es) \in Nat /\ \A k \in DOMAIN es : Seen(es[k])
  BY DEF SeenList, ToSet
<1>2. DOMAIN ps = DOMAIN es /\ \A k \in DOMAIN ps : ps[k].expr = es[k]
  BY <1>p DEF Pair
<1>3. ps \in [1 .. Len(es) -> ToSet(ps)]
  <2>1. ps = [k \in 1 .. Len(es) |-> [expr |-> es[k], txt |-> txts[k]]]
    BY <1>1, <1>p DEF Pair
  <2>2. \A k \in 1 .. Len(es) : ps[k] \in ToSet(ps)
    BY <1>1, <1>2 DEF ToSet
  <2> QED BY <2>1, <2>2
<1>4. IsList(ps)
  BY <1>1, <1>3 DEF IsList
<1>5. \A p \in ToSet(ps) : Seen(p.expr)
  BY <1>1, <1>2 DEF ToSet
<1> QED BY <1>4, <1>5, <1>p DEF SeenPairs

LEMMA BothPairs ==
  ASSUME NEW ps, NEW qs, SeenPairs(ps), SeenPairs(qs)
  PROVE  SeenPairs(ps \o qs)
<1>1. PICK T : T = ToSet(ps) \cup ToSet(qs)
  OBVIOUS
<1>2. ps \in Seq(T) /\ qs \in Seq(T)
  <2>1. ps \in Seq(ToSet(ps)) /\ qs \in Seq(ToSet(qs)) /\ ToSet(ps) \subseteq T /\ ToSet(qs) \subseteq T
    BY <1>1 DEF SeenPairs, IsList
  <2> QED BY <2>1
<1>3. ps \o qs \in Seq(T) /\ ToSet(ps \o qs) = ToSet(ps) \cup ToSet(qs)
  BY <1>2, BothList
<1>4. ToSet(ps \o qs) = T
  BY <1>1, <1>3
<1>5. IsList(ps \o qs)
  BY <1>3, <1>4 DEF IsList
<1>6. \A p \in ToSet(ps \o qs) : Seen(p.expr)
  BY <1>3 DEF SeenPairs
<1> QED BY <1>5, <1>6 DEF SeenPairs

LEMMA NoPairs == SeenPairs(<<>>)
BY DEF SeenPairs, IsList, ToSet

LEMMA WalkedSeen ==
  ASSUME PInv, PlanFacts, GroupListInv, plan.made
  PROVE  \A pair \in ToSet(WalkedPairs) : Seen(pair.expr)
<1>l. PICK where, having, list, w, h :
        /\ where = Pair(WhereExprs, plan.stmt.where) /\ having = Pair(HavingExprs, plan.stmt.having)
        /\ list = IF ListExprs = <<>> THEN <<>> ELSE Pair(ListExprs, plan.stmt.list)
        /\ w = where \o having /\ h = w \o list
  OBVIOUS
<1>1. SeenPairs(where) /\ SeenPairs(having)
  <2>1. PICK es, fs, txts, unts : es = WhereExprs /\ fs = HavingExprs /\ txts = plan.stmt.where /\ unts = plan.stmt.having
    OBVIOUS
  <2>2. SeenList(es) /\ SeenList(fs)
    BY <2>1, ConditionsSeen
  <2>3. SeenPairs(Pair(es, txts)) /\ SeenPairs(Pair(fs, unts))
    BY <2>2, PairSeen
  <2> QED BY <1>l, <2>1, <2>3
<1>2. SeenPairs(list)
  <2>1. PICK es, txts : es = ListExprs /\ txts = plan.stmt.list
    OBVIOUS
  <2>2. SeenList(es)
    BY <2>1, ListSeen
  <2>3. SeenPairs(Pair(es, txts))
    BY <2>2, PairSeen
  <2> QED BY <1>l, <2>1, <2>3, NoPairs
<1>3. SeenPairs(w)
  BY <1>1, <1>l, BothPairs
<1>4. SeenPairs(h)
  BY <1>2, <1>3, <1>l, BothPairs
<1>5. WalkedPairs = h
  BY <1>l DEF WalkedPairs
<1> QED BY <1>4, <1>5 DEF SeenPairs

LEMMA OwnTables ==
  ASSUME PInv, PlanFacts, plan.made
  PROVE  OwnRelids \in SUBSET Bases
<1>1. /\ Bases = {1, 2} /\ ScanOf \in {1, 2, 3}
      /\ ScanOf \in Bases => OwnRelids = {ScanOf}
      /\ ScanOf = 3 => OwnRelids = {1, 2}
  BY MadeFacts
<1> QED BY <1>1

\* A column that is sent is one node, without an input collation or operands.
LEMMA SentColumn ==
  ASSUME NEW e \in Expressions, IsA(e, "Var"), NEW n \in ToSet(Nodes(e))
  PROVE  n.tag = "Var"
<1>1. e # NoExpr
  BY DEF NoExpr, IsA
<1>2. Children(e) = <<>>
  BY DEF Children, IsA
<1>3. ToSet(Children(e)) = {}
  BY <1>2 DEF ToSet
<1>4. n = e
  BY <1>1, <1>3, NodesSplit
<1> QED BY <1>4 DEF IsA

LEMMA OperatorsSent ==
  ASSUME PInv, PlanFacts, GroupListInv
  PROVE  OperatorsHaveTexts
<1> SUFFICES ASSUME plan.made, NEW pair \in ToSet(WalkedPairs), NEW n \in ToSet(Nodes(pair.expr)),
                    n.tag \in {"Op", "Distinct", "Func"},
                    \A k \in DOMAIN n.args : ~IsNothing(Render(n.args[k], OwnRelids).txt)
             PROVE  ~IsNothing(Render(n, OwnRelids).txt)
  BY DEF OperatorsHaveTexts
<1>e. PICK e, relids : e = pair.expr /\ relids = OwnRelids
  OBVIOUS
<1>1. Seen(e)
  BY <1>e, WalkedSeen
<1>2. e \in Expressions /\ n \in ToSet(Nodes(e)) /\ relids \in SUBSET Bases
  BY <1>1, <1>e, OwnTables DEF Seen
<1>3. ~IsA(e, "Var")
  BY <1>2, SentColumn
<1>4. PICK glob \in Globs : Walk(e, glob, NoCtx).ok
  BY <1>1, <1>3 DEF Seen
<1>5. NoCtx \in Cases
  BY DEF Cases
<1>6. n # NoExpr /\ \E c \in Cases : Walk(n, glob, c).ok
  BY <1>2, <1>4, <1>5, NodesPassed
<1>7. PICK case \in Cases : Walk(n, glob, case).ok
  BY <1>6
<1>8. n \in Expressions
  <2>1. Nodes(e) \in Seq(Expressions)
    BY <1>2, ExpressionsAssumption
  <2> QED BY <1>2, <2>1 DEF ToSet
<1>9. ~IsNothing(Render(n, relids).txt)
  BY <1>2, <1>6, <1>7, <1>8, <1>e, OperatorsText
<1> QED BY <1>9, <1>e

LEMMA CollationsSent ==
  ASSUME PInv, PlanFacts, GroupListInv
  PROVE  CollationComesFromColumn
<1> SUFFICES ASSUME plan.made, NEW pair \in ToSet(WalkedPairs), NEW n \in ToSet(Nodes(pair.expr)),
                    n.tag \in {"Op", "Distinct", "Func", "ScalarArray", "Aggref"}, n.incoll # "none"
             PROVE  \/ ColumnWith(n.incoll, n)
                    \/ ColumnWith(n.incoll, pair.expr) /\ Has(n, LAMBDA c : IsA(c, "CaseTest"))
  BY DEF CollationComesFromColumn
<1>e. PICK e : e = pair.expr
  OBVIOUS
<1>1. Seen(e)
  BY <1>e, WalkedSeen
<1>2. e \in Expressions /\ n \in ToSet(Nodes(e))
  BY <1>1, <1>e DEF Seen
<1>3. ~IsA(e, "Var")
  BY <1>2, SentColumn
<1>4. PICK glob \in Globs : glob.relids = OwnRelids /\ Walk(e, glob, NoCtx).ok
  BY <1>1, <1>3 DEF Seen
<1>5. NoCtx \in Cases /\ NoCtx.st # SAFE
  BY DEF Cases, NoCtx, UNSAFE, SAFE
<1>6. AllTraced(e, glob)
  BY <1>2, InputsHaveColumns
<1>7. n.tag \in Collating
  BY DEF Collating
<1>8. InputTraced(n, e, glob, NoCtx)
  BY <1>2, <1>4, <1>5, <1>6, <1>7 DEF AllTraced
<1>9. ColumnIn(glob, n.incoll, n) \/ (HasCaseTest(n) /\ ColumnIn(glob, n.incoll, e))
  BY <1>5, <1>8 DEF InputTraced
<1>10. \A coll, d : ColumnIn(glob, coll, d) => ColumnWith(coll, d)
  BY <1>4 DEF ColumnIn, ColumnWith, Has, ToSet
<1>11. HasCaseTest(n) => Has(n, LAMBDA c : IsA(c, "CaseTest"))
  BY DEF HasCaseTest, Has, ToSet
<1> QED BY <1>9, <1>10, <1>11, <1>e

LEMMA PlannerGroupLists == Spec => []GroupListInv
<1>1. PInv /\ GroupListInv /\ [Next]_vars => (PInv /\ GroupListInv)'
  BY NextInv, GroupListNext
<1>2. Init => PInv /\ GroupListInv
  BY InitInv, GroupListInit
<1> QED BY <1>1, <1>2, PTL DEF Spec

(***************************************************************************)
(* Whatever operator or function is sent as a condition, in the list or as *)
(* a value has a text in DB2's SQL as soon as its operands have one.       *)
(***************************************************************************)
THEOREM PlannerOperators == Spec => []OperatorsHaveTexts
BY PlannerInvariant, PlannerPlans, PlannerGroupLists, OperatorsSent, PTL

(***************************************************************************)
(* Whatever depends on a collation is sent only with a column of the       *)
(* scanned tables of that collation below it, or around its CASE.          *)
(***************************************************************************)
THEOREM PlannerCollations == Spec => []CollationComesFromColumn
BY PlannerInvariant, PlannerPlans, PlannerGroupLists, CollationsSent, PTL

(***************************************************************************)
(* Texts, and the parameters that are marked in them.                      *)
(***************************************************************************)
TextsBelow(t) == \A i \in DOMAIN t.parts : ToSet(Flat(t.parts[i])) \subseteq ToSet(Flat(t))
LEMMA TextSplit ==
  ASSUME NEW t \in Texts
  PROVE  t.parts \in Seq(Texts) /\ Flat(t) \in Seq(Texts) /\ t \in ToSet(Flat(t)) /\ TextsBelow(t)
<1>1. t.parts \in Seq(Texts) /\ Flat(t) \in Seq(Texts) /\ Flat(t) = FlatOf(t, [i \in DOMAIN t.parts |-> Flat(t.parts[i])])
  BY TextsAssumption
<1>p. PICK T, parts, below, head, rest : /\ T = Texts /\ parts = t.parts /\ below = [i \in DOMAIN parts |-> Flat(parts[i])]
                                        /\ head = <<t>> /\ rest = Concat(below)
  OBVIOUS
<1>2. parts \in Seq(T) /\ DOMAIN parts = 1 .. Len(parts) /\ Len(parts) \in Nat /\ \A i \in DOMAIN parts : parts[i] \in T
  BY <1>1, <1>p
<1>3. \A i \in DOMAIN parts : Flat(parts[i]) \in Seq(T)
  BY <1>2, <1>p, TextsAssumption
<1>4. below \in [1 .. Len(parts) -> Seq(T)]
  BY <1>2, <1>3, <1>p
<1>5. below \in Seq(Seq(T))
  BY <1>2, <1>4
<1>6. rest \in Seq(T) /\ ToSet(rest) = UNION {ToSet(below[k]) : k \in DOMAIN below}
  <2>1. Concat(below) \in Seq(T) /\ ToSet(Concat(below)) = UNION {ToSet(below[k]) : k \in DOMAIN below}
    BY ONLY <1>5, ConcatList
  <2>2. rest = Concat(below)
    BY <1>p
  <2> QED BY ONLY <2>1, <2>2
<1>7. head \in Seq(T) /\ ToSet(head) = {t}
  BY <1>p DEF ToSet
<1>8. head \o rest \in Seq(T) /\ ToSet(head \o rest) = ToSet(head) \cup ToSet(rest)
  BY <1>6, <1>7, BothList
<1>9. Flat(t) = head \o rest
  BY <1>1, <1>p DEF FlatOf
<1>10. \A i \in DOMAIN parts : ToSet(Flat(parts[i])) \subseteq ToSet(rest)
  <2> SUFFICES ASSUME NEW i \in DOMAIN parts PROVE ToSet(Flat(parts[i])) \subseteq ToSet(rest)
    OBVIOUS
  <2>1. i \in DOMAIN below /\ below[i] = Flat(parts[i])
    BY <1>p
  <2> QED BY <1>6, <2>1
<1> QED BY <1>1, <1>7, <1>8, <1>9, <1>10, <1>p DEF TextsBelow

(* Without a hole and without TRANSLATE. *)
Clean(t) == \A x \in ToSet(Flat(t)) : ~IsNothing(x) /\ x.kw # "TRANSLATE"
LEMMA CleanParts ==
  ASSUME NEW t \in Texts, Clean(t)
  PROVE  ~IsNothing(t) /\ t.kw # "TRANSLATE" /\ \A i \in DOMAIN t.parts : t.parts[i] \in Texts /\ Clean(t.parts[i])
<1>1. t.parts \in Seq(Texts) /\ t \in ToSet(Flat(t)) /\ TextsBelow(t)
  BY TextSplit
<1> QED BY <1>1 DEF Clean, TextsBelow

(* The parameters marked in some texts, one after the other, are those of a list. *)
Shows(texts, list) ==
  \E ms \in Seq(Seq(Expressions)) :
    /\ Len(ms) = Len(texts) /\ list = Concat(ms) /\ list \in Seq(Expressions)
    /\ \A i \in DOMAIN ms : ms[i] = Marked(texts[i])

LEMMA ShowsText ==
  ASSUME NEW t \in Texts, ~IsMarker(t), NEW list, Shows(t.parts, list)
  PROVE  Marked(t) = list /\ list \in Seq(Expressions)
<1>p. PICK parts : parts = t.parts
  OBVIOUS
<1>1. PICK ms \in Seq(Seq(Expressions)) : /\ Len(ms) = Len(parts) /\ list = Concat(ms) /\ list \in Seq(Expressions)
                                          /\ \A i \in DOMAIN ms : ms[i] = Marked(parts[i])
  BY <1>p DEF Shows
<1>2. parts \in Seq(Texts) /\ Marked(t) = MarkedOf(t, [i \in DOMAIN parts |-> Marked(parts[i])])
  BY <1>p, TextsAssumption
<1>3. [i \in DOMAIN parts |-> Marked(parts[i])] = ms
  <2>1. DOMAIN ms = DOMAIN parts
    BY <1>1, <1>2
  <2>2. ms = [i \in DOMAIN ms |-> ms[i]]
    OBVIOUS
  <2> QED BY <1>1, <2>1, <2>2
<1>4. Marked(t) = <<>> \o list
  BY <1>1, <1>2, <1>3 DEF MarkedOf
<1> QED BY <1>1, <1>4

LEMMA ShowsOne ==
  ASSUME NEW t, NEW list \in Seq(Expressions), Marked(t) = list
  PROVE  Shows(<<t>>, list)
<1>m. PICK ms : ms = <<list>>
  OBVIOUS
<1>1. ms \in Seq(Seq(Expressions)) /\ Len(ms) = 1 /\ ms[1] = list /\ DOMAIN ms = {1}
  BY <1>m
<1>2. Concat(ms) = list
  BY <1>m, ConcatOne
<1>t. PICK texts : texts = <<t>>
  OBVIOUS
<1>3. Len(texts) = 1 /\ texts[1] = t
  BY <1>t
<1>4. \A i \in DOMAIN ms : ms[i] = Marked(texts[i])
  BY <1>1, <1>3
<1>5. Shows(texts, list)
  BY <1>1, <1>2, <1>3, <1>4 DEF Shows
<1> QED BY <1>5, <1>t

LEMMA ShowsBoth ==
  ASSUME NEW S, NEW texts \in Seq(S), NEW T, NEW others \in Seq(T), NEW a, NEW b, Shows(texts, a), Shows(others, b)
  PROVE  Shows(texts \o others, a \o b)
<1>1. PICK ms \in Seq(Seq(Expressions)) : /\ Len(ms) = Len(texts) /\ a = Concat(ms) /\ a \in Seq(Expressions)
                                          /\ \A i \in DOMAIN ms : ms[i] = Marked(texts[i])
  BY DEF Shows
<1>2. PICK ns \in Seq(Seq(Expressions)) : /\ Len(ns) = Len(others) /\ b = Concat(ns) /\ b \in Seq(Expressions)
                                          /\ \A i \in DOMAIN ns : ns[i] = Marked(others[i])
  BY DEF Shows
<1>p. PICK all, both : all = texts \o others /\ both = ms \o ns
  OBVIOUS
<1>3. /\ Len(all) = Len(texts) + Len(others) /\ Len(both) = Len(ms) + Len(ns)
      /\ Len(texts) \in Nat /\ Len(others) \in Nat /\ DOMAIN both = 1 .. (Len(ms) + Len(ns)) /\ both \in Seq(Seq(Expressions))
      /\ \A i \in 1 .. Len(texts) : all[i] = texts[i]
      /\ \A i \in (Len(texts) + 1) .. (Len(texts) + Len(others)) : all[i] = others[i - Len(texts)]
      /\ \A i \in 1 .. Len(ms) : both[i] = ms[i]
      /\ \A i \in (Len(ms) + 1) .. (Len(ms) + Len(ns)) : both[i] = ns[i - Len(ms)]
  BY <1>p
<1>4. Concat(both) = a \o b
  BY <1>1, <1>2, <1>p, ConcatBoth
<1>5. a \o b \in Seq(Expressions)
  BY <1>1, <1>2
<1>6. ASSUME NEW i \in DOMAIN both PROVE both[i] = Marked(all[i])
  <2>1. CASE i \in 1 .. Len(ms)
    <3>1. i \in DOMAIN ms /\ i \in 1 .. Len(texts)
      BY <1>1, <2>1
    <3> QED BY <1>1, <1>3, <3>1
  <2>2. CASE i \in (Len(ms) + 1) .. (Len(ms) + Len(ns))
    <3>j. PICK j : j = i - Len(ms)
      OBVIOUS
    <3>1. j \in DOMAIN ns /\ i \in (Len(texts) + 1) .. (Len(texts) + Len(others)) /\ j = i - Len(texts)
      BY <1>1, <1>2, <1>3, <2>2, <3>j
    <3> QED BY <1>2, <1>3, <2>2, <3>1, <3>j
  <2> QED BY <1>3, <2>1, <2>2
<1>7. Len(both) = Len(all)
  BY <1>1, <1>2, <1>3
<1>8. Shows(all, Concat(both))
  BY <1>3, <1>4, <1>5, <1>6, <1>7 DEF Shows
<1> QED BY <1>4, <1>8, <1>p

LEMMA ShowsNone ==
  ASSUME NEW S, NEW texts \in Seq(S), \A i \in DOMAIN texts : Marked(texts[i]) = <<>>
  PROVE  Shows(texts, <<>>)
<1>m. PICK ms, E : E = Expressions /\ ms = [i \in 1 .. Len(texts) |-> Marked(texts[i])]
  OBVIOUS
<1>1. DOMAIN texts = 1 .. Len(texts) /\ Len(texts) \in Nat
  OBVIOUS
<1>2. ms \in [1 .. Len(texts) -> Seq(E)]
  <2>1. <<>> \in Seq(E)
    OBVIOUS
  <2> QED BY <1>1, <1>m, <2>1
<1>3. ms \in Seq(Seq(E)) /\ Len(ms) = Len(texts)
  BY <1>1, <1>2
<1>4. Concat(ms) \in Seq(E) /\ ToSet(Concat(ms)) = UNION {ToSet(ms[k]) : k \in DOMAIN ms}
  BY <1>3, ConcatList
<1>5. ToSet(Concat(ms)) = {}
  <2>1. ToSet(<<>>) = {}
    BY DEF ToSet
  <2>2. \A k \in DOMAIN ms : ms[k] = <<>>
    BY <1>1, <1>m
  <2> QED BY <1>4, <2>1, <2>2
<1>6. Concat(ms) = <<>>
  BY <1>4, <1>5 DEF ToSet
<1>7. \A i \in DOMAIN ms : ms[i] = Marked(texts[i])
  BY <1>m
<1>8. <<>> \in Seq(Expressions)
  OBVIOUS
<1> QED BY <1>3, <1>6, <1>7, <1>8, <1>m DEF Shows

LEMMA ShowsLeaf ==
  ASSUME NEW t \in Texts, t.parts = <<>>
  PROVE  Marked(t) = IF IsMarker(t) THEN <<t.of>> ELSE <<>>
<1>1. Marked(t) = MarkedOf(t, [i \in DOMAIN t.parts |-> Marked(t.parts[i])])
  BY TextsAssumption
<1>2. [i \in DOMAIN t.parts |-> Marked(t.parts[i])] = <<>>
  OBVIOUS
<1>3. Marked(t) = (IF IsMarker(t) THEN <<t.of>> ELSE <<>>) \o <<>>
  BY <1>1, <1>2, ConcatNone DEF MarkedOf
<1> QED BY <1>3

(***************************************************************************)
(* Renderings whose list of parameters is that of the markers.             *)
(***************************************************************************)
Listed(r) == r.txt \in Texts /\ r.seen \in Seq(Expressions) /\ (Clean(r.txt) => Marked(r.txt) = r.seen)

LEMMA ShowsAll ==
  ASSUME NEW S, NEW rs \in Seq(S), \A i \in DOMAIN rs : Listed(rs[i]) /\ Clean(rs[i].txt)
  PROVE  /\ [i \in DOMAIN rs |-> rs[i].txt] \in Seq(Texts)
         /\ Shows([i \in DOMAIN rs |-> rs[i].txt], Concat([i \in DOMAIN rs |-> rs[i].seen]))
<1>p. PICK texts, ms, n, E, T : /\ texts = [i \in DOMAIN rs |-> rs[i].txt] /\ ms = [i \in DOMAIN rs |-> rs[i].seen] /\ n = Len(rs)
                                /\ E = Expressions /\ T = Texts
  OBVIOUS
<1>1. DOMAIN rs = 1 .. n /\ n \in Nat
  BY <1>p
<1>2. \A i \in 1 .. n : rs[i].txt \in T /\ rs[i].seen \in Seq(E) /\ Marked(rs[i].txt) = rs[i].seen
  BY <1>1, <1>p DEF Listed
<1>3. texts \in [1 .. n -> T] /\ ms \in [1 .. n -> Seq(E)]
  BY <1>1, <1>2, <1>p
<1>4. texts \in Seq(T) /\ ms \in Seq(Seq(E)) /\ Len(texts) = n /\ Len(ms) = n /\ DOMAIN ms = 1 .. n
  BY <1>1, <1>3
<1>5. \A i \in DOMAIN ms : ms[i] = Marked(texts[i])
  BY <1>1, <1>2, <1>4, <1>p
<1>6. Concat(ms) \in Seq(E)
  BY <1>4, ConcatList
<1>7. Shows(texts, Concat(ms))
  BY <1>4, <1>5, <1>6, <1>p DEF Shows
<1> QED BY <1>4, <1>7, <1>p

LEMMA EachShows ==
  ASSUME NEW S, NEW rs \in Seq(S), \A i \in DOMAIN rs : Listed(rs[i]), NEW each, each = Each(rs), each.ok,
         \A i \in DOMAIN each.parts : Clean(each.parts[i])
  PROVE  each.parts \in Seq(Texts) /\ Shows(each.parts, each.seen)
<1>p. PICK n : n = Len(rs)
  OBVIOUS
<1>1. DOMAIN rs = 1 .. n /\ n \in Nat
  BY <1>p
<1>2. {i \in DOMAIN rs : IsNothing(rs[i].txt)} = {}
  BY DEF Each
<1>3. each.parts = [i \in 1 .. n |-> rs[i].txt] /\ each.seen = Concat([i \in 1 .. n |-> rs[i].seen])
  BY <1>2, <1>p DEF Each
<1>4. \A i \in DOMAIN rs : Listed(rs[i]) /\ Clean(rs[i].txt)
  BY <1>1, <1>3
<1>5. /\ [i \in DOMAIN rs |-> rs[i].txt] \in Seq(Texts)
      /\ Shows([i \in DOMAIN rs |-> rs[i].txt], Concat([i \in DOMAIN rs |-> rs[i].seen]))
  BY <1>4, ShowsAll
<1> QED BY <1>1, <1>3, <1>5

(* kw is no marker *)
Markers == {"?", ":p"}
LEMMA WrapListed ==
  ASSUME NEW kw, kw \notin Markers, NEW each, NEW r, r = Wrap(kw, each), r.txt \in Texts, Clean(r.txt),
         each.ok => ((\A i \in DOMAIN each.parts : Clean(each.parts[i])) => Shows(each.parts, each.seen))
  PROVE  Marked(r.txt) = r.seen
<1>1. ~IsNothing(r.txt)
  BY CleanParts
<1>2. r.seen = each.seen /\ each.ok /\ r.txt = Text(kw, each.parts)
  BY <1>1 DEF Wrap, IsNothing, Nothing, Text
<1>t. PICK t : t = r.txt
  OBVIOUS
<1>3. t \in Texts /\ t.kw = kw /\ t.parts = each.parts
  BY <1>2, <1>t DEF Text
<1>4. \A i \in DOMAIN each.parts : Clean(each.parts[i])
  BY <1>3, <1>t, CleanParts
<1>5. Shows(t.parts, each.seen) /\ ~IsMarker(t)
  BY <1>2, <1>3, <1>4 DEF IsMarker, Markers
<1> QED BY <1>2, <1>3, <1>5, <1>t, ShowsText

LEMMA EachListed ==
  ASSUME NEW S, NEW rs \in Seq(S), \A i \in DOMAIN rs : Listed(rs[i]), NEW kw, kw \notin Markers,
         NEW r, r = Wrap(kw, Each(rs)), r.txt \in Texts, Clean(r.txt)
  PROVE  Marked(r.txt) = r.seen
<1>e. PICK each : each = Each(rs)
  OBVIOUS
<1>1. each.ok /\ (\A i \in DOMAIN each.parts : Clean(each.parts[i])) => Shows(each.parts, each.seen)
  BY <1>e, EachShows
<1> QED BY <1>e, <1>1, WrapListed

(***************************************************************************)
(* What is rendered below an expression is smaller than it.                *)
(***************************************************************************)
Less(e, o) == o \in Expressions /\ Size(o) < Size(e) /\ ToSet(Nodes(o)) \subseteq ToSet(Nodes(e))
LEMMA ChildLess ==
  ASSUME NEW e \in Expressions, e # NoExpr
  PROVE  Children(e) \in Seq(Expressions) /\ \A c \in ToSet(Children(e)) : Less(e, c)
BY NodesSplit DEF Less

LEMMA LessAgain ==
  ASSUME NEW e \in Expressions, NEW o, NEW p, Less(e, o), Less(o, p)
  PROVE  Less(e, p)
<1>1. Size(e) \in Nat /\ Size(o) \in Nat /\ Size(p) \in Nat
  BY NodeSize DEF Less
<1> QED BY <1>1 DEF Less

LEMMA ArrayBelow ==
  ASSUME NEW e \in Expressions, IsA(e, "ScalarArray")
  PROVE  /\ e # NoExpr /\ e.args \in Seq(Expressions) /\ Len(e.args) = 2 /\ e.args = Children(e)
         /\ Less(e, e.args[1]) /\ Less(e, e.args[2]) /\ Last(e.args) = e.args[2]
         /\ Elements(Last(e.args)) \in Seq(Expressions) /\ \A o \in ToSet(Elements(Last(e.args))) : Less(e, o)
<1>1. e # NoExpr /\ e.args = Children(e)
  BY DEF IsA, NoExpr, Children
<1>2. Len(e.args) = 2
  BY ExpressionsAssumption DEF WellFormed
<1>3. e.args \in Seq(Expressions) /\ \A c \in ToSet(e.args) : Less(e, c)
  BY <1>1, ChildLess
<1>4. Less(e, e.args[1]) /\ Less(e, e.args[2]) /\ Last(e.args) = e.args[2]
  <2>1. 1 \in DOMAIN e.args /\ 2 \in DOMAIN e.args
    BY <1>2, <1>3
  <2> QED BY <1>2, <1>3, <2>1 DEF ToSet, Last
<1>l. PICK last : last = e.args[2]
  OBVIOUS
<1>5. last \in Expressions
  BY <1>4, <1>l DEF Less
<1>6. ASSUME IsA(ArrayOf(last), "Array")
      PROVE  /\ ArrayOf(last) \in Expressions /\ Less(e, ArrayOf(last))
  <2>1. CASE IsA(last, "ArrayCoerce")
    <3>1. last # NoExpr /\ Children(last) = last.args
      BY <2>1 DEF IsA, NoExpr, Children
    <3>2. Len(last.args) = 1
      BY <1>5, <2>1, ExpressionsAssumption DEF WellFormed, IsA
    <3>3. last.args \in Seq(Expressions) /\ \A c \in ToSet(last.args) : Less(last, c)
      BY <1>5, <3>1, ChildLess
    <3>4. Less(last, last.args[1])
      <4>1. 1 \in DOMAIN last.args
        BY <3>2, <3>3
      <4> QED BY <3>3, <4>1 DEF ToSet
    <3>5. Less(e, last.args[1])
      BY <1>4, <1>l, <3>4, LessAgain
    <3> QED BY <2>1, <3>5 DEF ArrayOf, Less
  <2>2. CASE ~IsA(last, "ArrayCoerce")
    BY <1>4, <1>5, <1>l, <2>2 DEF ArrayOf
  <2> QED BY <2>1, <2>2
<1>7. Elements(last) \in Seq(Expressions) /\ \A o \in ToSet(Elements(last)) : Less(e, o)
  <2>1. CASE IsA(ArrayOf(last), "Array")
    <3>a. PICK a : a = ArrayOf(last)
      OBVIOUS
    <3>1. a \in Expressions /\ Less(e, a) /\ a # NoExpr /\ Children(a) = a.args
      BY <1>6, <2>1, <3>a DEF IsA, NoExpr, Children
    <3>2. a.args \in Seq(Expressions) /\ \A c \in ToSet(a.args) : Less(a, c)
      BY <3>1, ChildLess
    <3>3. \A c \in ToSet(a.args) : Less(e, c)
      BY <3>1, <3>2, LessAgain
    <3> QED BY <2>1, <3>a, <3>2, <3>3 DEF Elements
  <2>2. CASE ~IsA(ArrayOf(last), "Array")
    BY <2>2 DEF Elements, ToSet
  <2> QED BY <2>1, <2>2
<1> QED BY <1>1, <1>2, <1>3, <1>4, <1>7, <1>l

\* Of a CASE without argument the conditions and results in turn, and the default.
CaseParts(e, all) ==
  /\ all \in Seq(Expressions) /\ Len(all) = 2 * Len(e.whens) /\ Len(e.whens) \in Nat
  /\ e.default \in Expressions /\ Less(e, e.default) /\ \A c \in ToSet(all) : Less(e, c)
  /\ Operands(e) = all \o Present(e.default)
  /\ Inputs(e) = <<NoExpr>> \o all \o <<e.default>>
LEMMA CaseBelow ==
  ASSUME NEW e \in Expressions, IsA(e, "Case"), e.arg = NoExpr, NEW all, all = Concat(e.whens)
  PROVE  CaseParts(e, all)
<1>0. e # NoExpr /\ e.whens \in Seq(Expressions \X Expressions) /\ e.default \in Expressions /\ NoExpr \in Expressions
  <2>1. e # NoExpr
    BY DEF IsA, NoExpr
  <2>2. WellFormed(e) /\ NoExpr \in Expressions
    BY ExpressionsAssumption
  <2> QED BY <2>1, <2>2 DEF WellFormed
<1>w. PICK whens, n : whens = e.whens /\ n = Len(e.whens)
  OBVIOUS
<1>1. n \in Nat /\ DOMAIN whens = 1 .. n /\ Len(whens) = n /\ \A i \in 1 .. n : whens[i] \in Expressions \X Expressions
  BY <1>0, <1>w
<1>p. ASSUME NEW p \in Expressions \X Expressions
      PROVE  p \in Seq(Expressions) /\ Len(p) = 2 /\ p = <<p[1], p[2]>>
  <2>1. PICK a \in Expressions, b \in Expressions : p = <<a, b>>
    OBVIOUS
  <2>2. <<a, b>> \in Seq(Expressions) /\ Len(<<a, b>>) = 2 /\ <<a, b>>[1] = a /\ <<a, b>>[2] = b
    OBVIOUS
  <2> QED BY <2>1, <2>2
<1>2. \A p \in Expressions \X Expressions : p \in Seq(Expressions) /\ Len(p) = 2 /\ p = <<p[1], p[2]>>
  BY <1>p
<1>3. whens \in Seq(Seq(Expressions)) /\ \A k \in DOMAIN whens : Len(whens[k]) = 2
  <2>1. \A i \in 1 .. n : whens[i] \in Seq(Expressions) /\ Len(whens[i]) = 2
    BY <1>1, <1>2
  <2>2. whens \in [1 .. n -> Seq(Expressions)]
    <3>1. whens = [i \in 1 .. n |-> whens[i]]
      BY <1>0, <1>1, <1>w
    <3> QED BY <2>1, <3>1
  <2> QED BY <1>1, <2>1, <2>2
<1>4. all = Concat(whens)
  BY <1>w
<1>5. all \in Seq(Expressions) /\ Len(all) = 2 * n
  BY <1>1, <1>3, <1>4, ConcatList, ConcatPairs
<1>6. [i \in DOMAIN whens |-> <<whens[i][1], whens[i][2]>>] = whens
  <2>1. \A i \in 1 .. n : <<whens[i][1], whens[i][2]>> = whens[i]
    BY <1>1, <1>2
  <2>2. whens = [i \in 1 .. n |-> whens[i]]
    BY <1>0, <1>1, <1>w
  <2> QED BY <1>1, <2>1, <2>2
<1>7. [i \in DOMAIN e.whens |-> <<When(e, e.whens[i]), e.whens[i][2]>>] = whens
  <2>1. \A w : When(e, w) = w[1]
    BY DEF When
  <2> QED BY <1>6, <1>w, <2>1
<1>8. Operands(e) = (<<>> \o all) \o Present(e.default)
  <2>1. ~IsA(e, "ScalarArray") /\ ~IsA(e, "Aggref") /\ Present(e.arg) = <<>>
    BY DEF IsA, Present
  <2> QED BY <1>4, <1>7, <2>1 DEF Operands
<1>9. Inputs(e) = <<NoExpr>> \o all \o <<e.default>>
  <2>1. ~IsA(e, "ScalarArray")
    BY DEF IsA
  <2> QED BY <1>4, <1>7, <2>1 DEF Inputs
<1>10. <<>> \o all = all
  BY <1>5
<1>11. Children(e) = (<<NoExpr>> \o all) \o <<e.default>>
  BY <1>4, <1>w DEF Children, IsA
<1>a. PICK first, last, both : first = <<NoExpr>> /\ last = <<e.default>> /\ both = <<NoExpr>> \o all
  OBVIOUS
<1>12. first \in Seq(Expressions) /\ last \in Seq(Expressions) /\ ToSet(last) = {e.default}
  BY <1>0, <1>a DEF ToSet
<1>13. both \in Seq(Expressions) /\ ToSet(all) \subseteq ToSet(both)
  <2>1. first \o all \in Seq(Expressions) /\ ToSet(first \o all) = ToSet(first) \cup ToSet(all)
    BY <1>5, <1>12, BothList
  <2>2. both = first \o all
    BY <1>a
  <2> QED BY <2>1, <2>2
<1>14. ToSet(both \o last) = ToSet(both) \cup ToSet(last)
  BY <1>12, <1>13, BothList
<1>15. ToSet(all) \subseteq ToSet(Children(e)) /\ e.default \in ToSet(Children(e))
  BY <1>11, <1>12, <1>13, <1>14, <1>a
<1>16. Less(e, e.default) /\ \A c \in ToSet(all) : Less(e, c)
  BY <1>0, <1>15, ChildLess
<1> QED BY <1>0, <1>1, <1>5, <1>8, <1>9, <1>10, <1>16, <1>w DEF CaseParts

LEMMA OperandsLess ==
  ASSUME NEW e \in Expressions, e # NoExpr, IsA(e, "Case") => e.arg = NoExpr
  PROVE  Operands(e) \in Seq(Expressions) /\ \A o \in ToSet(Operands(e)) : Less(e, o)
<1>1. CASE IsA(e, "ScalarArray")
  <2>p. PICK first, elems : first = <<e.args[1]>> /\ elems = Elements(Last(e.args))
    OBVIOUS
  <2>1. elems \in Seq(Expressions) /\ Less(e, e.args[1]) /\ \A o \in ToSet(elems) : Less(e, o)
    BY <1>1, <2>p, ArrayBelow
  <2>2. first \in Seq(Expressions) /\ ToSet(first) = {e.args[1]}
    BY <2>1, <2>p DEF Less, ToSet
  <2>3. first \o elems \in Seq(Expressions) /\ ToSet(first \o elems) = ToSet(first) \cup ToSet(elems)
    BY <2>1, <2>2, BothList
  <2>4. Operands(e) = first \o elems
    BY <1>1, <2>p DEF Operands, IsA
  <2> QED BY <2>1, <2>2, <2>3, <2>4
<1>2. CASE IsA(e, "Case")
  <2>a. PICK all : all = Concat(e.whens)
    OBVIOUS
  <2>1. CaseParts(e, all)
    BY <1>2, <2>a, CaseBelow
  <2>d. PICK last : last = Present(e.default)
    OBVIOUS
  <2>2. last \in Seq(Expressions) /\ ToSet(last) \subseteq {e.default}
    BY <2>1, <2>d DEF CaseParts, Present, ToSet
  <2>3. all \o last \in Seq(Expressions) /\ ToSet(all \o last) = ToSet(all) \cup ToSet(last)
    <3>1. all \in Seq(Expressions)
      BY <2>1 DEF CaseParts
    <3> QED BY <2>2, <3>1, BothList
  <2> QED BY <2>1, <2>2, <2>3, <2>d DEF CaseParts
<1>3. CASE IsA(e, "Aggref")
  <2>1. e.direct \in Seq(Expressions) /\ e.args \in Seq(Expressions)
    BY <1>3, ExpressionsAssumption DEF WellFormed, AggregateFormed
  <2>2. Children(e) = (e.direct \o e.args) \o <<e.filter>> /\ Operands(e) = e.direct \o e.args
    BY <1>3 DEF Children, Operands, IsA
  <2>3. Children(e) \in Seq(Expressions) /\ \A c \in ToSet(Children(e)) : Less(e, c)
    BY ChildLess
  <2>o. PICK os, last : os = e.direct \o e.args /\ last = <<e.filter>>
    OBVIOUS
  <2>4. os \in Seq(Expressions)
    BY <2>1, <2>o, BothList
  <2>5. ToSet(os) \subseteq ToSet(os \o last)
    <3>1. \A i \in DOMAIN os : i \in DOMAIN (os \o last) /\ (os \o last)[i] = os[i]
      <4>1. last \in Seq({e.filter}) /\ Len(last) = 1
        BY <2>o
      <4> QED BY <2>4, <4>1
    <3> QED BY <3>1 DEF ToSet
  <2> QED BY <2>2, <2>3, <2>4, <2>5, <2>o
<1>4. CASE ~IsA(e, "ScalarArray") /\ ~IsA(e, "Case") /\ ~IsA(e, "Aggref")
  <2>1. Operands(e) = Children(e)
    BY <1>4 DEF Operands
  <2> QED BY <2>1, ChildLess
<1> QED BY <1>1, <1>2, <1>3, <1>4

(***************************************************************************)
(* An expression whose text has no hole and no TRANSLATE lists the         *)
(* parameters in the order of their markers: one lemma per kind of node.   *)
(***************************************************************************)
Renderings == {Render(o, relids) : o \in Expressions, relids \in SUBSET Bases}
Arm(e, relids, rs, r) ==
  /\ e \in Expressions /\ e # NoExpr /\ relids \in SUBSET Bases
  /\ r = deparseExpr(e, rs, relids) /\ r.txt \in Texts /\ r.seen \in Seq(Expressions) /\ Clean(r.txt)
  /\ rs \in Seq(Renderings) /\ Len(rs) = Len(Operands(e))
  /\ (IsA(e, "Case") => e.arg = NoExpr) => \A i \in DOMAIN rs : Listed(rs[i])

LEMMA ArmNotNothing ==
  ASSUME NEW e, NEW relids, NEW rs, NEW r, Arm(e, relids, rs, r)
  PROVE  ~IsNothing(r.txt) /\ r.txt.kw # "" /\ r.txt # Nothing
<1>1. ~IsNothing(r.txt)
  BY CleanParts DEF Arm
<1>2. IsNothing(Nothing) /\ (r.txt.kw = "" => IsNothing(r.txt))
  BY DEF IsNothing, Nothing, Text
<1>3. r.txt = Nothing => IsNothing(r.txt)
  BY <1>2
<1> QED BY <1>1, <1>2, <1>3

LEMMA LeafListed ==
  ASSUME NEW t \in Texts, NEW kw, NEW x, t = Leaf(kw, x)
  PROVE  Marked(t) = IF kw \in Markers THEN <<x>> ELSE <<>>
<1>1. t.parts = <<>> /\ t.kw = kw /\ t.of = x
  BY DEF Leaf
<1> QED BY <1>1, ShowsLeaf DEF IsMarker, Markers

LEMMA PlainLeaf ==
  ASSUME NEW t \in Texts, NEW x, NEW kw \in {"NULL", "lit", ":now", "ctid", "oid", "CASE ROW", "ROW", "col", "*"}, t = Leaf(kw, x)
  PROVE  Marked(t) = <<>>
<1>1. kw \notin Markers
  BY DEF Markers
<1> QED BY <1>1, LeafListed

LEMMA ConstText ==
  ASSUME NEW e, NEW r, r = RenderConst(e), r.txt # Nothing
  PROVE  r.seen = <<>> /\ (r.txt = Leaf("NULL", e) \/ r.txt = Leaf("lit", e))
<1>1. CASE e.null
  <2>1. r = Rendered(IF canHandleType(e.type) THEN Leaf("NULL", e) ELSE Nothing)
    BY <1>1 DEF RenderConst
  <2> QED BY <2>1 DEF Rendered
<1>2. CASE ~e.null
  <2>1. r = Rendered(IF Len(e.val) = 1 /\ datumRenders(e.val[1], e.type) THEN Leaf("lit", e) ELSE Nothing)
    BY <1>2 DEF RenderConst
  <2> QED BY <2>1 DEF Rendered
<1> QED BY <1>1, <1>2

LEMMA ParamText ==
  ASSUME NEW e, NEW r, r = RenderParam(e), r.txt # Nothing
  PROVE  r.seen = <<e>> /\ r.txt = Leaf("?", e)
<1>1. CASE canHandleType(e.type) /\ e.type # "interval"
  BY <1>1 DEF RenderParam
<1>2. CASE ~(canHandleType(e.type) /\ e.type # "interval")
  <2>1. r = Rendered(Nothing)
    BY <1>2 DEF RenderParam
  <2> QED BY <2>1 DEF Rendered
<1> QED BY <1>1, <1>2

ColumnLeaves == {"ctid", "oid", "CASE ROW", "ROW", "col"}
LEMMA ColumnText ==
  ASSUME NEW e, e.attno \in Int, NEW q \in BOOLEAN
  PROVE  (\E kw \in ColumnLeaves : deparseColumnRef(e, q) = Leaf(kw, e)) /\ (e.attno > 0 => deparseColumnRef(e, q) = Leaf("col", e))
<1>n. PICK n, t : n = e.attno /\ t = deparseColumnRef(e, q)
  OBVIOUS
<1>0. n \in Int
  BY <1>n
<1>1. CASE n = -1
  <2>1. t = Leaf("ctid", e)
    BY <1>n, <1>1 DEF deparseColumnRef
  <2> QED BY <1>n, <1>1, <2>1 DEF ColumnLeaves
<1>2. CASE n < -1
  <2>1. n # -1 /\ n # 0 /\ ~(n > 0)
    BY <1>0, <1>2
  <2>2. t = Leaf("oid", e)
    BY <1>n, <1>2, <2>1 DEF deparseColumnRef
  <2> QED BY <1>n, <2>1, <2>2 DEF ColumnLeaves
<1>3. CASE n = 0
  <2>0. n # -1 /\ ~(n < -1) /\ ~(n > 0)
    BY <1>0, <1>3
  <2>1. CASE q = TRUE
    <3>1. t = Leaf("CASE ROW", e)
      BY <1>n, <1>3, <2>0, <2>1 DEF deparseColumnRef
    <3> QED BY <1>n, <2>0, <3>1 DEF ColumnLeaves
  <2>2. CASE q = FALSE
    <3>1. t = Leaf("ROW", e)
      BY <1>n, <1>3, <2>0, <2>2 DEF deparseColumnRef
    <3> QED BY <1>n, <2>0, <3>1 DEF ColumnLeaves
  <2> QED BY <2>1, <2>2
<1>4. CASE n > 0
  <2>1. n # -1 /\ n # 0 /\ ~(n < -1)
    BY <1>0, <1>4
  <2>2. t = Leaf("col", e)
    BY <1>n, <2>1 DEF deparseColumnRef
  <2> QED BY <1>n, <2>2 DEF ColumnLeaves
<1>5. n = -1 \/ n < -1 \/ n = 0 \/ n > 0
  BY <1>0
<1> QED BY <1>1, <1>2, <1>3, <1>4, <1>5

LEMMA VarText ==
  ASSUME NEW e \in Expressions, IsA(e, "Var"), NEW relids, NEW r, r = RenderVar(e, relids)
  PROVE  /\ e.varno \notin relids => r.seen = <<e>> /\ r.txt = Leaf(":p", e)
         /\ e.varno \in relids =>
              /\ r.seen = <<>> /\ \E kw \in ColumnLeaves : r.txt = Leaf(kw, e)
              /\ e.attno > 0 => r.txt = Leaf("col", e)
<1>1. CASE e.varno \notin relids
  BY <1>1 DEF RenderVar
<1>2. CASE e.varno \in relids
  <2>q. PICK q : q = (Cardinality(relids) > 1)
    OBVIOUS
  <2>b. q \in BOOLEAN
    <3>1. (Cardinality(relids) > 1) \in BOOLEAN
      OBVIOUS
    <3> QED BY <2>q, <3>1
  <2>1. r = Rendered(deparseColumnRef(e, q))
    BY <1>2, <2>q DEF RenderVar
  <2>2. r.txt = deparseColumnRef(e, q) /\ r.seen = <<>>
    BY <2>1 DEF Rendered
  <2>3. e.attno \in Int
    BY ExpressionsAssumption DEF WellFormed
  <2> QED BY <1>2, <2>2, <2>3, <2>b, ColumnText
<1> QED BY <1>1, <1>2

LEMMA NowText ==
  ASSUME NEW e, NEW r, r = RenderCoerceViaIO(e) \/ r = RenderSQLValue(e), r.txt # Nothing
  PROVE  r.seen = <<>> /\ r.txt = Leaf(":now", e)
<1>1. r = Rendered(Leaf(":now", e)) \/ r = Rendered(Nothing)
  BY DEF RenderCoerceViaIO, RenderSQLValue
<1> QED BY <1>1 DEF Rendered

LEMMA LeavesListed ==
  ASSUME NEW e, NEW relids, NEW rs, NEW r, Arm(e, relids, rs, r),
         e.tag \in {"Const", "Param", "Var", "CoerceViaIO", "SQLValue"}
  PROVE  Marked(r.txt) = r.seen
<1>0. /\ r = deparseExpr(e, rs, relids) /\ r.txt # Nothing /\ r.txt \in Texts /\ e \in Expressions
  BY ArmNotNothing DEF Arm
<1>m. "?" \in Markers /\ ":p" \in Markers
  BY DEF Markers
<1>1. CASE e.tag = "Const"
  <2>1. r = RenderConst(e)
    BY <1>0, <1>1 DEF deparseExpr
  <2> QED BY <1>0, <2>1, ConstText, PlainLeaf
<1>2. CASE e.tag = "Param"
  <2>1. r = RenderParam(e)
    BY <1>0, <1>2 DEF deparseExpr
  <2> QED BY <1>0, <1>m, <2>1, ParamText, LeafListed
<1>3. CASE e.tag = "Var"
  <2>1. r = RenderVar(e, relids)
    BY <1>0, <1>3 DEF deparseExpr
  <2>2. CASE e.varno \in relids
    <3>1. r.seen = <<>> /\ \E kw \in ColumnLeaves : r.txt = Leaf(kw, e)
      BY <1>0, <1>3, <2>1, <2>2, VarText DEF IsA
    <3>2. PICK kw \in ColumnLeaves : r.txt = Leaf(kw, e)
      BY <3>1
    <3>3. kw \in {"NULL", "lit", ":now", "ctid", "oid", "CASE ROW", "ROW", "col"}
      BY <3>2 DEF ColumnLeaves
    <3> QED BY <1>0, <3>1, <3>2, <3>3, PlainLeaf
  <2>3. CASE e.varno \notin relids
    <3>1. r.seen = <<e>> /\ r.txt = Leaf(":p", e)
      BY <1>0, <1>3, <2>1, <2>3, VarText DEF IsA
    <3>2. Marked(r.txt) = <<e>>
      BY <1>0, <1>m, <3>1, LeafListed
    <3> QED BY <3>1, <3>2
  <2> QED BY <2>2, <2>3
<1>4. CASE e.tag \in {"CoerceViaIO", "SQLValue"}
  <2>1. r = RenderCoerceViaIO(e) \/ r = RenderSQLValue(e)
    BY <1>0, <1>4 DEF deparseExpr
  <2> QED BY <1>0, <2>1, NowText, PlainLeaf
<1> QED BY <1>1, <1>2, <1>3, <1>4

\* Nodes whose operands are written one after the other.
LEMMA WrappedListed ==
  ASSUME NEW e, NEW relids, NEW rs, NEW r, Arm(e, relids, rs, r), NEW kw, kw \notin Markers,
         IsA(e, "Case") => e.arg = NoExpr, r = Wrap(kw, Each(rs))
  PROVE  Marked(r.txt) = r.seen
<1>1. rs \in Seq(Renderings) /\ (\A i \in DOMAIN rs : Listed(rs[i])) /\ r.txt \in Texts /\ Clean(r.txt)
  BY DEF Arm
<1> QED BY <1>1, EachListed

LEMMA NamesNotMarkers ==
  /\ \A name, left, right : isTranslatableOpExpr(name, left, right) => DB2Operator(name) \notin Markers
  /\ \A e : isTranslatableFuncExpr(e) /\ e.form # "implicit" => DB2Function(e.name) \notin Markers
<1>1. ASSUME NEW name, NEW left, NEW right, isTranslatableOpExpr(name, left, right)
      PROVE  DB2Operator(name) \notin Markers
  <2>1. name \notin Markers
    BY <1>1 DEF isTranslatableOpExpr, Markers
  <2> QED BY <2>1 DEF DB2Operator, Markers
<1>2. ASSUME NEW e, isTranslatableFuncExpr(e), e.form # "implicit"
      PROVE  DB2Function(e.name) \notin Markers
  <2>1. e.name \notin Markers
    BY <1>2 DEF isTranslatableFuncExpr, isTranslatableNormalFunction, Markers
  <2> QED BY <2>1 DEF DB2Function, Markers
<1> QED BY <1>1, <1>2

LEMMA OperatorsListed ==
  ASSUME NEW e, NEW relids, NEW rs, NEW r, Arm(e, relids, rs, r),
         e.tag \in {"Op", "Distinct", "NullIf", "Bool", "Coalesce"}
  PROVE  Marked(r.txt) = r.seen
<1>0. /\ r = deparseExpr(e, rs, relids) /\ r.txt # Nothing /\ e \in Expressions /\ ~IsA(e, "Case")
  BY ArmNotNothing DEF Arm, IsA
<1>1. CASE e.tag = "Op"
  <2>1. r = RenderOp(e, rs)
    BY <1>0, <1>1 DEF deparseExpr
  <2>2. isTranslatableOpExpr(e.name, e.left, e.right) /\ r = Wrap(DB2Operator(e.name), Each(rs))
    BY <1>0, <2>1 DEF RenderOp, Declined
  <2> QED BY <1>0, <2>2, NamesNotMarkers, WrappedListed
<1>2. CASE e.tag = "Distinct"
  <2>1. r = RenderDistinct(e, rs)
    BY <1>0, <1>2 DEF deparseExpr
  <2>2. r = Wrap("IS DISTINCT FROM", Each(rs))
    <3>1. CASE canHandleType(e.right)
      BY <2>1, <3>1 DEF RenderDistinct
    <3>2. CASE ~canHandleType(e.right)
      <4>1. r = Declined(<<>>)
        BY <2>1, <3>2 DEF RenderDistinct
      <4>2. r.txt = Nothing
        BY <4>1 DEF Declined
      <4> QED BY <1>0, <4>2
    <3> QED BY <3>1, <3>2
  <2> QED BY <1>0, <2>2, WrappedListed DEF Markers
<1>3. CASE e.tag = "NullIf"
  <2>1. r = RenderNullIf(e, rs)
    BY <1>0, <1>3 DEF deparseExpr
  <2>2. r = Wrap("NULLIF", Each(rs))
    BY <1>0, <2>1 DEF RenderNullIf, Declined
  <2> QED BY <1>0, <2>2, WrappedListed DEF Markers
<1>4. CASE e.tag = "Bool"
  <2>1. r = Wrap(e.name, Each(rs))
    BY <1>0, <1>4 DEF deparseExpr
  <2>2. e.name \notin Markers
    BY <1>0, <1>4, ExpressionsAssumption DEF WellFormed, IsA, Markers
  <2> QED BY <1>0, <2>1, <2>2, WrappedListed
<1>5. CASE e.tag = "Coalesce"
  <2>1. r = RenderCoalesce(e, rs)
    BY <1>0, <1>5 DEF deparseExpr
  <2>2. r = Wrap("COALESCE", Each(rs))
    BY <1>0, <2>1 DEF RenderCoalesce, Declined
  <2> QED BY <1>0, <2>2, WrappedListed DEF Markers
<1> QED BY <1>1, <1>2, <1>3, <1>4, <1>5

\* Nodes of which nothing but an operand is written, or a test behind it.
LEMMA FirstListed ==
  ASSUME NEW e, NEW relids, NEW rs, NEW r, Arm(e, relids, rs, r), ~IsA(e, "Case"), Operands(e) # <<>>
  PROVE  1 \in DOMAIN rs /\ Listed(rs[1])
<1>1. Operands(e) \in Seq(Expressions)
  BY OperandsLess DEF Arm
<1>2. 1 \in DOMAIN rs
  BY <1>1 DEF Arm
<1> QED BY <1>2 DEF Arm

LEMMA OneOperand ==
  ASSUME NEW e \in Expressions, e.tag \in {"Relabel", "CoerceToDomain", "NullTest"} \/ (e.tag = "Func" /\ e.form = "implicit")
  PROVE  Operands(e) = e.args /\ e.args # <<>>
<1>1. WellFormed(e)
  BY ExpressionsAssumption
<1>2. e.args # <<>>
  BY <1>1 DEF WellFormed, IsA
<1> QED BY <1>2 DEF Operands, Children, IsA

LEMMA PassedOnListed ==
  ASSUME NEW e, NEW relids, NEW rs, NEW r, Arm(e, relids, rs, r), e.tag \in {"Relabel", "CoerceToDomain", "NullTest"}
  PROVE  Marked(r.txt) = r.seen
<1>0. /\ r = deparseExpr(e, rs, relids) /\ e \in Expressions /\ ~IsA(e, "Case") /\ r.txt \in Texts /\ Clean(r.txt)
  BY DEF Arm, IsA
<1>a. PICK arg : arg = rs[1]
  OBVIOUS
<1>1. Listed(arg)
  BY <1>0, <1>a, OneOperand, FirstListed
<1>2. CASE e.tag \in {"Relabel", "CoerceToDomain"}
  <2>1. r = arg
    BY <1>0, <1>2, <1>a DEF deparseExpr
  <2> QED BY <1>0, <1>1, <2>1 DEF Listed
<1>3. CASE e.tag = "NullTest"
  <2>1. r = RenderNullTest(e, arg)
    BY <1>0, <1>3, <1>a DEF deparseExpr
  <2>2. r.seen = arg.seen /\ \E kw \in {"IS NULL", "IS NOT NULL"} : r.txt = Text(kw, <<arg.txt>>)
    <3>1. r.txt = Text(IF e.isNull THEN "IS NULL" ELSE "IS NOT NULL", <<arg.txt>>)
      BY <2>1 DEF RenderNullTest
    <3>2. r.seen = arg.seen
      BY <2>1 DEF RenderNullTest
    <3> QED BY <3>1, <3>2
  <2>t. PICK t : t = r.txt
    OBVIOUS
  <2>3. t.parts = <<arg.txt>> /\ ~IsMarker(t)
    <3>1. PICK kw \in {"IS NULL", "IS NOT NULL"} : t = Text(kw, <<arg.txt>>)
      BY <2>2, <2>t
    <3>2. t.parts = <<arg.txt>> /\ t.kw = kw
      BY <3>1 DEF Text
    <3>3. kw \notin {"?", ":p"}
      OBVIOUS
    <3> QED BY <3>2, <3>3 DEF IsMarker
  <2>4. Clean(arg.txt)
    <3>1. 1 \in DOMAIN t.parts /\ t.parts[1] = arg.txt
      BY <2>3
    <3> QED BY <1>0, <2>t, <3>1, CleanParts
  <2>5. Marked(arg.txt) = arg.seen /\ arg.seen \in Seq(Expressions)
    BY <1>1, <2>4 DEF Listed
  <2>6. Shows(t.parts, arg.seen)
    BY <2>3, <2>5, ShowsOne
  <2> QED BY <1>0, <2>2, <2>3, <2>6, <2>t, ShowsText
<1> QED BY <1>2, <1>3

\* A comparison with a list, taken from a constant array or from the elements of a constructor.
ListText(e, rs, ps, ss) ==
  LET last == Last(e.args) IN
  \/ IsA(last, "Const") /\ last.null /\ ps = <<Leaf("NULL", last)>> /\ ss = <<>>
  \/ IsA(last, "Const") /\ ~last.null /\ ps = ElementTexts(last, e.left) /\ ss = <<>>
  \/ IsA(ArrayOf(last), "Array") /\ Each(Tail(rs)).ok /\ ps = Each(Tail(rs)).parts /\ ss = Each(Tail(rs)).seen
LEMMA InListText ==
  ASSUME NEW e \in Expressions, IsA(e, "ScalarArray"), NEW rs, NEW list, list = InList(e, Last(e.args), Tail(rs)), list.ok
  PROVE  list = [ok |-> TRUE, parts |-> list.parts, seen |-> list.seen] /\ ListText(e, rs, list.parts, list.seen)
<1>l. PICK last, rest : last = Last(e.args) /\ rest = Tail(rs)
  OBVIOUS
<1>0. IsA(last, "Const") => last.null \in BOOLEAN
  <2>1. last \in Expressions
    BY <1>l, ArrayBelow DEF Less
  <2> QED BY <2>1, ExpressionsAssumption DEF WellFormed
<1>1. CASE IsA(last, "Const") /\ last.null
  <2>1. list = [NoList EXCEPT !.ok = TRUE, !.parts = <<Leaf("NULL", last)>>]
    <3>1. ~IsA(ArrayOf(last), "Array") /\ ~(IsA(last, "Const") /\ ~last.null)
      BY <1>1 DEF ArrayOf, IsA
    <3> QED BY <1>1, <1>l, <3>1 DEF InList
  <2>2. list = [ok |-> TRUE, parts |-> <<Leaf("NULL", last)>>, seen |-> <<>>]
    BY <2>1 DEF NoList
  <2>3. list.parts = <<Leaf("NULL", last)>> /\ list.seen = <<>>
    BY <2>2
  <2>4. ListText(e, rs, list.parts, list.seen)
    BY <1>1, <1>l, <2>3 DEF ListText
  <2> QED BY <2>2, <2>3, <2>4
<1>2. CASE IsA(last, "Const") /\ ~last.null
  <2>k. PICK ok : ok = (last.val # <<>> /\ \A i \in DOMAIN last.val : last.val[i] = "NULL" \/ datumRenders(last.val[i], e.left))
    OBVIOUS
  <2>1. list = [NoList EXCEPT !.ok = ok, !.parts = ElementTexts(last, e.left)]
    <3>1. ~IsA(ArrayOf(last), "Array") /\ ~(IsA(last, "Const") /\ last.null)
      BY <1>2 DEF ArrayOf, IsA
    <3> QED BY <1>2, <1>l, <2>k, <3>1 DEF InList
  <2>2. list = [ok |-> ok, parts |-> ElementTexts(last, e.left), seen |-> <<>>]
    BY <2>1 DEF NoList
  <2>3. list.parts = ElementTexts(last, e.left) /\ list.seen = <<>> /\ ok = list.ok
    BY <2>2
  <2>4. ListText(e, rs, list.parts, list.seen)
    BY <1>2, <1>l, <2>3 DEF ListText
  <2>5. ok = TRUE
    <3>1. ok \in BOOLEAN
      BY <2>k
    <3> QED BY <2>3, <3>1
  <2> QED BY <2>2, <2>3, <2>4, <2>5
<1>3. CASE ~IsA(last, "Const")
  <2>1. CASE IsA(ArrayOf(last), "Array") /\ (IsA(last, "ArrayCoerce") => last.relabel) /\ rest # <<>>
    <3>1. list = Each(rest)
      BY <1>3, <1>l, <2>1 DEF InList
    <3>2. list = [ok |-> list.ok, parts |-> list.parts, seen |-> list.seen] /\ list.ok \in BOOLEAN
      BY <3>1 DEF Each
    <3>3. ListText(e, rs, list.parts, list.seen)
      BY <1>l, <2>1, <3>1 DEF ListText
    <3>4. list.ok = TRUE
      BY <3>2
    <3> QED BY <3>2, <3>3, <3>4
  <2>2. CASE ~(IsA(ArrayOf(last), "Array") /\ (IsA(last, "ArrayCoerce") => last.relabel) /\ rest # <<>>)
    <3>1. list = NoList
      BY <1>3, <1>l, <2>2 DEF InList
    <3> QED BY <3>1 DEF NoList
  <2> QED BY <2>1, <2>2
<1> QED BY <1>0, <1>1, <1>2, <1>3

InText(e, rs, r, kw, ps, ss) ==
  /\ (kw = "IN" /\ e.name = "=" /\ e.useOr = TRUE) \/ (kw = "NOT IN" /\ e.name = "<>" /\ e.useOr = FALSE)
  /\ ~IsNothing(rs[1].txt) /\ ListText(e, rs, ps, ss)
  /\ r.txt = Text(kw, <<rs[1].txt>> \o ps) /\ r.seen = rs[1].seen \o ss
LEMMA ScalarArrayText ==
  ASSUME NEW e \in Expressions, IsA(e, "ScalarArray"), NEW rs, NEW r, r = RenderScalarArray(e, rs), ~IsNothing(r.txt)
  PROVE  \E kw, ps, ss : InText(e, rs, r, kw, ps, ss)
<1>n. IsNothing(Nothing)
  BY DEF IsNothing, Nothing, Text
<1>1. ~(~e.builtin \/ <<e.name, e.useOr>> \notin {<<"=", TRUE>>, <<"<>", FALSE>>} \/ ~canHandleType(e.left))
  <2>1. SUFFICES ASSUME ~e.builtin \/ <<e.name, e.useOr>> \notin {<<"=", TRUE>>, <<"<>", FALSE>>} \/ ~canHandleType(e.left) PROVE FALSE
    OBVIOUS
  <2>2. r = Declined(<<>>)
    BY <2>1 DEF RenderScalarArray
  <2>3. r.txt = Nothing
    BY <2>2 DEF Declined
  <2> QED BY <1>n, <2>3
<1>p. PICK left, list : left = rs[1] /\ list = InList(e, Last(e.args), Tail(rs))
  OBVIOUS
<1>2. \/ e.name = "=" /\ e.useOr = TRUE
      \/ e.name = "<>" /\ e.useOr = FALSE
  BY <1>1
<1>kw. PICK kw : kw = IF e.useOr THEN "IN" ELSE "NOT IN"
  OBVIOUS
<1>3. r = InTest(kw, left, list)
  BY <1>1, <1>kw, <1>p DEF RenderScalarArray
<1>4. (kw = "IN" /\ e.name = "=" /\ e.useOr = TRUE) \/ (kw = "NOT IN" /\ e.name = "<>" /\ e.useOr = FALSE)
  BY <1>2, <1>kw
<1>5. ~IsNothing(left.txt)
  <2>1. SUFFICES ASSUME IsNothing(left.txt) PROVE FALSE
    OBVIOUS
  <2>2. r = left
    BY <1>3, <2>1 DEF InTest
  <2> QED BY <2>1, <2>2
<1>e. PICK each : each = [list EXCEPT !.parts = <<left.txt>> \o list.parts, !.seen = left.seen \o list.seen]
  OBVIOUS
<1>6. r = Wrap(kw, each)
  BY <1>3, <1>5, <1>e DEF InTest
<1>7. each.ok /\ r.txt = Text(kw, each.parts) /\ r.seen = each.seen
  <2>1. CASE each.ok
    BY <1>6, <2>1 DEF Wrap
  <2>2. CASE ~each.ok
    <3>1. r.txt = Nothing
      BY <1>6, <2>2 DEF Wrap
    <3> QED BY <1>n, <3>1
  <2> QED BY <2>1, <2>2
<1>8. list.ok
  <2>1. \A f, a, b : "ok" \in DOMAIN f => [f EXCEPT !.parts = a, !.seen = b].ok = f.ok
    OBVIOUS
  <2>2. DOMAIN list = {"ok", "parts", "seen"}
    <3>1. \E a, b, c : list = [ok |-> a, parts |-> b, seen |-> c]
      BY <1>p DEF InList, NoList, Each
    <3> QED BY <3>1
  <2> QED BY <1>7, <1>e, <2>1, <2>2
<1>9. list = [ok |-> TRUE, parts |-> list.parts, seen |-> list.seen] /\ ListText(e, rs, list.parts, list.seen)
  BY <1>8, <1>p, InListText
<1>10. each.parts = <<left.txt>> \o list.parts /\ each.seen = left.seen \o list.seen
  <2>f. PICK f, a, b : f = list /\ a = <<left.txt>> \o list.parts /\ b = left.seen \o list.seen
    OBVIOUS
  <2>1. each = [f EXCEPT !.parts = a, !.seen = b] /\ DOMAIN f = {"ok", "parts", "seen"}
    BY <1>9, <1>e, <2>f
  <2>2. each.parts = a /\ each.seen = b
    BY ONLY <2>1
  <2> QED BY <2>2, <2>f
<1> QED BY <1>4, <1>5, <1>7, <1>9, <1>10, <1>p DEF InText

LEMMA CaseFirst ==
  ASSUME NEW e \in Expressions, IsA(e, "Case"), e.arg # NoExpr
  PROVE  Len(Operands(e)) > 0 /\ Len(Operands(e)) \in Nat /\ DOMAIN Operands(e) = 1 .. Len(Operands(e))
<1>p. PICK whens, n, T, pairs, all, first, last :
        /\ whens = e.whens /\ n = Len(e.whens)
        /\ T = {When(e, whens[i]) : i \in 1 .. n} \cup {whens[i][2] : i \in 1 .. n}
        /\ pairs = [i \in 1 .. n |-> <<When(e, whens[i]), whens[i][2]>>] /\ all = Concat(pairs)
        /\ first = <<e.arg>> /\ last = Present(e.default)
  OBVIOUS
<1>1. n \in Nat /\ DOMAIN whens = 1 .. n
  <2>1. whens \in Seq(Expressions \X Expressions)
    BY <1>p, ExpressionsAssumption DEF WellFormed
  <2> QED BY <1>p, <2>1
<1>2. pairs \in [1 .. n -> Seq(T)]
  <2>1. \A i \in 1 .. n : When(e, whens[i]) \in T /\ whens[i][2] \in T
    BY <1>p
  <2>2. \A a, b \in T : <<a, b>> \in Seq(T)
    OBVIOUS
  <2> QED BY <1>p, <2>1, <2>2
<1>3. pairs \in Seq(Seq(T))
  BY <1>1, <1>2
<1>4. all \in Seq(T)
  BY <1>3, <1>p, ConcatList
<1>5. last \in Seq({e.default})
  <2>1. CASE e.default = NoExpr
    BY <1>p, <2>1 DEF Present
  <2>2. CASE e.default # NoExpr
    <3>1. last = <<e.default>>
      BY <1>p, <2>2 DEF Present
    <3> QED BY <3>1
  <2> QED BY <2>1, <2>2
<1>6. Operands(e) = (first \o all) \o last
  <2>1. ~IsA(e, "ScalarArray") /\ ~IsA(e, "Aggref") /\ Present(e.arg) = first
    BY <1>p DEF IsA, Present
  <2>2. [i \in DOMAIN e.whens |-> <<When(e, e.whens[i]), e.whens[i][2]>>] = pairs
    BY <1>1, <1>p
  <2> QED BY <1>p, <2>1, <2>2 DEF Operands
<1>7. first \in Seq({e.arg}) /\ Len(first) = 1
  BY <1>p
<1>b. PICK both : both = first \o all
  OBVIOUS
<1>u. PICK U : U = {e.arg} \cup T
  OBVIOUS
<1>8. both \in Seq(U) /\ Len(both) = 1 + Len(all) /\ Len(all) \in Nat
  <2>1. first \in Seq(U) /\ all \in Seq(U)
    BY <1>4, <1>7, <1>u
  <2>2. first \o all \in Seq(U) /\ Len(first \o all) = Len(first) + Len(all) /\ Len(all) \in Nat
    BY ONLY <2>1
  <2> QED BY ONLY <1>7, <1>b, <2>2
<1>9. /\ Len(both \o last) = Len(both) + Len(last) /\ Len(last) \in Nat /\ Len(both \o last) \in Nat
      /\ DOMAIN (both \o last) = 1 .. Len(both \o last)
  BY <1>5, <1>8
<1> QED BY <1>6, <1>8, <1>9, <1>b

\* A CASE with an argument has a hole, or no text at all.
LEMMA CaseText ==
  ASSUME NEW e \in Expressions, IsA(e, "Case"), NEW S, NEW rs \in Seq(S), e.arg # NoExpr => rs # <<>>, NEW r, r = RenderCase(e, rs),
         r.txt \in Texts, ~IsNothing(r.txt), \A i \in DOMAIN r.txt.parts : ~IsNothing(r.txt.parts[i])
  PROVE  e.arg = NoExpr /\ r = Wrap("CASE", Each(rs))
<1>n. IsNothing(Nothing)
  BY DEF IsNothing, Nothing, Text
<1>1. canHandleType(e.type)
  <2>1. SUFFICES ASSUME ~canHandleType(e.type) PROVE FALSE
    OBVIOUS
  <2>2. r = Declined(<<>>)
    BY <2>1 DEF RenderCase
  <2>3. r.txt = Nothing
    BY <2>2 DEF Declined
  <2> QED BY <1>n, <2>3
<1>2. e.arg = NoExpr
  <2>1. SUFFICES ASSUME e.arg # NoExpr PROVE FALSE
    OBVIOUS
  <2>2. r = IF IsNothing(rs[1].txt) THEN WithHole(rs[1], Each(Tail(rs))) ELSE Declined(rs[1].seen)
    BY <1>1, <2>1 DEF RenderCase
  <2>3. CASE ~IsNothing(rs[1].txt)
    <3>1. r = Declined(rs[1].seen)
      BY <2>2, <2>3
    <3>2. r.txt = Nothing
      BY <3>1 DEF Declined
    <3> QED BY <1>n, <3>2
  <2>4. CASE IsNothing(rs[1].txt)
    <3>p. PICK each, new, ps, ss : /\ each = Each(Tail(rs)) /\ ps = <<Nothing>> \o each.parts /\ ss = rs[1].seen \o each.seen
                                   /\ new = [each EXCEPT !.parts = ps, !.seen = ss]
      OBVIOUS
    <3>1. r = Wrap("CASE", new)
      BY <2>2, <2>4, <3>p DEF WithHole
    <3>2. each = [ok |-> each.ok, parts |-> each.parts, seen |-> each.seen]
      BY <3>p DEF Each
    <3>3. new = [ok |-> each.ok, parts |-> ps, seen |-> ss]
      <4>1. new = [each EXCEPT !.parts = ps, !.seen = ss]
        BY <3>p
      <4> QED BY ONLY <3>2, <4>1
    <3>4. new.ok = each.ok /\ new.parts = ps
      BY <3>3
    <3>5. each.ok /\ r.txt = Text("CASE", ps)
      <4>1. CASE each.ok
        BY <3>1, <3>4, <4>1 DEF Wrap
      <4>2. CASE ~each.ok
        <5>1. r.txt = Nothing
          BY <3>1, <3>4, <4>2 DEF Wrap
        <5> QED BY <1>n, <5>1
      <4> QED BY <4>1, <4>2
    <3>6. r.txt.parts = ps
      BY <3>5 DEF Text
    <3>7. each.parts = [i \in 1 .. Len(Tail(rs)) |-> Tail(rs)[i].txt]
      BY <3>5, <3>p DEF Each
    <3>8. Tail(rs) \in Seq(S) /\ Len(Tail(rs)) \in Nat
      BY <2>1
    <3>9. Len(each.parts) \in Nat /\ each.parts \in Seq({Tail(rs)[i].txt : i \in 1 .. Len(Tail(rs))})
      <4>t. PICK rest, n, T : rest = Tail(rs) /\ n = Len(Tail(rs)) /\ T = {Tail(rs)[i].txt : i \in 1 .. Len(Tail(rs))}
        OBVIOUS
      <4>1. each.parts \in [1 .. n -> T]
        BY <3>7, <4>t
      <4>2. n \in Nat
        BY <3>8, <4>t
      <4>p. PICK parts : parts = each.parts
        OBVIOUS
      <4>3. parts \in Seq(T) /\ Len(parts) \in Nat
        BY <4>1, <4>2, <4>p
      <4> QED BY <4>3, <4>p, <4>t
    <3>10. 1 \in DOMAIN ps /\ ps[1] = Nothing
      BY <3>9, <3>p
    <3> QED BY <1>n, <3>6, <3>10
  <2> QED BY <2>3, <2>4
<1>3. r = Wrap("CASE", Each(rs))
  BY <1>1, <1>2 DEF RenderCase
<1> QED BY <1>2, <1>3

LEMMA CasesListed ==
  ASSUME NEW e, NEW relids, NEW rs, NEW r, Arm(e, relids, rs, r), IsA(e, "Case")
  PROVE  Marked(r.txt) = r.seen
<1>0. /\ e \in Expressions /\ r = deparseExpr(e, rs, relids) /\ rs \in Seq(Renderings) /\ Len(rs) = Len(Operands(e))
      /\ r.txt \in Texts /\ Clean(r.txt) /\ ~IsNothing(r.txt)
  BY ArmNotNothing DEF Arm
<1>1. r = RenderCase(e, rs)
  BY <1>0 DEF deparseExpr, IsA
<1>2. e.arg # NoExpr => rs # <<>>
  <2>1. SUFFICES ASSUME e.arg # NoExpr PROVE rs # <<>>
    OBVIOUS
  <2>2. Len(rs) > 0
    BY <1>0, <2>1, CaseFirst
  <2> QED BY <2>2
<1>3. \A i \in DOMAIN r.txt.parts : ~IsNothing(r.txt.parts[i])
  BY <1>0, CleanParts
<1>4. e.arg = NoExpr /\ r = Wrap("CASE", Each(rs))
  BY <1>0, <1>1, <1>2, <1>3, CaseText
<1>5. "CASE" \notin Markers
  BY DEF Markers
<1> QED BY <1>4, <1>5, WrappedListed

\* A function: its argument, TRANSLATE, the current time, or a call.
LEMMA FuncText ==
  ASSUME NEW e, IsA(e, "Func"), NEW rs, NEW r, r = RenderFunc(e, rs), ~IsNothing(r.txt)
  PROVE  /\ isTranslatableFuncExpr(e)
         /\ e.form = "implicit" => r = rs[1]
         /\ e.form # "implicit" /\ e.name = "translate" => r = RenderTranslate(rs)
         /\ e.form # "implicit" /\ e.name \in {"now", "transaction_timestamp"} => r = Rendered(Leaf(":now", e))
         /\ e.form # "implicit" /\ e.name \notin {"translate", "now", "transaction_timestamp"} =>
              r = Wrap(IF e.name = "date_part" THEN "EXTRACT" ELSE DB2Function(e.name), Each(rs))
<1>1. isTranslatableFuncExpr(e)
  <2>1. SUFFICES ASSUME ~isTranslatableFuncExpr(e) PROVE FALSE
    OBVIOUS
  <2>2. r = Declined(<<>>)
    BY <2>1 DEF RenderFunc
  <2>3. r.txt = Nothing
    BY <2>2 DEF Declined
  <2>4. IsNothing(Nothing)
    BY DEF IsNothing, Nothing, Text
  <2> QED BY <2>3, <2>4
<1>2. e.form = "implicit" => r = rs[1]
  BY <1>1 DEF RenderFunc
<1>3. e.form # "implicit" /\ e.name = "translate" => r = RenderTranslate(rs)
  BY <1>1 DEF RenderFunc
<1>4. e.form # "implicit" /\ e.name \in {"now", "transaction_timestamp"} => r = Rendered(Leaf(":now", e))
  BY <1>1 DEF RenderFunc
<1>5. e.form # "implicit" /\ e.name \notin {"translate", "now", "transaction_timestamp"} =>
              r = Wrap(IF e.name = "date_part" THEN "EXTRACT" ELSE DB2Function(e.name), Each(rs))
  BY <1>1 DEF RenderFunc
<1> QED BY <1>1, <1>2, <1>3, <1>4, <1>5

LEMMA FunctionsListed ==
  ASSUME NEW e, NEW relids, NEW rs, NEW r, Arm(e, relids, rs, r), IsA(e, "Func")
  PROVE  Marked(r.txt) = r.seen
<1>0. /\ e \in Expressions /\ r = deparseExpr(e, rs, relids) /\ ~IsA(e, "Case")
      /\ r.txt \in Texts /\ Clean(r.txt) /\ ~IsNothing(r.txt) /\ r.txt.kw # "TRANSLATE"
  BY ArmNotNothing, CleanParts DEF Arm, IsA
<1>1. r = RenderFunc(e, rs)
  BY <1>0 DEF deparseExpr, IsA
<1>2. CASE e.form = "implicit"
  <2>a. PICK arg : arg = rs[1]
    OBVIOUS
  <2>1. Listed(arg)
    BY <1>0, <1>2, <2>a, OneOperand, FirstListed DEF IsA
  <2>2. r = arg
    BY <1>0, <1>1, <1>2, <2>a, FuncText
  <2> QED BY <1>0, <2>1, <2>2 DEF Listed
<1>3. CASE e.form # "implicit" /\ e.name = "translate"
  <2>1. r = RenderTranslate(rs)
    BY <1>0, <1>1, <1>3, FuncText
  <2>2. r.txt = Nothing \/ r.txt.kw = "TRANSLATE"
    BY <2>1 DEF RenderTranslate, Wrap, Text
  <2> QED BY <1>0, <2>2, ArmNotNothing
<1>4. CASE e.form # "implicit" /\ e.name \in {"now", "transaction_timestamp"}
  <2>1. r = Rendered(Leaf(":now", e))
    BY <1>0, <1>1, <1>4, FuncText
  <2>2. r.txt = Leaf(":now", e) /\ r.seen = <<>>
    BY <2>1 DEF Rendered
  <2> QED BY <1>0, <2>2, PlainLeaf
<1>5. CASE e.form # "implicit" /\ e.name \notin {"translate", "now", "transaction_timestamp"}
  <2>k. PICK kw : kw = IF e.name = "date_part" THEN "EXTRACT" ELSE DB2Function(e.name)
    OBVIOUS
  <2>1. r = Wrap(kw, Each(rs)) /\ isTranslatableFuncExpr(e)
    BY <1>0, <1>1, <1>5, <2>k, FuncText
  <2>2. DB2Function(e.name) \notin Markers /\ "EXTRACT" \notin Markers
    <3>1. "EXTRACT" \notin Markers
      BY DEF Markers
    <3> QED BY <1>5, <2>1, <3>1, NamesNotMarkers
  <2>3. kw \notin Markers
    BY <2>2, <2>k
  <2> QED BY <1>0, <2>1, <2>3, WrappedListed
<1> QED BY <1>2, <1>3, <1>4, <1>5

LEMMA BothAt ==
  ASSUME NEW T, NEW s \in Seq(T), NEW t \in Seq(T)
  PROVE  /\ Len(s) \in Nat /\ Len(t) \in Nat /\ Len(s \o t) = Len(s) + Len(t) /\ DOMAIN (s \o t) = 1 .. (Len(s) + Len(t))
         /\ \A i \in 1 .. Len(s) : (s \o t)[i] = s[i]
         /\ \A k \in 1 .. Len(t) : (s \o t)[Len(s) + k] = t[k]
<1>1. /\ Len(s) \in Nat /\ Len(t) \in Nat /\ Len(s \o t) = Len(s) + Len(t) /\ DOMAIN (s \o t) = 1 .. (Len(s) + Len(t))
      /\ \A i \in 1 .. (Len(s) + Len(t)) : (s \o t)[i] = IF i <= Len(s) THEN s[i] ELSE t[i - Len(s)]
  OBVIOUS
<1>2. ASSUME NEW i \in 1 .. Len(s) PROVE (s \o t)[i] = s[i]
  <2>1. i \in 1 .. (Len(s) + Len(t)) /\ i <= Len(s)
    BY <1>1
  <2> QED BY <1>1, <2>1
<1>3. ASSUME NEW k \in 1 .. Len(t) PROVE (s \o t)[Len(s) + k] = t[k]
  <2>i. PICK i : i = Len(s) + k
    OBVIOUS
  <2>1. i \in 1 .. (Len(s) + Len(t)) /\ ~(i <= Len(s)) /\ i - Len(s) = k
    BY <1>1, <2>i
  <2> QED BY <1>1, <2>1, <2>i
<1> QED BY <1>1, <1>2, <1>3

LEMMA ListsListed ==
  ASSUME NEW e, NEW relids, NEW rs, NEW r, Arm(e, relids, rs, r), IsA(e, "ScalarArray")
  PROVE  Marked(r.txt) = r.seen
<1>0. /\ e \in Expressions /\ r = deparseExpr(e, rs, relids) /\ ~IsA(e, "Case") /\ rs \in Seq(Renderings) /\ Len(rs) = Len(Operands(e))
      /\ r.txt \in Texts /\ Clean(r.txt) /\ ~IsNothing(r.txt)
  BY ArmNotNothing DEF Arm, IsA
<1>1. r = RenderScalarArray(e, rs)
  BY <1>0 DEF deparseExpr, IsA
<1>2. PICK kw, ps, ss : InText(e, rs, r, kw, ps, ss)
  BY <1>0, <1>1, ScalarArrayText
<1>l. PICK left, last, t, one, n : left = rs[1] /\ last = Last(e.args) /\ t = r.txt /\ one = <<rs[1].txt>> /\ n = Len(rs)
  OBVIOUS
<1>3. rs # <<>> /\ 1 \in DOMAIN rs /\ n \in Nat /\ DOMAIN rs = 1 .. n
  <2>p. PICK first, elems : first = <<e.args[1]>> /\ elems = Elements(last)
    OBVIOUS
  <2>1. elems \in Seq(Expressions) /\ first \in Seq(Expressions) /\ Len(first) = 1
    <3>1. e.args[1] \in Expressions
      BY <1>0, ArrayBelow DEF Less
    <3> QED BY <1>0, <1>l, <2>p, <3>1, ArrayBelow
  <2>2. Operands(e) = first \o elems
    BY <1>l, <2>p DEF Operands, IsA
  <2>3. Len(first \o elems) = 1 + Len(elems) /\ Len(elems) \in Nat
    <3>1. Len(first \o elems) = Len(first) + Len(elems) /\ Len(elems) \in Nat
      BY ONLY <2>1, BothAt
    <3> QED BY <2>1, <3>1
  <2>4. Len(rs) > 0
    BY <1>0, <2>2, <2>3
  <2> QED BY <1>0, <1>l, <2>4
<1>4. \A i \in DOMAIN rs : Listed(rs[i])
  BY <1>0 DEF Arm
<1>5. t \in Texts /\ t.kw = kw /\ t.parts = one \o ps /\ r.seen = left.seen \o ss /\ ~IsMarker(t)
  <2>a. PICK all : all = one \o ps
    OBVIOUS
  <2>0. t = Text(kw, all)
    BY <1>2, <1>l, <2>a DEF InText
  <2>1. t.kw = kw /\ t.parts = one \o ps
    BY <2>0, <2>a DEF Text
  <2>2. kw \notin {"?", ":p"}
    <3>1. kw \in {"IN", "NOT IN"}
      BY <1>2 DEF InText
    <3> QED BY <3>1
  <2> QED BY <1>0, <1>2, <1>l, <2>1, <2>2 DEF InText, IsMarker
<1>6. ListText(e, rs, ps, ss)
  BY <1>2 DEF InText
<1>7. \E S : ps \in Seq(S)
  <2>1. CASE ps = <<Leaf("NULL", last)>>
    <3>1. ps \in Seq({Leaf("NULL", last)})
      BY <2>1
    <3> QED BY <3>1
  <2>2. CASE IsA(last, "Const") /\ ps = ElementTexts(last, e.left)
    <3>1. IsList(last.val)
      <4>1. last \in Expressions
        BY <1>0, <1>l, ArrayBelow DEF Less
      <4> QED BY <2>2, <4>1, ExpressionsAssumption DEF WellFormed
    <3>v. PICK val : val = last.val
      OBVIOUS
    <3>2. DOMAIN val = 1 .. Len(val) /\ Len(val) \in Nat
      BY <3>1, <3>v DEF IsList
    <3>3. DOMAIN ps = 1 .. Len(val) /\ ps = [i \in 1 .. Len(val) |-> ps[i]]
      BY <2>2, <3>2, <3>v DEF ElementTexts
    <3>S. PICK S : S = {ps[i] : i \in 1 .. Len(val)}
      OBVIOUS
    <3>4. ps \in [1 .. Len(val) -> S]
      BY <3>3, <3>S
    <3>5. ps \in Seq(S)
      BY <3>2, <3>4
    <3> QED BY <3>5
  <2>3. CASE Each(Tail(rs)).ok /\ ps = Each(Tail(rs)).parts
    <3>p. PICK rest, m, S : rest = Tail(rs) /\ m = Len(Tail(rs)) /\ S = {Tail(rs)[i].txt : i \in 1 .. Len(Tail(rs))}
      OBVIOUS
    <3>1. rest \in Seq(Renderings) /\ m \in Nat
      BY <1>0, <1>3, <3>p
    <3>2. ps = [i \in 1 .. m |-> rest[i].txt]
      BY <2>3, <3>p DEF Each
    <3>3. ps \in [1 .. m -> S]
      BY <3>2, <3>p
    <3>4. ps \in Seq(S)
      BY <3>1, <3>3
    <3> QED BY <3>4
  <2> QED BY <1>6, <1>l, <2>1, <2>2, <2>3 DEF ListText
<1>8. PICK S : ps \in Seq(S)
  BY <1>7
<1>9. /\ one \in Seq({left.txt}) /\ one[1] = left.txt /\ Len(one) = 1
  BY <1>l
<1>10. /\ \A i \in DOMAIN t.parts : t.parts[i] \in Texts /\ Clean(t.parts[i])
       /\ \A k \in DOMAIN ps : ps[k] \in Texts /\ Clean(ps[k])
       /\ Clean(left.txt)
  <2>u. PICK U, all : U = S \cup {left.txt} /\ all = one \o ps
    OBVIOUS
  <2>1. one \in Seq(U) /\ ps \in Seq(U)
    BY <1>8, <1>9, <2>u
  <2>2. /\ DOMAIN all = 1 .. (1 + Len(ps)) /\ Len(ps) \in Nat /\ all[1] = one[1]
        /\ \A k \in 1 .. Len(ps) : all[k + 1] = ps[k]
    <3>1. Len(one) = 1 /\ all = one \o ps
      BY <1>9, <2>u
    <3>2. \A k \in 1 .. Len(ps) : 1 + k = k + 1
      BY <2>1
    <3> QED BY ONLY <2>1, <3>1, <3>2, BothAt
  <2>3. \A i \in DOMAIN all : all[i] \in Texts /\ Clean(all[i])
    BY <1>0, <1>5, <1>l, <2>u, CleanParts
  <2>4. 1 \in DOMAIN all /\ \A k \in 1 .. Len(ps) : k + 1 \in DOMAIN all
    BY <2>2
  <2>5. DOMAIN ps = 1 .. Len(ps)
    BY <1>8
  <2> QED BY <1>5, <1>9, <2>2, <2>3, <2>4, <2>5, <2>u
<1>11. Shows(one, left.seen)
  <2>1. Listed(left)
    BY <1>3, <1>4, <1>l
  <2>2. Marked(left.txt) = left.seen /\ left.seen \in Seq(Expressions)
    BY <1>10, <2>1 DEF Listed
  <2> QED BY <1>l, <2>2, ShowsOne
<1>12. Shows(ps, ss)
  <2>1. CASE ps = <<Leaf("NULL", last)>> /\ ss = <<>>
    <3>1. ps[1] = Leaf("NULL", last) /\ DOMAIN ps = {1}
      BY <2>1
    <3>2. \A i \in DOMAIN ps : Marked(ps[i]) = <<>>
      BY <1>10, <3>1, PlainLeaf
    <3> QED BY <1>8, <2>1, <3>2, ShowsNone
  <2>2. CASE ps = ElementTexts(last, e.left) /\ ss = <<>>
    <3>1. ASSUME NEW i \in DOMAIN ps PROVE Marked(ps[i]) = <<>>
      <4>1. \E kw2 \in {"NULL", "lit"} : \E x : ps[i] = Leaf(kw2, x)
        <5>1. i \in DOMAIN last.val
          BY <2>2, <3>1 DEF ElementTexts
        <5>n. PICK n0 : n0 = (last.val[i] = "NULL")
          OBVIOUS
        <5>2. ps[i] = Leaf(IF n0 THEN "NULL" ELSE "lit", [last EXCEPT !.type = e.left, !.null = n0, !.val = <<last.val[i]>>])
          BY <2>2, <5>1, <5>n DEF ElementTexts
        <5>3. n0 \in BOOLEAN
          BY <5>n
        <5> QED BY <5>2, <5>3
      <4>2. PICK kw2 \in {"NULL", "lit"} : \E x : ps[i] = Leaf(kw2, x)
        BY <4>1
      <4>3. ps[i] \in Texts
        BY <1>10
      <4> QED BY <4>2, <4>3, PlainLeaf
    <3> QED BY <1>8, <2>2, <3>1, ShowsNone
  <2>3. CASE Each(Tail(rs)).ok /\ ps = Each(Tail(rs)).parts /\ ss = Each(Tail(rs)).seen
    <3>p. PICK rest, each : rest = Tail(rs) /\ each = Each(rest)
      OBVIOUS
    <3>1. rest \in Seq(Renderings) /\ \A i \in DOMAIN rest : rest[i] = rs[i + 1] /\ i + 1 \in DOMAIN rs
      BY <1>0, <1>3, <3>p
    <3>2. \A i \in DOMAIN rest : Listed(rest[i])
      BY <1>4, <3>1
    <3>3. each.ok /\ ps = each.parts /\ ss = each.seen
      BY <2>3, <3>p
    <3>4. \A i \in DOMAIN each.parts : Clean(each.parts[i])
      BY <1>10, <3>3
    <3> QED BY <3>1, <3>2, <3>3, <3>4, <3>p, EachShows
  <2> QED BY <1>6, <1>l, <2>1, <2>2, <2>3 DEF ListText
<1>13. Shows(one \o ps, left.seen \o ss)
  BY <1>8, <1>9, <1>11, <1>12, ShowsBoth
<1>14. Marked(t) = left.seen \o ss
  BY <1>5, <1>13, ShowsText
<1> QED BY <1>5, <1>14, <1>l

LEMMA AggregateNames ==
  ASSUME NEW e, NEW info, info = db2AggregateInfo(e.name, e.kind)
  PROVE  /\ info \in {"none", "plain", "ordered"}
         /\ info # "none" => e.name \notin Markers
         /\ info = "ordered" => e.name \in {"percentile_cont", "percentile_disc"} /\ e.kind = "o"
<1>1. CASE e.kind = "n" /\ e.name \in {"count", "sum", "avg", "min", "max"}
  <2>1. info = "plain"
    BY <1>1 DEF db2AggregateInfo
  <2>2. e.name \notin Markers
    BY <1>1 DEF Markers
  <2> QED BY <2>1, <2>2
<1>2. CASE e.kind = "o" /\ e.name \in {"percentile_cont", "percentile_disc"}
  <2>1. info = "ordered"
    BY <1>2 DEF db2AggregateInfo
  <2>2. e.name \notin Markers
    BY <1>2 DEF Markers
  <2> QED BY <1>2, <2>1, <2>2
<1>3. CASE ~(e.kind = "n" /\ e.name \in {"count", "sum", "avg", "min", "max"})
             /\ ~(e.kind = "o" /\ e.name \in {"percentile_cont", "percentile_disc"})
  <2>1. info = "none"
    BY <1>3 DEF db2AggregateInfo
  <2> QED BY <2>1
<1> QED BY <1>1, <1>2, <1>3

LEMMA OrderedSetListed ==
  ASSUME NEW e, NEW relids, NEW rs, NEW r, Arm(e, relids, rs, r), IsA(e, "Aggref"),
         db2AggregateInfo(e.name, e.kind) = "ordered"
  PROVE  Marked(r.txt) = r.seen
<1>0. /\ e \in Expressions /\ r = deparseExpr(e, rs, relids) /\ ~IsA(e, "Case") /\ rs \in Seq(Renderings) /\ Len(rs) = Len(Operands(e))
      /\ r.txt \in Texts /\ Clean(r.txt) /\ ~IsNothing(r.txt) /\ \A i \in DOMAIN rs : Listed(rs[i])
  BY ArmNotNothing DEF Arm, IsA
<1>n. e.name \notin Markers /\ e.name \in {"percentile_cont", "percentile_disc"} /\ e.kind = "o"
  BY AggregateNames
<1>p. PICK direct, key, arg, order : direct = rs[1] /\ key = rs[1 + arg] /\ arg = e.order[1].arg /\ order = e.order
  <2>1. PICK arg : arg = e.order[1].arg
    OBVIOUS
  <2> QED BY <2>1
<1>1. r = RenderOrderedSet(e, direct, key)
  <2>1. r = RenderAggref(e, "ordered", rs)
    BY <1>0 DEF deparseExpr, IsA
  <2> QED BY <1>p, <2>1 DEF RenderAggref
<1>k. PICK inner, parts, each : /\ inner = Text(IF e.order[1].desc THEN "DESC" ELSE "ASC", <<key.txt>>) /\ parts = <<direct.txt, inner>>
                                /\ each = [ok |-> ~IsNothing(direct.txt), seen |-> direct.seen \o key.seen, parts |-> parts]
  OBVIOUS
<1>2. r = Wrap(e.name, each)
  BY <1>1, <1>k DEF RenderOrderedSet
<1>3. /\ e.direct \in Seq(Expressions) /\ e.args \in Seq(Expressions) /\ Len(e.direct) = 1 /\ arg \in DOMAIN e.args
  <2>1. WellFormed(e)
    BY <1>0, ExpressionsAssumption
  <2>2. /\ e.direct \in Seq(Expressions) /\ e.args \in Seq(Expressions) /\ IsList(order) /\ Len(e.direct) = 1 /\ Len(order) = 1
        /\ \A k \in DOMAIN order : order[k].arg \in DOMAIN e.args
    <3>a. AggregateFormed(e)
      BY <2>1, <1>0 DEF WellFormed
    <3>b. IsA(e, "Aggref")
      BY <1>0
    <3>1. /\ e.direct \in Seq(Expressions) /\ e.args \in Seq(Expressions) /\ IsList(e.order)
          /\ \A k \in DOMAIN e.order : e.order[k].arg \in DOMAIN e.args
      BY ONLY <3>a DEF AggregateFormed
    <3>2. Len(e.direct) = 1 /\ Len(e.order) = 1
      BY ONLY <1>n, <3>a DEF AggregateFormed
    <3> QED BY <1>p, <3>1, <3>2
  <2>3. 1 \in DOMAIN order
    BY <2>2 DEF IsList
  <2> QED BY <1>p, <2>2, <2>3
<1>4. 1 \in DOMAIN rs /\ 1 + arg \in DOMAIN rs
  <2>1. Operands(e) = e.direct \o e.args
    BY <1>0 DEF Operands, IsA
  <2>2. Len(Operands(e)) = 1 + Len(e.args) /\ Len(e.args) \in Nat
    <3>a. PICK a, b : a = e.direct /\ b = e.args
      OBVIOUS
    <3>1. a \in Seq(Expressions) /\ b \in Seq(Expressions) /\ Len(a) = 1
      BY <1>3, <3>a
    <3>2. Len(a \o b) = Len(a) + Len(b) /\ Len(b) \in Nat
      BY ONLY <3>1, BothAt
    <3> QED BY <2>1, <3>1, <3>2, <3>a
  <2>3. arg \in 1 .. Len(e.args)
    BY <1>3
  <2>4. DOMAIN rs = 1 .. (1 + Len(e.args))
    BY <1>0, <2>2
  <2> QED BY <2>2, <2>3, <2>4
<1>5. Listed(direct) /\ Listed(key)
  BY <1>0, <1>4, <1>p
<1>6. each.seen = direct.seen \o key.seen /\ each.parts = parts /\ DOMAIN parts = {1, 2} /\ parts[1] = direct.txt /\ parts[2] = inner
  <2>1. each.seen = direct.seen \o key.seen /\ each.parts = parts
    BY <1>k
  <2>2. parts = <<direct.txt, inner>>
    BY <1>k
  <2>3. DOMAIN parts = {1, 2} /\ parts[1] = direct.txt /\ parts[2] = inner
    BY ONLY <2>2
  <2> QED BY <2>1, <2>3
<1>7. inner.parts = <<key.txt>> /\ inner.kw \notin Markers
  <2>1. "DESC" \notin Markers /\ "ASC" \notin Markers
    BY DEF Markers
  <2>2. \E kw \in {"DESC", "ASC"} : inner = Text(kw, <<key.txt>>)
    BY <1>k
  <2>3. PICK kw \in {"DESC", "ASC"} : inner = Text(kw, <<key.txt>>)
    BY <2>2
  <2>4. inner.kw = kw /\ inner.parts = <<key.txt>>
    BY <2>3 DEF Text
  <2> QED BY <2>1, <2>4
<1>8. ASSUME \A i \in DOMAIN each.parts : Clean(each.parts[i])
      PROVE  Shows(each.parts, each.seen)
  <2>1. Clean(direct.txt) /\ Clean(inner)
    BY <1>6, <1>8
  <2>t. PICK t : t = r.txt
    OBVIOUS
  <2>2. t \in Texts /\ t.parts = parts
    <3>1. each.ok
      <4>1. SUFFICES ASSUME ~each.ok PROVE FALSE
        OBVIOUS
      <4>2. r.txt = Nothing
        BY <1>2, <4>1 DEF Wrap
      <4> QED BY <1>0, <4>2, ArmNotNothing
    <3>2. r.txt = Text(e.name, each.parts)
      BY <1>2, <3>1 DEF Wrap
    <3> QED BY <1>0, <1>6, <2>t, <3>2 DEF Text
  <2>3. inner \in Texts
    <3>1. parts \in Seq(Texts)
      BY <2>2, TextSplit
    <3>2. 2 \in DOMAIN parts /\ parts[2] = inner
      BY <1>6
    <3> QED BY ONLY <3>1, <3>2
  <2>4. key.txt \in Texts /\ Clean(key.txt)
    <3>1. 1 \in DOMAIN inner.parts /\ inner.parts[1] = key.txt
      BY <1>7
    <3> QED BY <2>1, <2>3, <3>1, CleanParts
  <2>5. Marked(direct.txt) = direct.seen /\ Marked(key.txt) = key.seen /\ direct.seen \in Seq(Expressions) /\ key.seen \in Seq(Expressions)
    BY <1>5, <2>1, <2>4 DEF Listed
  <2>6. Marked(inner) = key.seen
    <3>1. Shows(inner.parts, key.seen)
      BY <1>7, <2>5, ShowsOne
    <3>2. ~IsMarker(inner)
      BY <1>7 DEF IsMarker, Markers
    <3> QED BY <2>3, <3>1, <3>2, ShowsText
  <2>a. PICK one, two : one = <<direct.txt>> /\ two = <<inner>>
    OBVIOUS
  <2>7. Shows(one, direct.seen) /\ Shows(two, key.seen)
    BY <2>5, <2>6, <2>a, ShowsOne
  <2>8. one \in Seq({direct.txt}) /\ two \in Seq({inner}) /\ one \o two = parts
    <3>1. parts = <<direct.txt, inner>>
      BY <1>k
    <3>d. PICK d : d = direct.txt
      OBVIOUS
    <3>2. parts = <<d, inner>> /\ one = <<d>> /\ two = <<inner>>
      BY <2>a, <3>1, <3>d
    <3>3. one \in Seq({d}) /\ two \in Seq({inner}) /\ one \o two = parts
      <4>1. /\ one \in Seq({d}) /\ two \in Seq({inner}) /\ one \in Seq({d, inner}) /\ two \in Seq({d, inner})
            /\ Len(one) = 1 /\ Len(two) = 1 /\ one[1] = d /\ two[1] = inner
        BY ONLY <3>2
      <4>b. PICK both : both = one \o two
        OBVIOUS
      <4>2. DOMAIN both = 1 .. 2 /\ both[1] = d /\ both[1 + 1] = inner /\ both \in Seq({d, inner})
        <5>1. /\ DOMAIN (one \o two) = 1 .. (Len(one) + Len(two)) /\ \A i \in 1 .. Len(one) : (one \o two)[i] = one[i]
              /\ \A k \in 1 .. Len(two) : (one \o two)[Len(one) + k] = two[k]
          BY ONLY <4>1, BothAt
        <5>2. one \o two \in Seq({d, inner})
          BY <4>1
        <5>3. DOMAIN both = 1 .. (1 + 1) /\ both[1] = one[1] /\ both[1 + 1] = two[1]
          BY ONLY <5>1, <4>1, <4>b
        <5> QED BY <5>2, <5>3, <4>1, <4>b
      <4>3. both = <<d, inner>>
        BY ONLY <4>2
      <4> QED BY <3>2, <4>1, <4>3, <4>b
    <3> QED BY <3>3, <3>d
  <2>9. Shows(one \o two, direct.seen \o key.seen)
    BY <2>7, <2>8, ShowsBoth
  <2> QED BY <1>6, <2>8, <2>9
<1> QED BY <1>0, <1>2, <1>8, <1>n, WrapListed

LEMMA PlainAggregatesListed ==
  ASSUME NEW e, NEW relids, NEW rs, NEW r, Arm(e, relids, rs, r), IsA(e, "Aggref"),
         db2AggregateInfo(e.name, e.kind) = "plain"
  PROVE  Marked(r.txt) = r.seen
<1>0. /\ e \in Expressions /\ r = deparseExpr(e, rs, relids) /\ ~IsA(e, "Case") /\ rs \in Seq(Renderings) /\ Len(rs) = Len(Operands(e))
      /\ r.txt \in Texts /\ Clean(r.txt) /\ ~IsNothing(r.txt) /\ \A i \in DOMAIN rs : Listed(rs[i])
  BY ArmNotNothing DEF Arm, IsA
<1>n. e.name \notin Markers
  BY AggregateNames
<1>p. PICK sub, each : sub = SubSeq(rs, 1 + Len(e.direct), Len(rs)) /\ each = Each(sub)
  OBVIOUS
<1>1. r = RenderPlainAggregate(e, sub)
  <2>1. r = RenderAggref(e, "plain", rs)
    BY <1>0 DEF deparseExpr, IsA
  <2> QED BY <1>p, <2>1 DEF RenderAggref
<1>2. CASE e.star
  <2>p. PICK t, leaf : t = r.txt /\ leaf = Leaf("*", e)
    OBVIOUS
  <2>1. r = Rendered(Text(e.name, <<leaf>>))
    BY <1>1, <1>2, <2>p DEF RenderPlainAggregate
  <2>2. t = Text(e.name, <<leaf>>) /\ r.seen = <<>>
    BY <2>1, <2>p DEF Rendered
  <2>3. t \in Texts /\ t.parts = <<leaf>> /\ t.kw = e.name
    BY <1>0, <2>2, <2>p DEF Text
  <2>4. leaf \in Texts
    <3>1. 1 \in DOMAIN t.parts /\ t.parts[1] = leaf
      BY <2>3
    <3> QED BY <1>0, <2>3, <2>p, <3>1, CleanParts
  <2>5. Marked(leaf) = <<>>
    BY <2>4, <2>p, PlainLeaf
  <2>6. Shows(t.parts, <<>>)
    <3>1. <<>> \in Seq(Expressions)
      OBVIOUS
    <3> QED BY <2>3, <2>5, <3>1, ShowsOne
  <2>7. ~IsMarker(t)
    BY <1>n, <2>3 DEF IsMarker, Markers
  <2> QED BY <2>2, <2>3, <2>6, <2>7, <2>p, ShowsText
<1>3. CASE ~e.star
  <2>s. PICK wrapped : wrapped = Separated(e, each)
    OBVIOUS
  <2>1. r = Wrap(e.name, wrapped)
    BY <1>1, <1>3, <1>p, <2>s DEF RenderPlainAggregate
  <2>k. PICK inner, ps : /\ inner = Text(IF e.distinct THEN "DISTINCT" ELSE e.name, ps)
                         /\ ps = IF Len(e.args) > 1 THEN Append(each.parts, Nothing) ELSE each.parts
    OBVIOUS
  <2>2. wrapped.ok = each.ok /\ wrapped.seen = each.seen /\ wrapped.parts = <<inner>>
    <3>1. each = [ok |-> each.ok, parts |-> each.parts, seen |-> each.seen]
      BY <1>p DEF Each
    <3>2. wrapped = [each EXCEPT !.parts = <<inner>>]
      BY <2>k, <2>s DEF Separated
    <3>3. wrapped = [ok |-> each.ok, parts |-> <<inner>>, seen |-> each.seen]
      BY ONLY <3>1, <3>2
    <3> QED BY <3>3
  <2>3. inner.parts = ps /\ inner.kw \notin Markers
    <3>1. "DISTINCT" \notin Markers
      BY DEF Markers
    <3>2. \E kw \in {"DISTINCT", e.name} : inner = Text(kw, ps)
      BY <2>k
    <3>3. PICK kw \in {"DISTINCT", e.name} : inner = Text(kw, ps)
      BY <3>2
    <3>4. inner.kw = kw /\ inner.parts = ps
      BY <3>3 DEF Text
    <3> QED BY <1>n, <3>1, <3>4
  <2>4. sub \in Seq(Renderings) /\ \A i \in DOMAIN sub : Listed(sub[i])
    <3>1. e.direct \in Seq(Expressions)
      BY <1>0, ExpressionsAssumption DEF WellFormed, AggregateFormed
    <3>2. sub \in Seq(Renderings) /\ \A i \in DOMAIN sub : sub[i] \in ToSet(rs)
      <4>m. PICK m : m = 1 + Len(e.direct)
        OBVIOUS
      <4>1. m \in Nat /\ m >= 1
        BY <3>1, <4>m
      <4>2. \A i \in m .. Len(rs) : i \in DOMAIN rs
        BY <1>0, <4>1
      <4>q. PICK q : q = Len(rs)
        OBVIOUS
      <4>3. sub = [i \in 1 .. (1 + q - m) |-> rs[i + m - 1]]
        <5>1. sub = SubSeq(rs, m, q) /\ q \in Nat /\ m \in Nat
          BY <1>0, <1>p, <4>1, <4>m, <4>q
        <5> QED BY ONLY <5>1
      <4>4. sub \in Seq(Renderings)
        <5>1. sub = SubSeq(rs, m, q) /\ q = Len(rs) /\ m \in Nat /\ m >= 1 /\ rs \in Seq(Renderings)
          BY <1>0, <1>p, <4>1, <4>m, <4>q
        <5> QED BY ONLY <5>1
      <4>5. ASSUME NEW i \in DOMAIN sub PROVE sub[i] \in ToSet(rs)
        <5>0. q \in Nat /\ DOMAIN rs = 1 .. q /\ i \in 1 .. (1 + q - m)
          BY <1>0, <4>3, <4>q
        <5>1. i + m - 1 \in DOMAIN rs
          BY <4>1, <5>0
        <5> QED BY <4>3, <5>1 DEF ToSet
      <4> QED BY <4>4, <4>5
    <3> QED BY <1>0, <3>2 DEF ToSet
  <2>5. ASSUME wrapped.ok, \A i \in DOMAIN wrapped.parts : Clean(wrapped.parts[i])
        PROVE  Shows(wrapped.parts, wrapped.seen)
    <3>t. PICK t : t = r.txt
      OBVIOUS
    <3>1. t \in Texts /\ t.parts = <<inner>>
      <4>1. r.txt = Text(e.name, wrapped.parts)
        BY <2>1, <2>5 DEF Wrap
      <4> QED BY <1>0, <2>2, <3>t, <4>1 DEF Text
    <3>2. inner \in Texts /\ Clean(inner)
      <4>1. 1 \in DOMAIN t.parts /\ t.parts[1] = inner
        BY <3>1
      <4> QED BY <1>0, <3>1, <3>t, <4>1, CleanParts
    <3>3. each.ok /\ \A i \in DOMAIN ps : ps[i] \in Texts /\ Clean(ps[i])
      BY <2>2, <2>3, <2>5, <3>2, CleanParts
    <3>4. ps = each.parts
      <4>1. SUFFICES ASSUME Len(e.args) > 1 PROVE FALSE
        BY <2>k
      <4>p. PICK parts, n, T : parts = each.parts /\ n = Len(sub) /\ T = {sub[i].txt : i \in 1 .. Len(sub)}
        OBVIOUS
      <4>2. parts = [i \in 1 .. n |-> sub[i].txt] /\ n \in Nat
        <5>1. each.parts = [i \in 1 .. Len(sub) |-> sub[i].txt]
          BY <1>p, <3>3 DEF Each
        <5> QED BY <2>4, <4>p, <5>1
      <4>3. parts \in [1 .. n -> T]
        BY <4>2, <4>p
      <4>4. parts \in Seq(T)
        BY <4>2, <4>3
      <4>5. ps = Append(parts, Nothing)
        BY <2>k, <4>1, <4>p
      <4>l. PICK l : l = Len(parts) + 1
        OBVIOUS
      <4>6. l \in DOMAIN ps /\ ps[l] = Nothing
        BY <4>4, <4>5, <4>l
      <4>7. IsNothing(Nothing)
        BY DEF IsNothing, Nothing, Text
      <4> QED BY <3>3, <4>6, <4>7, CleanParts
    <3>5. Shows(ps, each.seen)
      BY <1>p, <2>4, <3>3, <3>4, EachShows
    <3>6. Marked(inner) = each.seen /\ each.seen \in Seq(Expressions)
      <4>1. ~IsMarker(inner)
        BY <2>3 DEF IsMarker, Markers
      <4> QED BY <2>3, <3>2, <3>5, <4>1, ShowsText
    <3> QED BY <2>2, <3>6, ShowsOne
  <2> QED BY <1>0, <1>n, <2>1, <2>5, WrapListed
<1> QED BY <1>2, <1>3

\* What the code declines has no text.
LEMMA DeclinedIsNothing ==
  /\ \A r, seen : r = Declined(seen) => IsNothing(r.txt)
  /\ \A r : r = Rendered(Nothing) => IsNothing(r.txt)
<1>1. IsNothing(Nothing)
  BY DEF IsNothing, Nothing, Text
<1>2. ASSUME NEW r, NEW seen, r = Declined(seen) PROVE IsNothing(r.txt)
  <2>1. r.txt = Nothing
    BY <1>2 DEF Declined
  <2> QED BY <1>1, <2>1
<1>3. ASSUME NEW r, r = Rendered(Nothing) PROVE IsNothing(r.txt)
  <2>1. r.txt = Nothing
    BY <1>3 DEF Rendered
  <2> QED BY <1>1, <2>1
<1> QED BY <1>2, <1>3

LEMMA AggregatesListed ==
  ASSUME NEW e, NEW relids, NEW rs, NEW r, Arm(e, relids, rs, r), IsA(e, "Aggref")
  PROVE  Marked(r.txt) = r.seen
<1>0. r = deparseExpr(e, rs, relids) /\ ~IsNothing(r.txt)
  BY ArmNotNothing DEF Arm
<1>i. PICK info : info = db2AggregateInfo(e.name, e.kind)
  OBVIOUS
<1>1. r = RenderAggref(e, info, rs)
  BY <1>0, <1>i DEF deparseExpr, IsA
<1>2. info \in {"none", "plain", "ordered"}
  BY <1>i, AggregateNames
<1>3. info # "none"
  <2>1. SUFFICES ASSUME info = "none" PROVE FALSE
    OBVIOUS
  <2>2. r = Declined(<<>>)
    BY <1>1, <2>1 DEF RenderAggref
  <2> QED BY <1>0, <2>2, DeclinedIsNothing
<1> QED BY <1>2, <1>3, <1>i, OrderedSetListed, PlainAggregatesListed

Translated == {"Const", "Param", "Var", "Op", "ScalarArray", "Distinct", "NullIf", "Bool", "Relabel", "CoerceToDomain", "Case",
               "Coalesce", "NullTest", "Func", "CoerceViaIO", "SQLValue", "Aggref"}
LEMMA ArmListed ==
  ASSUME NEW e, NEW relids, NEW rs, NEW r, Arm(e, relids, rs, r)
  PROVE  Marked(r.txt) = r.seen
<1>0. r = deparseExpr(e, rs, relids) /\ ~IsNothing(r.txt)
  BY ArmNotNothing DEF Arm
<1>1. e.tag \in Translated
  <2>1. SUFFICES ASSUME e.tag \notin Translated PROVE FALSE
    OBVIOUS
  <2>2. r = Rendered(Nothing)
    BY <1>0, <2>1 DEF deparseExpr, Translated
  <2> QED BY <1>0, <2>2, DeclinedIsNothing
<1>2. CASE e.tag \in {"Const", "Param", "Var", "CoerceViaIO", "SQLValue"}
  BY <1>2, LeavesListed
<1>3. CASE e.tag \in {"Op", "Distinct", "NullIf", "Bool", "Coalesce"}
  BY <1>3, OperatorsListed
<1>4. CASE e.tag \in {"Relabel", "CoerceToDomain", "NullTest"}
  BY <1>4, PassedOnListed
<1>5. CASE IsA(e, "ScalarArray") \/ IsA(e, "Case") \/ IsA(e, "Func") \/ IsA(e, "Aggref")
  BY <1>5, ListsListed, CasesListed, FunctionsListed, AggregatesListed
<1> QED BY <1>1, <1>2, <1>3, <1>4, <1>5 DEF Translated, IsA

\* By induction on the expression: what is rendered below it is smaller.
LEMMA RenderListed == \A e \in Expressions, relids \in SUBSET Bases : Listed(Render(e, relids))
<1> DEFINE D == {e \in Expressions : \E relids \in SUBSET Bases : ~Listed(Render(e, relids))}
<1>1. SUFFICES ASSUME D # {} PROVE FALSE
  OBVIOUS
<1>2. PICK e \in D : \A d \in D : ~(Size(d) < Size(e))
  BY <1>1, LeastExpression
<1>3. PICK relids \in SUBSET Bases : ~Listed(Render(e, relids))
  OBVIOUS
<1>p. PICK r, os, rs : r = Render(e, relids) /\ os = Operands(e) /\ rs = [i \in DOMAIN os |-> Render(os[i], relids)]
  OBVIOUS
<1>4. /\ e \in Expressions /\ r = deparseExpr(e, rs, relids) /\ r.seen \in Seq(Expressions) /\ r.txt \in Texts
  BY <1>p, RenderAssumption, TextsAssumption
<1>5. Clean(r.txt) /\ Marked(r.txt) # r.seen
  BY <1>3, <1>4, <1>p DEF Listed
<1>6. ~IsNothing(r.txt) /\ \A i \in DOMAIN r.txt.parts : ~IsNothing(r.txt.parts[i])
  BY <1>4, <1>5, CleanParts
<1>7. e # NoExpr
  <2>1. SUFFICES ASSUME e = NoExpr PROVE FALSE
    OBVIOUS
  <2>2. e.tag = "NULL"
    BY <2>1 DEF NoExpr
  <2>3. r = Rendered(Nothing)
    BY <1>4, <2>2 DEF deparseExpr
  <2> QED BY <1>6, <2>3, DeclinedIsNothing
<1>8. IsA(e, "Case") => e.arg = NoExpr
  <2>1. SUFFICES ASSUME IsA(e, "Case"), e.arg # NoExpr PROVE FALSE
    OBVIOUS
  <2>2. Len(os) > 0 /\ Len(os) \in Nat /\ DOMAIN os = 1 .. Len(os)
    BY <1>4, <1>p, <2>1, CaseFirst
  <2>s. PICK n, S : n = Len(os) /\ S = {rs[i] : i \in DOMAIN os}
    OBVIOUS
  <2>3. rs \in [1 .. n -> S]
    BY <1>p, <2>2, <2>s
  <2>4. rs \in Seq(S) /\ Len(rs) = n
    BY <2>2, <2>3, <2>s
  <2>5. rs # <<>>
    BY <2>2, <2>4, <2>s
  <2>6. r = RenderCase(e, rs)
    BY <1>4, <2>1 DEF deparseExpr, IsA
  <2> QED BY <1>4, <1>6, <2>1, <2>4, <2>5, <2>6, CaseText
<1>9. os \in Seq(Expressions) /\ \A o \in ToSet(os) : Less(e, o)
  BY <1>4, <1>7, <1>8, <1>p, OperandsLess
<1>n. PICK n : n = Len(os)
  OBVIOUS
<1>10. n \in Nat /\ DOMAIN os = 1 .. n /\ \A i \in 1 .. n : os[i] \in Expressions /\ os[i] \in ToSet(os)
  BY <1>9, <1>n DEF ToSet
<1>11. rs \in [1 .. n -> Renderings] /\ \A i \in 1 .. n : rs[i] = Render(os[i], relids)
  BY <1>10, <1>p DEF Renderings
<1>12. rs \in Seq(Renderings) /\ Len(rs) = n /\ DOMAIN rs = 1 .. n
  BY <1>10, <1>11
<1>13. ASSUME NEW i \in DOMAIN rs PROVE Listed(rs[i])
  <2>1. os[i] \in Expressions /\ Less(e, os[i]) /\ rs[i] = Render(os[i], relids)
    BY <1>9, <1>10, <1>11, <1>12
  <2>2. os[i] \notin D
    BY <1>2, <2>1 DEF Less
  <2> QED BY <2>1, <2>2
<1>14. Arm(e, relids, rs, r)
  BY <1>4, <1>5, <1>7, <1>12, <1>13, <1>n, <1>p DEF Arm
<1> QED BY <1>5, <1>14, ArmListed

(***************************************************************************)
(* Statements: lists of texts, each with the parameters of its markers.    *)
(***************************************************************************)
PartsShow(parts, seen) ==
  parts \in Seq(Texts) /\ seen \in Seq(Expressions) /\ ((\A i \in DOMAIN parts : Clean(parts[i])) => Shows(parts, seen))
ListShows(r) == PartsShow(r.txt.parts, r.seen)

LEMMA ConditionsShow ==
  ASSUME NEW es \in Seq(Expressions), NEW relids \in SUBSET Bases, NEW r, r = appendConditions(es, relids)
  PROVE  ListShows(r) /\ DOMAIN r.txt.parts = DOMAIN es
<1>p. PICK rs, n, texts, ms, E, T : /\ n = Len(es) /\ rs = [i \in DOMAIN es |-> Render(es[i], relids)]
                              /\ texts = [i \in DOMAIN rs |-> rs[i].txt] /\ ms = [i \in DOMAIN rs |-> rs[i].seen]
                              /\ E = Expressions /\ T = Texts
  OBVIOUS
<1>1. n \in Nat /\ DOMAIN es = 1 .. n /\ \A i \in 1 .. n : es[i] \in Expressions
  BY <1>p
<1>2. rs \in [1 .. n -> Renderings] /\ \A i \in 1 .. n : Listed(rs[i])
  BY <1>1, <1>p, RenderListed DEF Renderings
<1>3. rs \in Seq(Renderings) /\ DOMAIN rs = 1 .. n
  BY <1>1, <1>2
<1>4. r.txt.parts = texts /\ r.seen = Concat(ms)
  BY <1>p DEF appendConditions, Conjunction, RenderList, Text
<1>5. \A i \in 1 .. n : rs[i].txt \in T /\ rs[i].seen \in Seq(E)
  BY <1>2, <1>p DEF Listed
<1>6. texts \in [1 .. n -> T] /\ ms \in [1 .. n -> Seq(E)]
  BY <1>3, <1>5, <1>p
<1>7. texts \in Seq(T) /\ ms \in Seq(Seq(E))
  BY <1>1, <1>6
<1>8. Concat(ms) \in Seq(E)
  BY <1>7, ConcatList
<1>9. ASSUME \A i \in DOMAIN texts : Clean(texts[i])
      PROVE  Shows(texts, Concat(ms))
  <2>1. \A i \in DOMAIN rs : Listed(rs[i]) /\ Clean(rs[i].txt)
    BY <1>2, <1>3, <1>9, <1>p
  <2>2. Shows([i \in DOMAIN rs |-> rs[i].txt], Concat([i \in DOMAIN rs |-> rs[i].seen]))
    BY <1>3, <2>1, ShowsAll
  <2> QED BY <1>p, <2>2
<1>10. DOMAIN texts = DOMAIN es
  BY <1>1, <1>6
<1> QED BY <1>4, <1>7, <1>8, <1>9, <1>10, <1>p DEF ListShows, PartsShow

LEMMA NothingShows == PartsShow(<<>>, <<>>)
<1>p. PICK none, S : none = <<>> /\ S = {}
  OBVIOUS
<1>1. none \in Seq(S) /\ DOMAIN none = {} /\ none \in Seq(Texts) /\ none \in Seq(Expressions)
  BY <1>p
<1>2. Shows(none, <<>>)
  BY <1>1, ShowsNone
<1> QED BY <1>1, <1>2, <1>p DEF PartsShow

LEMMA BothShow ==
  ASSUME NEW ps, NEW a, NEW qs, NEW b, PartsShow(ps, a), PartsShow(qs, b)
  PROVE  PartsShow(ps \o qs, a \o b)
<1>1. ps \in Seq(Texts) /\ qs \in Seq(Texts) /\ a \in Seq(Expressions) /\ b \in Seq(Expressions)
  BY DEF PartsShow
<1>2. ps \o qs \in Seq(Texts) /\ a \o b \in Seq(Expressions)
  BY <1>1
<1>p. PICK all, m, n : all = ps \o qs /\ m = Len(ps) /\ n = Len(qs)
  OBVIOUS
<1>3. ASSUME \A i \in DOMAIN all : Clean(all[i])
      PROVE  Shows(ps \o qs, a \o b)
  <2>1. /\ m \in Nat /\ n \in Nat /\ DOMAIN all = 1 .. (m + n) /\ DOMAIN ps = 1 .. m /\ DOMAIN qs = 1 .. n
        /\ \A i \in 1 .. m : all[i] = ps[i]
        /\ \A k \in 1 .. n : all[m + k] = qs[k]
    BY ONLY <1>1, <1>p, BothAt
  <2>2. \A i \in DOMAIN ps : Clean(ps[i])
    <3>1. \A i \in 1 .. m : i \in DOMAIN all
      BY ONLY <2>1
    <3> QED BY <1>3, <2>1, <3>1
  <2>3. \A i \in DOMAIN qs : Clean(qs[i])
    <3>1. \A k \in 1 .. n : m + k \in DOMAIN all
      BY ONLY <2>1
    <3> QED BY <1>3, <2>1, <3>1
  <2>4. Shows(ps, a) /\ Shows(qs, b)
    BY <2>2, <2>3 DEF PartsShow
  <2> QED BY <1>1, <2>4, ShowsBoth
<1> QED BY <1>2, <1>3, <1>p DEF PartsShow

\* An empty list is a NULL without parameters.
LEMMA TargetShows ==
  ASSUME NEW es \in Seq(Expressions), NEW relids \in SUBSET Bases, NEW r, r = deparseExplicitTargetList(es, relids)
  PROVE  ListShows(r)
<1>1. CASE es # <<>>
  BY <1>1, ConditionsShow DEF deparseExplicitTargetList
<1>2. CASE es = <<>>
  <2>p. PICK null, parts, none : null = Leaf("NULL", NoExpr) /\ parts = <<null>> /\ none = <<>>
    OBVIOUS
  <2>1. r = Rendered(Text("AND", parts))
    BY <1>2, <2>p DEF deparseExplicitTargetList
  <2>2. r.txt.parts = parts /\ r.seen = none
    BY <2>1, <2>p DEF Rendered, Text
  <2>3. null \in Texts
    BY <2>p DEF Texts
  <2>4. Marked(null) = none /\ none \in Seq(Expressions)
    <3>1. "NULL" \in {"NULL", "lit", ":now", "ctid", "oid", "CASE ROW", "ROW", "col", "*"}
      OBVIOUS
    <3>2. Marked(null) = <<>>
      BY <2>3, <2>p, <3>1, PlainLeaf
    <3> QED BY <2>p, <3>2
  <2>5. parts \in Seq(Texts) /\ Shows(parts, none)
    <3>1. parts \in Seq(Texts)
      BY <2>3, <2>p
    <3>2. Shows(<<null>>, none)
      BY <2>4, ShowsOne
    <3> QED BY <2>p, <3>1, <3>2
  <2> QED BY <2>2, <2>4, <2>5 DEF ListShows, PartsShow
<1> QED BY <1>1, <1>2

\* A list without repetition is that of its entries, each once.
LEMMA OnceIsAll ==
  ASSUME NEW T, NEW s \in Seq(T), Cardinality(ToSet(s)) = Len(s)
  PROVE  Once(s) = s
<1>n. PICK n, S, at : n = Len(s) /\ S = ToSet(s) /\ at = {k \in FirstTimes(s) : s[k] \notin ToSet(<<>>)}
  OBVIOUS
<1>1. n \in Nat /\ DOMAIN s = 1 .. n /\ IsFiniteSet(1 .. n) /\ Cardinality(1 .. n) = n
  BY <1>n, ListPositions
<1>2. s \in Surjection(1 .. n, S)
  <2>1. s \in [1 .. n -> S] /\ \A t \in S : \E i \in 1 .. n : s[i] = t
    <3>1. S = {s[i] : i \in 1 .. n}
      BY <1>1, <1>n DEF ToSet
    <3>2. s = [i \in 1 .. n |-> s[i]]
      BY <1>1
    <3> QED BY <3>1, <3>2
  <2> QED BY <2>1 DEF Surjection
<1>3. s \in Injection(1 .. n, S)
  <2>1. Cardinality(S) = Cardinality(1 .. n) <=> s \in Injection(1 .. n, S)
    BY <1>1, <1>2, FS_Surjection
  <2> QED BY <1>1, <1>n, <2>1
<1>4. \A i, j \in 1 .. n : s[i] = s[j] => i = j
  BY <1>1, <1>3 DEF Injection, IsInjective
<1>5. at = 1 .. n
  <2>1. ToSet(<<>>) = {}
    BY DEF ToSet
  <2>2. ASSUME NEW i \in 1 .. n, NEW j \in 1 .. (i - 1) PROVE s[j] # s[i]
    <3>1. j \in 1 .. n /\ j # i
      BY <1>1, <2>2
    <3> QED BY <1>4, <3>1
  <2> QED BY <1>1, <1>n, <2>1, <2>2 DEF FirstTimes
<1>k. PICK asc : asc = Ascending(at)
  OBVIOUS
<1>6. asc = [k \in 1 .. n |-> k]
  BY <1>1, <1>5, <1>k, AscendingAll
<1>7. Picked(s, at) = [k \in DOMAIN asc |-> s[asc[k]]]
  BY <1>k DEF Picked
<1>8. Picked(s, at) = s
  <2>1. DOMAIN asc = 1 .. n /\ \A k \in 1 .. n : asc[k] = k
    BY <1>6
  <2>2. [k \in DOMAIN asc |-> s[asc[k]]] = [k \in 1 .. n |-> s[k]]
    BY <2>1
  <2>3. s = [k \in 1 .. n |-> s[k]]
    BY <1>1
  <2> QED BY <1>7, <2>2, <2>3
<1>9. Once(s) = <<>> \o Picked(s, at)
  BY <1>n DEF Once, add_to_flat_tlist
<1>10. <<>> \o s = s
  OBVIOUS
<1> QED BY <1>8, <1>9, <1>10

\* The conditions of the join that is scanned.
LEMMA JoinClausesList ==
  ASSUME PInv, PlanFacts, plan.made
  PROVE  JoinExprs \in Seq(Expressions)
<1>1. /\ query \in Queries /\ ScanOf \in {1, 2, 3} /\ rels[ScanOf].fdw.has /\ Bases = {1, 2}
      /\ ScanOf \in Bases => BaseFdw(ScanOf)
      /\ ScanOf = 3 => query.rels = {1, 2}
  BY MadeFacts
<1>2. CASE ScanOf \in Bases
  <2>1. JoinExprs = <<>>
    BY <1>1, <1>2 DEF BaseFdw, JoinExprs
  <2> QED BY <2>1
<1>3. CASE ScanOf = 3
  <2>1. rels[3] # NoRel
    BY <1>1, <1>3, NoRelFacts
  <2>2. JoinClausesOf(1, 2) \/ JoinClausesOf(2, 1)
    BY <2>1 DEF PInv, RelsInv, JoinInv, JoinRel
  <2>3. ASSUME NEW r \in Bases, rels[r].fdw.has PROVE rels[r].fdw.remote_conds \in Seq(Expressions)
    <3>e. PICK es, glob : es = query.restrict[r] /\ glob = BaseGlob(r)
      OBVIOUS
    <3>1. es \in Seq(Expressions)
      BY <1>1, <2>3, <3>e, QueryFacts
    <3>2. BaseFdw(r)
      <4>1. BaseOk(r) /\ r \in query.rels
        BY <1>1, <1>3, <2>3 DEF PInv, RelsInv, BaseInv
      <4> QED BY <2>3, <4>1 DEF BaseOk
    <3>3. rels[r].fdw.remote_conds = classifyConditions(glob, es).remote
      BY <3>2, <3>e DEF BaseFdw
    <3>s. PICK S : S = {c \in ToSet(es) : is_foreign_expr(glob, c)}
      OBVIOUS
    <3>4. classifyConditions(glob, es).remote = Only(es, S)
      BY <3>s DEF classifyConditions
    <3> QED BY <3>1, <3>3, <3>4, OnlyList
  <2>q. PICK quals, a, b : quals = query.joinquals /\ a = rels[1].fdw.remote_conds /\ b = rels[2].fdw.remote_conds
    OBVIOUS
  <2>4. quals \in Seq(Expressions)
    BY <1>1, <2>q, QueriesAssumption
  <2>5. rels[1].fdw.has /\ rels[2].fdw.has
    BY <2>2 DEF JoinClausesOf
  <2>6. a \in Seq(Expressions) /\ b \in Seq(Expressions)
    BY <1>1, <2>3, <2>5, <2>q
  <2>7. JoinExprs = quals \o b \o a \/ JoinExprs = quals \o a \o b
    BY <1>3, <2>2, <2>q DEF JoinClausesOf, JoinExprs, JoinRel
  <2>8. quals \o b \o a \in Seq(Expressions) /\ quals \o a \o b \in Seq(Expressions)
    BY <2>4, <2>6
  <2> QED BY <2>7, <2>8
<1> QED BY <1>1, <1>2, <1>3

\* What is found to sort by is an expression, or none.
LEMMA KeyIsExpression ==
  ASSUME NEW known, NEW r, NEW members \in Seq(Expressions), NEW em, em = find_em_for_rel(known, r, members)
  PROVE  em \in Expressions
<1>0. NoExpr \in Expressions
  BY ExpressionsAssumption
<1>p. PICK fit, last, all :
        /\ fit = Only(members, {e \in ToSet(members) : /\ pull_varnos(e) # {} /\ pull_varnos(e) \subseteq known[r].relids
                                                       /\ Ships(known, r, e)})
        /\ last = (IF PG18 \/ members = <<>> THEN <<>> ELSE <<Last(members)>>)
        /\ all = fit \o last
  OBVIOUS
<1>1. fit \in Seq(Expressions)
  BY <1>p, OnlyList
<1>2. last \in Seq(Expressions)
  <2>1. CASE PG18 \/ members = <<>>
    <3>1. last = <<>>
      BY <1>p, <2>1
    <3> QED BY <3>1
  <2>2. CASE ~(PG18 \/ members = <<>>)
    <3>1. last = <<members[Len(members)]>>
      BY <1>p, <2>2 DEF Last
    <3>2. members[Len(members)] \in Expressions
      BY <2>2
    <3> QED BY <3>1, <3>2
  <2> QED BY <2>1, <2>2
<1>3. all \in Seq(Expressions)
  BY <1>1, <1>2, <1>p
<1>4. em = FirstOf(all)
  BY <1>p DEF find_em_for_rel
<1> QED BY <1>0, <1>3, <1>4 DEF FirstOf

LEMMA KeysAreExpressions ==
  ASSUME PInv, PlanFacts, plan.made
  PROVE  KeyExprs \in Seq(Expressions) /\ IsList(plan.path.pathkeys)
<1>r. PICK r, pk : r = plan.rel /\ pk = plan.path.pathkeys
  OBVIOUS
<1>1. /\ query \in Queries /\ r \in {1, 2, 3, 4} /\ Bases = {1, 2} /\ rels[r].fdw.has
      /\ PathOk(plan.path) /\ plan.path.parent = r
  BY <1>r, MadeFacts
<1>2. /\ r \in Bases => ~plan.path.sort /\ pk \in {<<>>, query.pathkeys}
      /\ r = 3 => pk = <<>>
      /\ r = 4 => IF plan.path.sort THEN pk = query.sort ELSE pk = <<>>
  BY <1>1, <1>r DEF PathOk, BasePathOk, GroupPathOk, JoinRel
<1>3. /\ IsList(pk) /\ \A key \in ToSet(pk) : key.members \in Seq(Expressions)
  <2>1. /\ IsList(query.sort) /\ \A key \in ToSet(query.sort) : key.members \in Seq(Expressions)
        /\ IsList(query.pathkeys) /\ \A key \in ToSet(query.pathkeys) : key.members \in Seq(Expressions)
    BY <1>1, QueryFacts
  <2>2. IsList(<<>>) /\ ToSet(<<>>) = {}
    BY DEF IsList, ToSet
  <2> QED BY <1>1, <1>2, <2>1, <2>2
<1>n. PICK n : n = Len(pk)
  OBVIOUS
<1>4. n \in Nat /\ DOMAIN pk = 1 .. n
  BY <1>3, <1>n DEF IsList
<1>5. ASSUME NEW i \in 1 .. n PROVE KeyExprs[i] \in Expressions
  <2>1. pk[i] \in ToSet(pk) /\ pk # <<>>
    <3>1. i \in DOMAIN pk
      BY <1>4
    <3> QED BY <3>1 DEF ToSet
  <2>m. PICK members, em : members = pk[i].members /\ em = KeyExprs[i]
    OBVIOUS
  <2>2. members \in Seq(Expressions)
    BY <1>3, <2>1, <2>m
  <2>3. em = SortExpr(rels, r, members, plan.path.sort, query.sortrefs)
    BY <1>4, <1>r, <2>m DEF KeyExprs
  <2>4. CASE ~plan.path.sort
    <3>1. em = find_em_for_rel(rels, Scanrel(rels, r), members)
      BY <2>3, <2>4 DEF SortExpr
    <3> QED BY <2>2, <2>m, <3>1, KeyIsExpression
  <2>5. CASE plan.path.sort
    <3>1. r = 4 /\ em = find_em_for_rel_target(rels, r, members, query.sortrefs)
      BY <1>1, <1>2, <2>1, <2>3, <2>5 DEF SortExpr
    <3>2. rels[r].target = query.grouped
      <4>1. rels[4] # NoRel
        BY <1>1, <3>1, NoRelFacts
      <4> QED BY <3>1, <4>1 DEF PInv, RelsInv, GroupInv
    <3>3. em = NoExpr \/ em \in ToSet(members)
      BY <1>1, <2>2, <3>1, <3>2, SortColumnFound
    <3>4. em \in Expressions
      BY <2>2, <3>3, ExpressionsAssumption DEF ToSet
    <3> QED BY <2>m, <3>4
  <2> QED BY <2>4, <2>5
<1>6. KeyExprs \in [1 .. n -> Expressions]
  <2>1. KeyExprs = [i \in 1 .. n |-> KeyExprs[i]]
    BY <1>4, <1>r DEF KeyExprs
  <2> QED BY <1>5, <2>1
<1> QED BY <1>3, <1>4, <1>6, <1>r

\* The texts of the sort keys.
KeyTexts == [k \in DOMAIN plan.stmt.order |-> plan.stmt.order[k].key]
LEMMA OrderShows ==
  ASSUME PInv, PlanFacts, plan.made, SelectInv
  PROVE  PartsShow(KeyTexts, OrderOf.keys.seen)
<1>p. PICK ems, pk, order, relids : ems = KeyExprs /\ pk = plan.path.pathkeys /\ order = OrderOf /\ relids = OwnRelids
  OBVIOUS
<1>1. ems \in Seq(Expressions) /\ relids \in SUBSET Bases
  BY <1>p, KeysAreExpressions, OwnTables
<1>n. PICK n, S, kept, es : /\ n = Len(ems) /\ S = {i \in DOMAIN ems : ~IsA(ems[i], "Const")} /\ kept = Ascending(S)
                            /\ es = [k \in DOMAIN kept |-> ems[kept[k]]]
  OBVIOUS
<1>2. /\ order = OrderKeys(pk, ems, relids)
      /\ plan.stmt.order = [i \in DOMAIN order.pathkeys |->
                             [key |-> order.keys.txt.parts[i], desc |-> order.pathkeys[i].desc,
                              nulls |-> order.pathkeys[i].nulls]]
  BY <1>p, OrderFacts
<1>3. order.pathkeys = [k \in DOMAIN kept |-> pk[kept[k]]] /\ order.keys = appendConditions(es, relids)
  BY <1>2, <1>n DEF OrderKeys
<1>4. es \in Seq(Expressions) /\ DOMAIN es = DOMAIN kept
  <2>1. n \in Nat /\ DOMAIN ems = 1 .. n /\ S \in SUBSET (1 .. n)
    BY <1>1, <1>n
  <2>2. S \in SUBSET Nat /\ IsFiniteSet(S)
    BY <2>1, SomePositions
  <2>3. kept \in Seq(S) /\ Cardinality(S) \in Nat /\ DOMAIN kept = 1 .. Cardinality(S)
    BY <1>n, <2>2, AscendingList
  <2>c. PICK c : c = Cardinality(S)
    OBVIOUS
  <2>4. \A k \in 1 .. c : kept[k] \in 1 .. n
    <3>1. \A k \in DOMAIN kept : kept[k] \in S
      BY ONLY <2>3
    <3> QED BY ONLY <2>1, <2>3, <2>c, <3>1
  <2>5. \A k \in 1 .. c : ems[kept[k]] \in Expressions
    BY <1>1, <2>1, <2>4
  <2>6. es = [k \in 1 .. c |-> ems[kept[k]]]
    BY <1>n, <2>3, <2>c
  <2>7. es \in [1 .. c -> Expressions]
    BY <2>5, <2>6
  <2>8. es \in Seq(Expressions) /\ DOMAIN es = 1 .. c
    BY <2>3, <2>7, <2>c
  <2> QED BY <2>3, <2>8, <2>c
<1>5. ListShows(order.keys) /\ DOMAIN order.keys.txt.parts = DOMAIN es
  BY <1>1, <1>3, <1>4, ConditionsShow
<1>k. PICK parts : parts = order.keys.txt.parts
  OBVIOUS
<1>6. parts \in Seq(Texts) /\ DOMAIN parts = DOMAIN kept
  BY <1>4, <1>5, <1>k DEF ListShows, PartsShow
<1>7. KeyTexts = parts
  <2>1. DOMAIN order.pathkeys = DOMAIN kept
    BY <1>3
  <2>2. DOMAIN plan.stmt.order = DOMAIN kept /\ \A i \in DOMAIN kept : plan.stmt.order[i].key = parts[i]
    BY <1>2, <1>k, <2>1
  <2>3. KeyTexts = [k \in DOMAIN kept |-> parts[k]]
    BY <2>2 DEF KeyTexts
  <2> QED BY <1>6, <2>3
<1> QED BY <1>5, <1>7, <1>k, <1>p DEF ListShows

\* What a statement lists as parameters is what its texts show.
ParamsShow == \E seen : PartsShow(StatementTexts, seen) /\ plan.stmt.params = Once(seen)

LEMMA SelectShows ==
  ASSUME PInv, PlanFacts, GroupListInv, plan.made, SelectInv
  PROVE  ParamsShow
<1>1. PICK scan, upper, relids : scan = Scanrel(rels, plan.rel) /\ upper = (rels[plan.rel].kind = "upper") /\ relids = rels[scan].relids
  OBVIOUS
<1>2. PICK list, from, where, group, having, order, limit :
        /\ list = deparseExplicitTargetList(plan.scan, relids)
        /\ from = deparseFromExprForRel(rels, scan)
        /\ where = appendConditions(IF upper THEN rels[scan].fdw.remote_conds ELSE plan.remote, relids)
        /\ group = (IF upper THEN appendGroupByClause(rels[plan.rel].fdw.grouped_tlist, query.groupClause) ELSE <<>>)
        /\ having = appendConditions(IF upper THEN plan.remote ELSE <<>>, relids)
        /\ order = OrderOf
        /\ limit = (IF plan.path.limit THEN appendLimitClause(query.limit, relids) ELSE appendConditions(<<>>, relids))
  OBVIOUS
<1>3. plan.stmt = SelectStmt(query, relids, list, from, where, group, having, order, limit)
  BY <1>1, <1>2 DEF SelectInv, deparseSelectStmtForRel, OrderOf
<1>4. /\ query \in Queries /\ ScanOf = scan /\ relids = OwnRelids /\ relids \in SUBSET Bases
      /\ rels[scan].kind = IF scan \in Bases THEN "base" ELSE "join"
  <2>1. ScanOf = scan /\ query \in Queries /\ rels[ScanOf].kind = IF ScanOf \in Bases THEN "base" ELSE "join"
    BY <1>1, MadeFacts
  <2> QED BY <1>1, <2>1, OwnTables DEF OwnRelids
<1>5. ListShows(list)
  <2>1. plan.scan \in Seq(Expressions)
    <3>1. plan.stmt.cmd = "SELECT"
      BY <1>3 DEF SelectStmt
    <3>2. ListExprs = plan.scan
      BY <3>1 DEF ListExprs
    <3> QED BY <3>2, ListSeen DEF SeenList
  <2> QED BY <1>2, <1>4, <2>1, TargetShows
<1>6. ListShows(where) /\ ListShows(having)
  <2>e. PICK es, fs : es = WhereExprs /\ fs = HavingExprs
    OBVIOUS
  <2>1. es \in Seq(Expressions) /\ fs \in Seq(Expressions)
    BY <2>e, ConditionsSeen DEF SeenList
  <2>2. where = appendConditions(es, relids) /\ having = appendConditions(fs, relids)
    BY <1>1, <1>2, <1>4, <2>e DEF WhereExprs, HavingExprs
  <2> QED BY <1>4, <2>1, <2>2, ConditionsShow
<1>7. ListShows(from.on)
  <2>1. CASE rels[scan].kind = "join"
    <3>e. PICK es : es = rels[scan].fdw.joinclauses
      OBVIOUS
    <3>1. from.on = appendConditions(es, relids)
      BY <1>1, <1>2, <2>1, <3>e DEF deparseFromExprForRel
    <3>2. es \in Seq(Expressions)
      BY <1>4, <3>e, JoinClausesList DEF JoinExprs
    <3> QED BY <1>4, <3>1, <3>2, ConditionsShow
  <2>2. CASE rels[scan].kind # "join"
    <3>1. from.on = Rendered(Text("AND", <<>>))
      BY <1>2, <2>2 DEF deparseFromExprForRel
    <3>2. from.on.txt.parts = <<>> /\ from.on.seen = <<>>
      BY <3>1 DEF Rendered, Text
    <3> QED BY <3>2, NothingShows DEF ListShows
  <2> QED BY <2>1, <2>2
<1>8. ListShows(limit)
  <2>1. CASE plan.path.limit
    <3>e. PICK both, S, es : both = <<query.limit.offset, query.limit.count>> /\ S = {query.limit.offset, query.limit.count} \ {NoExpr}
                             /\ es = Only(both, S)
      OBVIOUS
    <3>1. query.limit.offset \in Expressions /\ query.limit.count \in Expressions
      BY <1>4, QueriesAssumption
    <3>2. both \in Seq(Expressions)
      BY <3>1, <3>e
    <3>3. es \in Seq(Expressions)
      BY <3>2, <3>e, OnlyList
    <3>4. limit = appendConditions(es, relids)
      BY <1>2, <2>1, <3>e DEF appendLimitClause
    <3> QED BY <1>4, <3>3, <3>4, ConditionsShow
  <2>2. CASE ~plan.path.limit
    <3>e. PICK es : es = <<>>
      OBVIOUS
    <3>1. es \in Seq(Expressions) /\ limit = appendConditions(es, relids)
      BY <1>2, <2>2, <3>e
    <3> QED BY <1>4, <3>1, ConditionsShow
  <2> QED BY <2>1, <2>2
<1>9. PartsShow(KeyTexts, order.keys.seen)
  BY <1>2, OrderShows
<1>t. PICK lt, ot, wt, ht, kt, mt, ls, os, ws, hs, ks, ms :
        /\ lt = list.txt.parts /\ ot = from.on.txt.parts /\ wt = where.txt.parts /\ ht = having.txt.parts
        /\ kt = KeyTexts /\ mt = limit.txt.parts
        /\ ls = list.seen /\ os = from.on.seen /\ ws = where.seen /\ hs = having.seen
        /\ ks = order.keys.seen /\ ms = limit.seen
  OBVIOUS
<1>10. /\ PartsShow(lt, ls) /\ PartsShow(ot, os) /\ PartsShow(wt, ws) /\ PartsShow(ht, hs)
       /\ PartsShow(kt, ks) /\ PartsShow(mt, ms)
  BY <1>5, <1>6, <1>7, <1>8, <1>9, <1>t DEF ListShows
<1>11. PartsShow(lt \o ot \o wt \o ht \o kt \o mt, ls \o os \o ws \o hs \o ks \o ms)
  <2>1. PartsShow(lt \o ot, ls \o os)
    BY <1>10, BothShow
  <2>2. PartsShow(lt \o ot \o wt, ls \o os \o ws)
    BY <1>10, <2>1, BothShow
  <2>3. PartsShow(lt \o ot \o wt \o ht, ls \o os \o ws \o hs)
    BY <1>10, <2>2, BothShow
  <2>4. PartsShow(lt \o ot \o wt \o ht \o kt, ls \o os \o ws \o hs \o ks)
    BY <1>10, <2>3, BothShow
  <2> QED BY <1>10, <2>4, BothShow
<1>12. /\ plan.stmt.list = lt /\ plan.stmt.on = ot /\ plan.stmt.where = wt /\ plan.stmt.having = ht /\ plan.stmt.limit = mt
       /\ plan.stmt.params = Once(ls \o os \o ws \o hs \o ks \o ms)
  BY <1>3, <1>t DEF SelectStmt
<1>13. StatementTexts = lt \o ot \o wt \o ht \o kt \o mt
  BY <1>12, <1>t DEF StatementTexts, KeyTexts
<1> QED BY <1>11, <1>12, <1>13 DEF ParamsShow

LEMMA DirectShows ==
  ASSUME PInv, PlanFacts, GroupListInv, plan.made, plan.stmt.cmd # "SELECT"
  PROVE  ParamsShow
<1>1. /\ query.cmd \in {"UPDATE", "DELETE"}
      /\ plan.stmt = IF query.cmd = "UPDATE"
                    THEN deparseDirectUpdateSql(rels, plan.rel, query.set, rels[plan.rel].fdw.final_remote_exprs)
                    ELSE deparseDirectDeleteSql(rels, plan.rel, rels[plan.rel].fdw.final_remote_exprs)
  BY DEF PlanFacts, DirectInv
<1>p. PICK relids, remote, es : relids = rels[plan.rel].relids /\ remote = plan.remote /\ es = ListExprs
  OBVIOUS
<1>2. /\ rels[plan.rel].fdw.final_remote_exprs = remote
      /\ rels[plan.rel].kind = "base" /\ ScanOf = plan.rel
  <2>1. find_modifytable_subplan
    BY DEF PlanFacts, DirectInv
  <2>2. plan.rel \in Bases
    <3>1. query \in Queries /\ query.rels \in {{1}, {2}, {1, 2}} /\ Bases = {1, 2} /\ plan.rel \in query.rels \cup {3, 4}
      BY MadeFacts
    <3>2. query.rels = {plan.rel}
      BY <2>1 DEF find_modifytable_subplan
    <3> QED BY <3>1, <3>2
  <2>3. rels[plan.rel].fdw.final_remote_exprs = remote
    BY <1>p DEF PInv, PlanInv
  <2>4. rels[plan.rel].kind = "base"
    BY <2>2, MadeFacts
  <2> QED BY <2>3, <2>4 DEF ScanOf
<1>3. relids \in SUBSET Bases
  BY <1>2, <1>p, OwnTables DEF OwnRelids
<1>4. remote \in Seq(Expressions) /\ es \in Seq(Expressions)
  <2>1. WhereExprs = remote
    BY <1>2, <1>p DEF WhereExprs
  <2> QED BY <1>p, <2>1, ConditionsSeen, ListSeen DEF SeenList
<1>5. plan.stmt.cmd = query.cmd
  BY <1>1 DEF deparseDirectUpdateSql, deparseDirectDeleteSql, DirectSql
<1>6. PICK sets, list, where : /\ list = appendConditions(es, relids) /\ where = appendConditions(remote, relids)
                               /\ plan.stmt = DirectSql(query.cmd, plan.rel, sets, list, where)
  <2>1. CASE query.cmd = "UPDATE"
    <3>1. es = [k \in DOMAIN query.set |-> query.set[k].expr]
      BY <1>5, <1>p, <2>1 DEF ListExprs
    <3> QED BY <1>1, <1>2, <1>p, <2>1, <3>1 DEF deparseDirectUpdateSql
  <2>2. CASE query.cmd = "DELETE"
    <3>1. es = <<>>
      BY <1>5, <1>p, <2>2 DEF ListExprs
    <3> QED BY <1>1, <1>2, <1>p, <2>2, <3>1 DEF deparseDirectDeleteSql
  <2> QED BY <1>1, <2>1, <2>2
<1>7. ListShows(list) /\ ListShows(where)
  BY <1>3, <1>4, <1>6, ConditionsShow
<1>t. PICK lt, wt, ls, ws, none : /\ lt = list.txt.parts /\ wt = where.txt.parts /\ ls = list.seen /\ ws = where.seen
                                  /\ none = <<>>
  OBVIOUS
<1>8. PartsShow(lt, ls) /\ PartsShow(wt, ws) /\ PartsShow(none, none)
  BY <1>7, <1>t, NothingShows DEF ListShows
<1>9. PartsShow(lt \o none \o wt \o none \o none \o none, ls \o none \o ws \o none \o none \o none)
  <2>1. PartsShow(lt \o none, ls \o none)
    BY <1>8, BothShow
  <2>2. PartsShow(lt \o none \o wt, ls \o none \o ws)
    BY <1>8, <2>1, BothShow
  <2>3. PartsShow(lt \o none \o wt \o none, ls \o none \o ws \o none)
    BY <1>8, <2>2, BothShow
  <2>4. PartsShow(lt \o none \o wt \o none \o none, ls \o none \o ws \o none \o none)
    BY <1>8, <2>3, BothShow
  <2> QED BY <1>8, <2>4, BothShow
<1>10. ls \o none \o ws \o none \o none \o none = ls \o ws
  <2>1. ls \in Seq(Expressions) /\ ws \in Seq(Expressions)
    BY <1>8 DEF PartsShow
  <2>2. ls \o none = ls
    BY <1>t, <2>1
  <2>3. ls \o ws \in Seq(Expressions)
    BY <2>1
  <2>4. (ls \o ws) \o none = ls \o ws
    BY <1>t, <2>3
  <2> QED BY <2>2, <2>4
<1>11. /\ plan.stmt.list = lt /\ plan.stmt.on = none /\ plan.stmt.where = wt /\ plan.stmt.having = none
       /\ plan.stmt.order = none /\ plan.stmt.limit = none /\ plan.stmt.params = Once(ls \o ws)
  BY <1>6, <1>t DEF DirectSql
<1>12. [k \in DOMAIN plan.stmt.order |-> plan.stmt.order[k].key] = none
  BY <1>11, <1>t
<1>13. StatementTexts = lt \o none \o wt \o none \o none \o none
  BY <1>11, <1>12 DEF StatementTexts
<1>14. PartsShow(StatementTexts, ls \o ws)
  BY <1>9, <1>10, <1>13
<1> QED BY <1>11, <1>14 DEF ParamsShow

LEMMA ParamsSent ==
  ASSUME PInv, PlanFacts, GroupListInv
  PROVE  ParamsFollowMarkers
<1> SUFFICES ASSUME plan.made,
                    \A k \in DOMAIN StatementTexts : ~HasHole(StatementTexts[k])
                      /\ ~\E i \in DOMAIN Flat(StatementTexts[k]) : Flat(StatementTexts[k])[i].kw = "TRANSLATE",
                    Cardinality(ToSet(MarkedNodes)) = Len(MarkedNodes)
             PROVE  plan.stmt.params = MarkedNodes
  BY DEF ParamsFollowMarkers
<1>1. ParamsShow
  <2>1. IF plan.stmt.cmd = "SELECT" THEN SelectInv ELSE DirectInv
    BY DEF PlanFacts
  <2> QED BY <2>1, SelectShows, DirectShows
<1>2. PICK seen : PartsShow(StatementTexts, seen) /\ plan.stmt.params = Once(seen)
  BY <1>1 DEF ParamsShow
<1>s. PICK texts, marked : texts = StatementTexts /\ marked = [k \in DOMAIN texts |-> Marked(texts[k])]
  OBVIOUS
<1>3. \A k \in DOMAIN texts : Clean(texts[k])
  BY <1>s DEF Clean, HasHole, ToSet
<1>4. Shows(texts, seen) /\ texts \in Seq(Texts) /\ seen \in Seq(Expressions)
  BY <1>2, <1>3, <1>s DEF PartsShow
<1>5. PICK ms \in Seq(Seq(Expressions)) : /\ Len(ms) = Len(texts) /\ seen = Concat(ms)
                                          /\ \A i \in DOMAIN ms : ms[i] = Marked(texts[i])
  BY <1>4 DEF Shows
<1>6. ms = marked
  BY <1>4, <1>5, <1>s
<1>7. MarkedNodes = seen
  BY <1>5, <1>6, <1>s DEF MarkedNodes
<1>8. Once(seen) = seen
  BY <1>4, <1>7, OnceIsAll
<1> QED BY <1>2, <1>7, <1>8

(***************************************************************************)
(* Whatever is sent lists its parameters as their markers follow one       *)
(* another, so that values can be bound by their positions: in every       *)
(* statement without a hole, a TRANSLATE or a parameter used twice.        *)
(***************************************************************************)
THEOREM PlannerParams == Spec => []ParamsFollowMarkers
BY PlannerInvariant, PlannerPlans, PlannerGroupLists, ParamsSent, PTL

(***************************************************************************)
(* What a text means: operators that are renamed, comparisons with a list. *)
(***************************************************************************)
Named == {"=", "<>", "<", ">", "+", "-", "*", "AND", "OR", "NOT"}
LEMMA OtherApplied ==
  ASSUME NEW name, name \notin Named, NEW vs
  PROVE  Applied(name, vs) = Strict(vs, Opaque(vs))
<1>1. /\ name # "=" /\ name # "<>" /\ name # "<" /\ name # ">" /\ name # "+" /\ name # "-" /\ name # "*"
      /\ name # "AND" /\ name # "OR" /\ name # "NOT"
  BY DEF Named
<1> QED BY <1>1, Zenon DEF Applied

\* Two comparisons of one value with another.
LEMMA Compared ==
  ASSUME NEW l, NEW x
  PROVE  /\ Applied("=", <<l, x>>) = IF l = Null \/ x = Null THEN Null ELSE Truth(l = x)
         /\ Applied("<>", <<l, x>>) = IF l = Null \/ x = Null THEN Null ELSE Truth(l # x)
<1>p. PICK vs : vs = <<l, x>>
  OBVIOUS
<1>1. DOMAIN vs = {1, 2} /\ vs[1] = l /\ vs[2] = x
  BY <1>p
<1>2. \A v : Strict(vs, v) = IF l = Null \/ x = Null THEN Null ELSE v
  BY <1>1 DEF Strict
<1>3. Applied("=", vs) = Strict(vs, Truth(vs[1] = vs[2]))
  BY DEF Applied
<1>4. Applied("<>", vs) = Strict(vs, Truth(vs[1] # vs[2]))
  <2>1. "<>" # "="
    OBVIOUS
  <2> QED BY <2>1 DEF Applied
<1> QED BY <1>1, <1>2, <1>3, <1>4, <1>p

LEMMA NotEqual ==
  ASSUME NEW l, NEW x
  PROVE  Not3(Applied("<>", <<l, x>>)) = Applied("=", <<l, x>>)
<1>1. Null = -1 /\ \A b \in BOOLEAN : Truth(b) \in {0, 1} /\ Truth(~b) = 1 - Truth(b)
  BY DEF Null, Truth
<1>2. CASE l = Null \/ x = Null
  <2>1. Applied("=", <<l, x>>) = Null /\ Applied("<>", <<l, x>>) = Null
    BY <1>2, Compared
  <2> QED BY <2>1 DEF Not3
<1>3. CASE ~(l = Null \/ x = Null)
  <2>1. Applied("=", <<l, x>>) = Truth(l = x) /\ Applied("<>", <<l, x>>) = Truth(l # x)
    BY <1>3, Compared
  <2>2. Truth(l = x) = 1 - Truth(l # x) /\ Truth(l # x) # Null
    BY DEF Truth, Null
  <2> QED BY <2>1, <2>2 DEF Not3
<1> QED BY <1>2, <1>3

\* IN and NOT IN are what a comparison with any or all elements is.
LEMMA ListMeant ==
  ASSUME NEW e, NEW left, NEW elems, (e.name = "=" /\ e.useOr = TRUE) \/ (e.name = "<>" /\ e.useOr = FALSE)
  PROVE  Quantified(e, left, elems) = IF e.useOr THEN IsIn(left, elems) ELSE Not3(IsIn(left, elems))
<1>t. PICK tests : tests = [k \in DOMAIN elems |-> Applied(e.name, <<left, elems[k]>>)]
  OBVIOUS
<1>0. Quantified(e, left, elems) = IF e.useOr THEN Or3(tests) ELSE And3(tests)
  BY <1>t DEF Quantified
<1>1. CASE e.name = "=" /\ e.useOr = TRUE
  BY <1>0, <1>1, <1>t DEF IsIn
<1>2. CASE e.name = "<>" /\ e.useOr = FALSE
  <2>1. [k \in DOMAIN tests |-> Not3(tests[k])] = [k \in DOMAIN elems |-> Applied("=", <<left, elems[k]>>)]
    <3>1. DOMAIN tests = DOMAIN elems /\ \A k \in DOMAIN elems : tests[k] = Applied("<>", <<left, elems[k]>>)
      BY <1>2, <1>t
    <3>2. \A k \in DOMAIN elems : Not3(tests[k]) = Applied("=", <<left, elems[k]>>)
      BY <3>1, NotEqual
    <3> QED BY <3>1, <3>2
  <2>2. And3(tests) = Not3(Or3([k \in DOMAIN tests |-> Not3(tests[k])]))
    BY DEF And3
  <2> QED BY <1>0, <1>2, <2>1, <2>2 DEF IsIn
<1> QED BY <1>1, <1>2

\* What a text means whose word is an operator or a function.
Words == {"col", "?", ":p", "lit", "NULL", "IN", "NOT IN", "IS DISTINCT FROM", "NULLIF", "COALESCE", "IS NULL", "IS NOT NULL",
          "CASE", "TRANSLATE"}
LEMMA OtherWord ==
  ASSUME NEW t, t.kw \notin Words, NEW vs, NEW env
  PROVE  Db2Value(t, vs, env) = Applied(t.kw, vs)
<1>w. PICK kw : kw = t.kw
  OBVIOUS
<1>1. /\ kw # "col" /\ kw # "?" /\ kw # ":p" /\ kw # "lit" /\ kw # "NULL" /\ kw # "IN" /\ kw # "NOT IN"
      /\ kw # "IS DISTINCT FROM" /\ kw # "NULLIF" /\ kw # "COALESCE" /\ kw # "IS NULL" /\ kw # "IS NOT NULL"
      /\ kw # "CASE" /\ kw # "TRANSLATE"
  BY <1>w DEF Words
<1> QED BY <1>1, <1>w DEF Db2Value

\* A name that is translated names what the other name does.
SameWord(a, b) == b \notin Words /\ \A vs : Applied(a, vs) = Applied(b, vs)
LEMMA OperatorsKept ==
  ASSUME NEW name, NEW left, NEW right, isTranslatableOpExpr(name, left, right)
  PROVE  SameWord(name, DB2Operator(name))
<1>p. PICK word : word = DB2Operator(name)
  OBVIOUS
<1>1. name \in {">", "<", ">=", "<=", "=", "<>", "+", "*", "-"} \/ name \in {"~~", "!~~", "~~*", "!~~*", "^", "%", "&", "|/", "@"}
  BY DEF isTranslatableOpExpr
<1>2. CASE name \in {">", "<", ">=", "<=", "=", "<>", "+", "*", "-"}
  <2>1. word = name
    BY <1>2, <1>p DEF DB2Operator
  <2>2. name \notin Words
    BY <1>2 DEF Words
  <2> QED BY <1>p, <2>1, <2>2 DEF SameWord
<1>3. CASE name \in {"~~", "!~~", "~~*", "!~~*", "^", "%", "&", "|/", "@"}
  <2>1. word \in {"LIKE", "NOT LIKE", "UPPER LIKE", "UPPER NOT LIKE", "POWER", "MOD", "BITAND", "SQRT", "ABS"}
    BY <1>3, <1>p DEF DB2Operator
  <2>2. word \notin Words /\ word \notin Named /\ name \notin Named
    BY <1>3, <2>1 DEF Words, Named
  <2> QED BY <1>p, <2>2, OtherApplied DEF SameWord
<1> QED BY <1>1, <1>2, <1>3

Functions == {"abs", "acos", "asin", "atan", "atan2", "ceil", "ceiling", "char_length", "character_length",
              "concat", "cos", "exp", "initcap", "length", "lower", "lpad", "ltrim", "mod", "octet_length",
              "position", "pow", "power", "replace", "round", "rpad", "rtrim", "sign", "sin", "sqrt", "strpos",
              "substr", "tan", "to_char", "to_date", "to_number", "to_timestamp", "trunc", "upper", "substring", "date_part"}
LEMMA FunctionsKept ==
  ASSUME NEW e, isTranslatableFuncExpr(e), e.form # "implicit", e.name \notin {"translate", "now", "transaction_timestamp"}
  PROVE  SameWord(e.name, IF e.name = "date_part" THEN "EXTRACT" ELSE DB2Function(e.name))
<1>p. PICK name, word : name = e.name /\ word = IF name = "date_part" THEN "EXTRACT" ELSE DB2Function(name)
  OBVIOUS
<1>1. name \in Functions
  BY <1>p DEF isTranslatableFuncExpr, isTranslatableNormalFunction, Functions
<1>2. name \notin Named /\ name \notin Words
  BY <1>1 DEF Functions, Named, Words
<1>3. word \in {"EXTRACT", "CEIL", "LENGTH", "POWER", "LENGTHB", "INSTR", "SUBSTR"} \/ word = name
  BY <1>p DEF DB2Function
<1>4. word \notin Named /\ word \notin Words
  <2>1. CASE word = name
    BY <1>2, <2>1
  <2>2. CASE word \in {"EXTRACT", "CEIL", "LENGTH", "POWER", "LENGTHB", "INSTR", "SUBSTR"}
    BY <2>2 DEF Named, Words
  <2> QED BY <1>3, <2>1, <2>2
<1> QED BY <1>2, <1>4, <1>p, OtherApplied DEF SameWord

(***************************************************************************)
(* A node that is sent, and the values of what is rendered below it.       *)
(***************************************************************************)
PgMeant(n, env)  == EvalPg(n, env) = PgValue(n, [k \in DOMAIN Inputs(n) |-> EvalPg(Inputs(n)[k], env)], env)
Db2Meant(t, env) == EvalDb2(t, env) = Db2Value(t, [k \in DOMAIN t.parts |-> EvalDb2(t.parts[k], env)], env)
Met(e, env, os, rs, t) ==
  /\ e \in Expressions /\ e # NoExpr /\ (IsA(e, "Case") => e.arg = NoExpr) /\ (IsA(e, "Var") => e.attno > 0)
  /\ e.tag \notin {"Aggref", "CoerceViaIO", "SQLValue"}
  /\ os = Operands(e) /\ os \in Seq(Expressions) /\ rs \in Seq(Renderings) /\ Len(rs) = Len(os)
  /\ t \in Texts /\ ~IsNothing(t)
  /\ EvalPg(NoExpr, env) = Null /\ PgMeant(e, env) /\ Db2Meant(t, env) /\ \A k \in DOMAIN t.parts : Db2Meant(t.parts[k], env)
  /\ \A i \in DOMAIN os : rs[i].txt = t \/ rs[i].txt \in ToSet(t.parts) => EvalPg(os[i], env) = EvalDb2(rs[i].txt, env)
Agrees(e, env, t) == EvalPg(e, env) = EvalDb2(t, env)

LEMMA MetLists ==
  ASSUME NEW e, NEW env, NEW os, NEW rs, NEW t, Met(e, env, os, rs, t)
  PROVE  Len(os) \in Nat /\ DOMAIN os = 1 .. Len(os) /\ DOMAIN rs = 1 .. Len(os)
<1>1. os \in Seq(Expressions) /\ rs \in Seq(Renderings) /\ Len(rs) = Len(os)
  BY DEF Met
<1>2. DOMAIN os = 1 .. Len(os) /\ Len(os) \in Nat
  BY <1>1
<1>3. DOMAIN rs = 1 .. Len(rs)
  BY <1>1
<1> QED BY <1>1, <1>2, <1>3

\* Operands that are written one after the other have their values in the text.
LEMMA EachMeant ==
  ASSUME NEW e, NEW env, NEW os, NEW rs, NEW t, Met(e, env, os, rs, t), NEW kw, NEW r, r = Wrap(kw, Each(rs)), r.txt = t
  PROVE  /\ t.kw = kw
         /\ [k \in DOMAIN t.parts |-> EvalDb2(t.parts[k], env)] = [k \in DOMAIN os |-> EvalPg(os[k], env)]
<1>n. PICK n, each, holes : n = Len(os) /\ each = Each(rs) /\ holes = {i \in DOMAIN rs : IsNothing(rs[i].txt)}
  OBVIOUS
<1>1. n \in Nat /\ DOMAIN os = 1 .. n /\ DOMAIN rs = 1 .. n /\ Len(rs) = n
  BY <1>n, MetLists DEF Met
<1>2. each.ok /\ t = Text(kw, each.parts)
  <2>1. ~IsNothing(t) /\ IsNothing(Nothing)
    BY DEF Met, IsNothing, Nothing, Text
  <2>2. r.txt = IF each.ok THEN Text(kw, each.parts) ELSE Nothing
    BY <1>n DEF Wrap
  <2> QED BY <2>1, <2>2
<1>3. holes = {}
  BY <1>2, <1>n DEF Each
<1>4. each.parts = [i \in 1 .. n |-> rs[i].txt]
  BY <1>1, <1>3, <1>n DEF Each
<1>5. t.kw = kw /\ t.parts = [i \in 1 .. n |-> rs[i].txt]
  BY <1>2, <1>4 DEF Text
<1>6. ASSUME NEW k \in 1 .. n PROVE EvalDb2(t.parts[k], env) = EvalPg(os[k], env)
  <2>1. rs[k].txt = t.parts[k] /\ k \in DOMAIN t.parts
    BY <1>5
  <2>2. rs[k].txt \in ToSet(t.parts)
    BY <2>1 DEF ToSet
  <2>3. EvalPg(os[k], env) = EvalDb2(rs[k].txt, env)
    BY <1>1, <2>2 DEF Met
  <2> QED BY <2>1, <2>3
<1>7. DOMAIN t.parts = 1 .. n
  BY <1>5
<1> QED BY <1>1, <1>5, <1>6, <1>7

\* Nodes other than lists and CASEs have their operands for inputs.
LEMMA PlainInputs ==
  ASSUME NEW e, NEW env, NEW os, NEW rs, NEW t, Met(e, env, os, rs, t), ~IsA(e, "ScalarArray"), ~IsA(e, "Case")
  PROVE  Inputs(e) = os /\ os = Children(e) /\ EvalPg(e, env) = PgValue(e, [k \in DOMAIN os |-> EvalPg(os[k], env)], env)
<1>1. ~IsA(e, "Aggref")
  BY DEF Met, IsA
<1>2. Inputs(e) = Children(e) /\ Operands(e) = Children(e)
  BY <1>1 DEF Inputs, Operands
<1>3. os = Operands(e) /\ PgMeant(e, env)
  BY DEF Met
<1> QED BY <1>2, <1>3 DEF PgMeant

LEMMA LeavesAgree ==
  ASSUME NEW e, NEW env, NEW os, NEW rs, NEW t, Met(e, env, os, rs, t), NEW relids, NEW r, r = deparseExpr(e, rs, relids), r.txt = t,
         e.tag \in {"Const", "Param", "Var"}
  PROVE  Agrees(e, env, t)
<1>0. e \in Expressions /\ e # NoExpr /\ ~IsNothing(t) /\ (IsA(e, "Var") => e.attno > 0) /\ Db2Meant(t, env)
  BY DEF Met
<1>n. r.txt # Nothing
  <2>1. IsNothing(Nothing)
    BY DEF IsNothing, Nothing, Text
  <2> QED BY <1>0, <2>1
<1>v. PICK vs : vs = [k \in DOMAIN os |-> EvalPg(os[k], env)]
  OBVIOUS
<1>1. EvalPg(e, env) = PgValue(e, vs, env)
  BY <1>v, PlainInputs DEF IsA
<1>w. PICK ws : ws = [k \in DOMAIN t.parts |-> EvalDb2(t.parts[k], env)]
  OBVIOUS
<1>2. EvalDb2(t, env) = Db2Value(t, ws, env)
  BY <1>0, <1>w DEF Db2Meant
<1>3. CASE e.tag = "Const"
  <2>0. r = RenderConst(e)
    BY <1>3 DEF deparseExpr
  <2>1. CASE e.null
    <3>1. r = Rendered(IF canHandleType(e.type) THEN Leaf("NULL", e) ELSE Nothing)
      BY <2>0, <2>1 DEF RenderConst
    <3>2. t = Leaf("NULL", e)
      BY <1>n, <3>1 DEF Rendered
    <3>3. t.kw = "NULL"
      BY <3>2 DEF Leaf
    <3>4. Db2Value(t, ws, env) = Null
      BY <3>3 DEF Db2Value
    <3>5. PgValue(e, vs, env) = Null
      BY <1>0, <1>3, <2>1 DEF PgValue, IsA
    <3> QED BY <1>1, <1>2, <3>4, <3>5 DEF Agrees
  <2>2. CASE ~e.null
    <3>1. r = Rendered(IF Len(e.val) = 1 /\ datumRenders(e.val[1], e.type) THEN Leaf("lit", e) ELSE Nothing)
      BY <2>0, <2>2 DEF RenderConst
    <3>2. t = Leaf("lit", e)
      BY <1>n, <3>1 DEF Rendered
    <3>3. t.kw = "lit" /\ t.of = e
      BY <3>2 DEF Leaf
    <3>4. Db2Value(t, ws, env) = Code[e.val[1]]
      BY <3>3 DEF Db2Value
    <3>5. PgValue(e, vs, env) = Code[e.val[1]]
      BY <1>0, <1>3, <2>2 DEF PgValue, IsA
    <3> QED BY <1>1, <1>2, <3>4, <3>5 DEF Agrees
  <2> QED BY <2>1, <2>2
<1>4. CASE e.tag \in {"Param", "Var"}
  <2>1. t.kw \in {"col", "?", ":p"} /\ t.of = e
    <3>1. CASE e.tag = "Param"
      <4>1. r = RenderParam(e)
        BY <3>1 DEF deparseExpr
      <4>2. t = Leaf("?", e)
        BY <1>n, <4>1, ParamText
      <4> QED BY <4>2 DEF Leaf
    <3>2. CASE e.tag = "Var"
      <4>1. r = RenderVar(e, relids)
        BY <3>2 DEF deparseExpr
      <4>2. IsA(e, "Var") /\ e.attno > 0
        BY <1>0, <3>2 DEF IsA
      <4>3. t = Leaf(":p", e) \/ t = Leaf("col", e)
        BY <1>0, <4>1, <4>2, VarText
      <4> QED BY <4>3 DEF Leaf
    <3> QED BY <1>4, <3>1, <3>2
  <2>2. Db2Value(t, ws, env) = env[e]
    BY <2>1 DEF Db2Value
  <2>3. PgValue(e, vs, env) = env[e]
    BY <1>0, <1>4 DEF PgValue, IsA
  <2> QED BY <1>1, <1>2, <2>2, <2>3 DEF Agrees
<1> QED BY <1>3, <1>4

\* What agrees once the values below agree.
LEMMA SameMeaning ==
  ASSUME NEW e, NEW env, NEW os, NEW rs, NEW t, Met(e, env, os, rs, t), ~IsA(e, "ScalarArray"), ~IsA(e, "Case"),
         NEW kw, NEW r, r = Wrap(kw, Each(rs)), r.txt = t,
         \A vs : t.kw = kw => PgValue(e, vs, env) = Db2Value(t, vs, env)
  PROVE  Agrees(e, env, t)
<1>v. PICK vs, ws : vs = [k \in DOMAIN os |-> EvalPg(os[k], env)] /\ ws = [k \in DOMAIN t.parts |-> EvalDb2(t.parts[k], env)]
  OBVIOUS
<1>1. t.kw = kw /\ ws = vs
  BY <1>v, EachMeant
<1>2. EvalPg(e, env) = PgValue(e, vs, env)
  BY <1>v, PlainInputs
<1>3. EvalDb2(t, env) = Db2Value(t, ws, env)
  BY <1>v DEF Met, Db2Meant
<1> QED BY <1>1, <1>2, <1>3 DEF Agrees

LEMMA MetText ==
  ASSUME NEW e, NEW env, NEW os, NEW rs, NEW t, Met(e, env, os, rs, t)
  PROVE  e \in Expressions /\ e # NoExpr /\ ~IsNothing(t) /\ t # Nothing
<1>1. IsNothing(Nothing)
  BY DEF IsNothing, Nothing, Text
<1>2. e \in Expressions /\ e # NoExpr /\ ~IsNothing(t)
  BY DEF Met
<1> QED BY <1>1, <1>2

LEMMA OperatorsAgree ==
  ASSUME NEW e, NEW env, NEW os, NEW rs, NEW t, Met(e, env, os, rs, t), NEW relids, NEW r, r = deparseExpr(e, rs, relids), r.txt = t,
         e.tag \in {"Op", "Distinct", "NullIf", "Bool", "Coalesce"}
  PROVE  Agrees(e, env, t)
<1>0. e \in Expressions /\ e # NoExpr /\ t # Nothing /\ ~IsNothing(t)
  BY MetText
<1>d. \A seen : r # Declined(seen)
  BY <1>0, DeclinedIsNothing
<1>x. ~IsA(e, "ScalarArray") /\ ~IsA(e, "Case")
  BY DEF IsA
<1>1. CASE e.tag = "Op"
  <2>0. r = RenderOp(e, rs)
    BY <1>1 DEF deparseExpr
  <2>1. isTranslatableOpExpr(e.name, e.left, e.right) /\ r = Wrap(DB2Operator(e.name), Each(rs))
    BY <1>d, <2>0 DEF RenderOp
  <2>w. PICK word : word = DB2Operator(e.name)
    OBVIOUS
  <2>2. SameWord(e.name, word)
    BY <2>1, <2>w, OperatorsKept
  <2>3. ASSUME NEW vs, t.kw = word PROVE PgValue(e, vs, env) = Db2Value(t, vs, env)
    <3>1. PgValue(e, vs, env) = Applied(e.name, vs)
      BY <1>0, <1>1 DEF PgValue, IsA
    <3>2. Db2Value(t, vs, env) = Applied(word, vs)
      BY <2>2, <2>3, OtherWord DEF SameWord
    <3> QED BY <2>2, <3>1, <3>2 DEF SameWord
  <2> QED BY <1>x, <2>1, <2>3, <2>w, SameMeaning
<1>2. CASE e.tag = "Distinct"
  <2>0. r = RenderDistinct(e, rs)
    BY <1>2 DEF deparseExpr
  <2>1. r = Wrap("IS DISTINCT FROM", Each(rs))
    BY <1>d, <2>0 DEF RenderDistinct
  <2>3. ASSUME NEW vs, t.kw = "IS DISTINCT FROM" PROVE PgValue(e, vs, env) = Db2Value(t, vs, env)
    <3>1. PgValue(e, vs, env) = Truth(vs[1] # vs[2])
      BY <1>0, <1>2 DEF PgValue, IsA
    <3>2. Db2Value(t, vs, env) = Truth(vs[1] # vs[2])
      BY <2>3 DEF Db2Value
    <3> QED BY <3>1, <3>2
  <2> QED BY <1>x, <2>1, <2>3, SameMeaning
<1>3. CASE e.tag = "NullIf"
  <2>0. r = RenderNullIf(e, rs)
    BY <1>3 DEF deparseExpr
  <2>1. r = Wrap("NULLIF", Each(rs))
    BY <1>d, <2>0 DEF RenderNullIf
  <2>3. ASSUME NEW vs, t.kw = "NULLIF" PROVE PgValue(e, vs, env) = Db2Value(t, vs, env)
    <3>1. PgValue(e, vs, env) = NullIf(vs)
      BY <1>0, <1>3 DEF PgValue, IsA
    <3>2. Db2Value(t, vs, env) = NullIf(vs)
      BY <2>3 DEF Db2Value
    <3> QED BY <3>1, <3>2
  <2> QED BY <1>x, <2>1, <2>3, SameMeaning
<1>4. CASE e.tag = "Bool"
  <2>0. r = Wrap(e.name, Each(rs))
    BY <1>4 DEF deparseExpr
  <2>1. e.name \in {"AND", "OR", "NOT"}
    BY <1>0, <1>4, ExpressionsAssumption DEF WellFormed, IsA
  <2>3. ASSUME NEW vs, t.kw = e.name PROVE PgValue(e, vs, env) = Db2Value(t, vs, env)
    <3>1. PgValue(e, vs, env) = Applied(e.name, vs)
      BY <1>0, <1>4 DEF PgValue, IsA
    <3>2. Db2Value(t, vs, env) = Applied(e.name, vs)
      <4>1. t.kw \notin Words
        BY <2>1, <2>3 DEF Words
      <4> QED BY <2>3, <4>1, OtherWord
    <3> QED BY <3>1, <3>2
  <2> QED BY <1>x, <2>0, <2>3, SameMeaning
<1>5. CASE e.tag = "Coalesce"
  <2>0. r = RenderCoalesce(e, rs)
    BY <1>5 DEF deparseExpr
  <2>1. r = Wrap("COALESCE", Each(rs))
    BY <1>d, <2>0 DEF RenderCoalesce
  <2>3. ASSUME NEW vs, t.kw = "COALESCE" PROVE PgValue(e, vs, env) = Db2Value(t, vs, env)
    <3>1. PgValue(e, vs, env) = FirstNonNull(vs)
      BY <1>0, <1>5 DEF PgValue, IsA
    <3>2. Db2Value(t, vs, env) = FirstNonNull(vs)
      BY <2>3 DEF Db2Value
    <3> QED BY <3>1, <3>2
  <2> QED BY <1>x, <2>1, <2>3, SameMeaning
<1> QED BY <1>1, <1>2, <1>3, <1>4, <1>5

\* Nodes with one operand: its test, or its value again.
LEMMA FirstMeant ==
  ASSUME NEW e, NEW env, NEW os, NEW rs, NEW t, Met(e, env, os, rs, t),
         e.tag \in {"Relabel", "CoerceToDomain", "NullTest"} \/ (e.tag = "Func" /\ e.form = "implicit"),
         rs[1].txt = t \/ rs[1].txt \in ToSet(t.parts)
  PROVE  \E vs : EvalPg(e, env) = PgValue(e, vs, env) /\ vs[1] = EvalDb2(rs[1].txt, env)
<1>1. Inputs(e) = os /\ os = Children(e) /\ EvalPg(e, env) = PgValue(e, [k \in DOMAIN os |-> EvalPg(os[k], env)], env)
  BY PlainInputs DEF IsA
<1>2. Operands(e) = e.args /\ e.args # <<>> /\ os = Operands(e) /\ os \in Seq(Expressions)
  BY OneOperand DEF Met
<1>3. 1 \in DOMAIN os
  BY <1>2
<1>4. EvalPg(os[1], env) = EvalDb2(rs[1].txt, env)
  BY <1>3 DEF Met
<1>5. [k \in DOMAIN os |-> EvalPg(os[k], env)][1] = EvalPg(os[1], env)
  BY <1>3
<1> QED BY <1>1, <1>4, <1>5

LEMMA PassedOnAgree ==
  ASSUME NEW e, NEW env, NEW os, NEW rs, NEW t, Met(e, env, os, rs, t), NEW relids, NEW r, r = deparseExpr(e, rs, relids), r.txt = t,
         e.tag \in {"Relabel", "CoerceToDomain", "NullTest"}
  PROVE  Agrees(e, env, t)
<1>0. e \in Expressions /\ e # NoExpr /\ t # Nothing /\ ~IsNothing(t)
  BY MetText
<1>1. CASE e.tag \in {"Relabel", "CoerceToDomain"}
  <2>1. r = rs[1]
    BY <1>1 DEF deparseExpr
  <2>2. PICK vs : EvalPg(e, env) = PgValue(e, vs, env) /\ vs[1] = EvalDb2(rs[1].txt, env)
    BY <1>1, <2>1, FirstMeant
  <2>3. PgValue(e, vs, env) = vs[1]
    BY <1>0, <1>1 DEF PgValue, IsA
  <2> QED BY <2>1, <2>2, <2>3 DEF Agrees
<1>2. CASE e.tag = "NullTest"
  <2>1. r = RenderNullTest(e, rs[1])
    BY <1>2 DEF deparseExpr
  <2>k. PICK kw, arg : kw = (IF e.isNull THEN "IS NULL" ELSE "IS NOT NULL") /\ arg = rs[1].txt
    OBVIOUS
  <2>2. t = Text(kw, <<arg>>)
    <3>1. r = [txt |-> Text(kw, <<arg>>), seen |-> rs[1].seen]
      BY <2>1, <2>k DEF RenderNullTest
    <3> QED BY <3>1
  <2>3. t.kw = kw /\ t.parts = <<arg>>
    BY <2>2 DEF Text
  <2>4. arg \in ToSet(t.parts)
    BY <2>3 DEF ToSet
  <2>5. PICK vs : EvalPg(e, env) = PgValue(e, vs, env) /\ vs[1] = EvalDb2(arg, env)
    BY <1>2, <2>4, <2>k, FirstMeant
  <2>w. PICK ws : ws = [k \in DOMAIN t.parts |-> EvalDb2(t.parts[k], env)]
    OBVIOUS
  <2>6. ws[1] = EvalDb2(arg, env) /\ EvalDb2(t, env) = Db2Value(t, ws, env)
    BY <2>3, <2>w DEF Met, Db2Meant
  <2>7. PgValue(e, vs, env) = Truth((vs[1] = Null) = e.isNull)
    BY <1>0, <1>2 DEF PgValue, IsA
  <2>8. e.isNull \in BOOLEAN
    BY <1>0, <1>2, ExpressionsAssumption DEF WellFormed, IsA
  <2>9. Db2Value(t, ws, env) = Truth((ws[1] = Null) = e.isNull)
    <3>1. CASE e.isNull = TRUE
      <4>1. t.kw = "IS NULL"
        BY <2>3, <2>k, <3>1
      <4>2. Db2Value(t, ws, env) = Truth(ws[1] = Null)
        BY <4>1 DEF Db2Value
      <4>3. ((ws[1] = Null) = e.isNull) = (ws[1] = Null)
        BY <3>1
      <4> QED BY <4>2, <4>3
    <3>2. CASE e.isNull = FALSE
      <4>1. t.kw = "IS NOT NULL"
        BY <2>3, <2>k, <3>2
      <4>2. Db2Value(t, ws, env) = Truth(ws[1] # Null)
        BY <4>1 DEF Db2Value
      <4>3. ((ws[1] = Null) = e.isNull) = (ws[1] # Null)
        BY <3>2
      <4> QED BY <4>2, <4>3
    <3> QED BY <2>8, <3>1, <3>2
  <2> QED BY <2>5, <2>6, <2>7, <2>9 DEF Agrees
<1> QED BY <1>1, <1>2

LEMMA FunctionsAgree ==
  ASSUME NEW e, NEW env, NEW os, NEW rs, NEW t, Met(e, env, os, rs, t), NEW relids, NEW r, r = deparseExpr(e, rs, relids), r.txt = t,
         IsA(e, "Func")
  PROVE  Agrees(e, env, t)
<1>0. e \in Expressions /\ e # NoExpr /\ t # Nothing /\ ~IsNothing(t) /\ e.tag = "Func"
  BY MetText DEF IsA
<1>x. ~IsA(e, "ScalarArray") /\ ~IsA(e, "Case")
  BY <1>0 DEF IsA
<1>r. r = RenderFunc(e, rs)
  BY <1>0 DEF deparseExpr
<1>1. /\ isTranslatableFuncExpr(e)
      /\ e.form = "implicit" => r = rs[1]
      /\ e.form # "implicit" /\ e.name = "translate" => r = RenderTranslate(rs)
      /\ e.form # "implicit" /\ e.name \in {"now", "transaction_timestamp"} => r = Rendered(Leaf(":now", e))
      /\ e.form # "implicit" /\ e.name \notin {"translate", "now", "transaction_timestamp"} =>
           r = Wrap(IF e.name = "date_part" THEN "EXTRACT" ELSE DB2Function(e.name), Each(rs))
  BY <1>0, <1>r, FuncText
<1>2. os = e.args /\ Len(os) \in Nat /\ DOMAIN os = 1 .. Len(os) /\ DOMAIN rs = 1 .. Len(os)
  <2>1. os = Children(e)
    BY <1>x, PlainInputs
  <2>2. Children(e) = e.args
    BY <1>0 DEF Children
  <2> QED BY <2>1, <2>2, MetLists
<1>v. PICK vs, ws : vs = [k \in DOMAIN os |-> EvalPg(os[k], env)] /\ ws = [k \in DOMAIN t.parts |-> EvalDb2(t.parts[k], env)]
  OBVIOUS
<1>3. EvalPg(e, env) = PgValue(e, vs, env) /\ EvalDb2(t, env) = Db2Value(t, ws, env)
  <2>1. EvalPg(e, env) = PgValue(e, vs, env)
    BY <1>v, <1>x, PlainInputs
  <2>2. EvalDb2(t, env) = Db2Value(t, ws, env)
    BY <1>v DEF Met, Db2Meant
  <2> QED BY <2>1, <2>2
<1>4. CASE e.form = "implicit"
  <2>1. r = rs[1]
    BY <1>1, <1>4
  <2>2. PICK us : EvalPg(e, env) = PgValue(e, us, env) /\ us[1] = EvalDb2(rs[1].txt, env)
    BY <1>0, <1>4, <2>1, FirstMeant
  <2>3. PgValue(e, us, env) = us[1]
    BY <1>0, <1>4 DEF PgValue, IsA
  <2> QED BY <2>1, <2>2, <2>3 DEF Agrees
<1>5. \A us : e.form # "implicit" => PgValue(e, us, env) = Applied(e.name, us)
  BY <1>0 DEF PgValue, IsA
<1>6. CASE e.form # "implicit" /\ e.name = "translate"
  <2>1. Len(os) = 3
    <3>1. ~isTranslatableNormalFunction("translate", Len(e.args)) /\ "translate" # "date_part" /\ "translate" \notin {"now", "transaction_timestamp"}
      BY DEF isTranslatableNormalFunction
    <3> QED BY <1>1, <1>2, <1>6, <3>1 DEF isTranslatableFuncExpr
  <2>a. PICK a, b, c : a = rs[1].txt /\ b = rs[2].txt /\ c = rs[3].txt
    OBVIOUS
  <2>2. t = Text("TRANSLATE", <<a, c, b>>)
    <3>e. PICK each : each = [ok    |-> \A i \in 1..3 : ~IsNothing(rs[i].txt),
                              parts |-> <<a, c, b>>,
                              seen  |-> rs[1].seen \o rs[2].seen \o rs[3].seen]
      OBVIOUS
    <3>1. r = Wrap("TRANSLATE", each)
      BY <1>1, <1>6, <2>a, <3>e DEF RenderTranslate
    <3>2. r.txt = IF each.ok THEN Text("TRANSLATE", each.parts) ELSE Nothing
      BY <3>1 DEF Wrap
    <3>3. each.parts = <<a, c, b>>
      BY <3>e
    <3> QED BY <1>0, <3>2, <3>3
  <2>3. t.kw = "TRANSLATE" /\ t.parts = <<a, c, b>>
    BY <2>2 DEF Text
  <2>4. a \in ToSet(t.parts) /\ b \in ToSet(t.parts) /\ c \in ToSet(t.parts)
    BY <2>3 DEF ToSet
  <2>5. vs = <<EvalDb2(a, env), EvalDb2(b, env), EvalDb2(c, env)>>
    <3>1. DOMAIN os = 1 .. 3
      BY <1>2, <2>1
    <3>2. EvalPg(os[1], env) = EvalDb2(a, env) /\ EvalPg(os[2], env) = EvalDb2(b, env) /\ EvalPg(os[3], env) = EvalDb2(c, env)
      BY <2>4, <2>a, <3>1 DEF Met
    <3>3. vs = [k \in 1 .. 3 |-> EvalPg(os[k], env)]
      BY <1>v, <3>1
    <3> QED BY <3>2, <3>3
  <2>6. ws[1] = EvalDb2(a, env) /\ ws[2] = EvalDb2(c, env) /\ ws[3] = EvalDb2(b, env)
    BY <1>v, <2>3
  <2>7. Db2Value(t, ws, env) = Applied("translate", <<ws[1], ws[3], ws[2]>>)
    BY <2>3 DEF Db2Value
  <2> QED BY <1>3, <1>5, <1>6, <2>5, <2>6, <2>7 DEF Agrees
<1>7. CASE e.form # "implicit" /\ e.name \in {"now", "transaction_timestamp"}
  <2>1. Len(os) = 0
    <3>1. ~isTranslatableNormalFunction(e.name, Len(e.args)) /\ e.name # "date_part" /\ e.name # "translate"
      BY <1>7 DEF isTranslatableNormalFunction
    <3> QED BY <1>1, <1>2, <1>7, <3>1 DEF isTranslatableFuncExpr
  <2>2. t = Leaf(":now", e)
    BY <1>1, <1>7 DEF Rendered
  <2>3. t.kw = ":now" /\ t.parts = <<>>
    BY <2>2 DEF Leaf
  <2>4. vs = ws
    <3>1. DOMAIN os = {} /\ DOMAIN t.parts = {}
      BY <1>2, <2>1, <2>3
    <3>2. DOMAIN vs = {} /\ DOMAIN ws = {}
      BY <1>v, <3>1
    <3> QED BY <1>v, <3>1, <3>2
  <2>5. t.kw \notin Words /\ t.kw \notin Named /\ e.name \notin Named
    BY <1>7, <2>3 DEF Words, Named
  <2>6. Db2Value(t, ws, env) = Strict(ws, Opaque(ws))
    BY <2>5, OtherWord, OtherApplied
  <2>7. PgValue(e, vs, env) = Strict(vs, Opaque(vs))
    BY <1>5, <1>7, <2>5, OtherApplied
  <2> QED BY <1>3, <2>4, <2>6, <2>7 DEF Agrees
<1>8. CASE e.form # "implicit" /\ e.name \notin {"translate", "now", "transaction_timestamp"}
  <2>w. PICK word : word = IF e.name = "date_part" THEN "EXTRACT" ELSE DB2Function(e.name)
    OBVIOUS
  <2>1. r = Wrap(word, Each(rs)) /\ SameWord(e.name, word)
    BY <1>1, <1>8, <2>w, FunctionsKept
  <2>2. ASSUME NEW us, t.kw = word PROVE PgValue(e, us, env) = Db2Value(t, us, env)
    <3>1. Db2Value(t, us, env) = Applied(word, us)
      BY <2>1, <2>2, OtherWord DEF SameWord
    <3> QED BY <1>5, <1>8, <2>1, <3>1 DEF SameWord
  <2> QED BY <1>x, <2>1, <2>2, SameMeaning
<1> QED BY <1>4, <1>6, <1>7, <1>8

\* The elements of a constant array, taken apart.
LEMMA ElementsMeant ==
  ASSUME NEW c \in Expressions, IsA(c, "Const"), NEW type, NEW ps, ps = ElementTexts(c, type), NEW env,
         \A k \in DOMAIN ps : Db2Meant(ps[k], env)
  PROVE  DOMAIN ps = DOMAIN c.val /\ \A k \in DOMAIN c.val : EvalDb2(ps[k], env) = Code[c.val[k]]
<1>1. c = Const(c.type, c.coll, c.null, c.val, c.builtin)
  BY ExpressionsAssumption DEF WellFormed
<1>2. DOMAIN ps = DOMAIN c.val
  BY DEF ElementTexts
<1>3. ASSUME NEW k \in DOMAIN c.val PROVE EvalDb2(ps[k], env) = Code[c.val[k]]
  <2>p. PICK x, n, node, kw, p : /\ x = c.val[k] /\ n = (x = "NULL") /\ node = [c EXCEPT !.type = type, !.null = n, !.val = <<x>>]
                                /\ kw = (IF n THEN "NULL" ELSE "lit") /\ p = ps[k]
    OBVIOUS
  <2>1. p = Leaf(kw, node)
    BY <2>p DEF ElementTexts
  <2>2. p.kw = kw /\ p.of = node /\ p.parts = <<>>
    BY <2>1 DEF Leaf
  <2>w. PICK ws : ws = [j \in DOMAIN p.parts |-> EvalDb2(p.parts[j], env)]
    OBVIOUS
  <2>3. EvalDb2(p, env) = Db2Value(p, ws, env)
    <3>1. Db2Meant(p, env)
      BY <1>2, <2>p
    <3> QED BY <2>w, <3>1 DEF Db2Meant
  <2>4. CASE x = "NULL"
    <3>1. kw = "NULL"
      BY <2>4, <2>p
    <3>2. Db2Value(p, ws, env) = Null
      BY <2>2, <3>1 DEF Db2Value
    <3>3. Code["NULL"] = Null
      BY DEF Code
    <3> QED BY <2>3, <2>4, <2>p, <3>2, <3>3
  <2>5. CASE x # "NULL"
    <3>1. kw = "lit"
      BY <2>5, <2>p
    <3>2. Db2Value(p, ws, env) = Code[node.val[1]]
      BY <2>2, <3>1 DEF Db2Value
    <3>3. node.val = <<x>>
      <4>s. PICK a, b, d, v, f : c = [tag |-> "Const", type |-> a, coll |-> b, null |-> d, val |-> v, builtin |-> f]
        BY <1>1 DEF Const
      <4>1. node = [c EXCEPT !.type = type, !.null = n, !.val = <<x>>]
        BY <2>p
      <4> QED BY ONLY <4>s, <4>1
    <3>4. node.val[1] = x
      BY <3>3
    <3> QED BY <2>3, <2>p, <3>2, <3>4
  <2> QED BY <2>4, <2>5
<1> QED BY <1>2, <1>3

\* What is asked about: the left side, and the elements.
LEMMA ScalarArrayInputs ==
  ASSUME NEW e, NEW env, NEW os, NEW rs, NEW t, Met(e, env, os, rs, t), IsA(e, "ScalarArray"),
         NEW last, last = Last(e.args), NEW elems, elems = Elements(last)
  PROVE  /\ os = <<e.args[1]>> \o elems /\ Inputs(e) = os /\ last \in Expressions /\ elems \in Seq(Expressions)
         /\ Len(elems) \in Nat /\ Len(os) = 1 + Len(elems) /\ os[1] = e.args[1] /\ \A k \in 1 .. Len(elems) : os[k + 1] = elems[k]
<1>1. e \in Expressions /\ os = Operands(e)
  BY DEF Met
<1>2. /\ e.args[1] \in Expressions /\ last \in Expressions /\ elems \in Seq(Expressions)
  BY <1>1, ArrayBelow DEF Less
<1>3. os = <<e.args[1]>> \o elems
  BY <1>1 DEF Operands, IsA
<1>4. Inputs(e) = <<e.args[1]>> \o elems
  BY DEF Inputs, IsA
<1>p. PICK first : first = <<e.args[1]>>
  OBVIOUS
<1>5. first \in Seq(Expressions) /\ Len(first) = 1 /\ first[1] = e.args[1]
  BY <1>2, <1>p
<1>6. /\ Len(elems) \in Nat /\ Len(first \o elems) = 1 + Len(elems)
      /\ (first \o elems)[1] = e.args[1] /\ \A k \in 1 .. Len(elems) : (first \o elems)[k + 1] = elems[k]
  <2>1. /\ Len(first) \in Nat /\ Len(elems) \in Nat /\ Len(first \o elems) = Len(first) + Len(elems)
        /\ \A i \in 1 .. Len(first) : (first \o elems)[i] = first[i]
        /\ \A k \in 1 .. Len(elems) : (first \o elems)[Len(first) + k] = elems[k]
    <3>1. first \in Seq(Expressions) /\ elems \in Seq(Expressions)
      BY <1>2, <1>5
    <3> QED BY ONLY <3>1, BothAt
  <2>2. \A k \in 1 .. Len(elems) : Len(first) + k = k + 1
    BY <1>5, <2>1
  <2> QED BY <1>5, <2>1, <2>2
<1> QED BY <1>2, <1>3, <1>4, <1>6, <1>p

LEMMA TailOf ==
  ASSUME NEW n \in Nat, NEW s, s = [k \in 1 .. n + 1 |-> s[k]]
  PROVE  Len(s) = n + 1 /\ Tail(s) = [k \in 1 .. n |-> s[k + 1]]
<1>v. PICK V : V = {s[k] : k \in 1 .. n + 1}
  OBVIOUS
<1>1. s \in [1 .. n + 1 -> V]
  BY <1>v
<1>2. s \in Seq(V) /\ Len(s) = n + 1
  BY <1>1
<1>3. Tail(s) = [k \in 1 .. Len(s) - 1 |-> s[k + 1]]
  BY <1>2
<1>4. Len(s) - 1 = n
  BY <1>2
<1> QED BY <1>2, <1>3, <1>4

LEMMA NullIsIn ==
  ASSUME NEW l, NEW elems, elems = [k \in 1 .. 1 |-> Null]
  PROVE  IsIn(l, elems) = Null /\ Not3(IsIn(l, elems)) = Null
<1>t. PICK tests : tests = [k \in DOMAIN elems |-> Applied("=", <<l, elems[k]>>)]
  OBVIOUS
<1>1. DOMAIN elems = 1 .. 1 /\ 1 \in 1 .. 1 /\ \A k \in 1 .. 1 : elems[k] = Null
  OBVIOUS
<1>2. \A k \in 1 .. 1 : Applied("=", <<l, elems[k]>>) = Null
  BY <1>1, Compared
<1>3. DOMAIN tests = 1 .. 1 /\ \A k \in 1 .. 1 : tests[k] = Null
  BY <1>1, <1>2, <1>t
<1>4. Null # 1
  BY DEF Null
<1>5. Strict(tests, 0) = Null
  BY <1>1, <1>3 DEF Strict
<1>6. Or3(tests) = Null
  BY <1>3, <1>4, <1>5 DEF Or3
<1> QED BY <1>6, <1>t DEF IsIn, Not3

\* The list that a text compares with, whatever it comes from.
ListParts(ps, n) == n \in Nat /\ ps = [k \in 1 .. n |-> ps[k]]
LEMMA ListLength ==
  ASSUME NEW e, NEW env, NEW os, NEW rs, NEW t, Met(e, env, os, rs, t), IsA(e, "ScalarArray"), NEW ps, NEW ss, ListText(e, rs, ps, ss)
  PROVE  \E n : ListParts(ps, n)
<1>l. PICK last : last = Last(e.args)
  OBVIOUS
<1>1. CASE ps = <<Leaf("NULL", last)>>
  <2>1. ps = [k \in 1 .. 1 |-> ps[k]]
    BY <1>1
  <2> QED BY <2>1 DEF ListParts
<1>2. CASE IsA(last, "Const") /\ ps = ElementTexts(last, e.left)
  <2>0. last \in Expressions
    BY <1>l, ScalarArrayInputs
  <2>1. IsList(last.val)
    BY <1>2, <2>0, ExpressionsAssumption DEF WellFormed
  <2>v. PICK val, n : val = last.val /\ n = Len(val)
    OBVIOUS
  <2>2. n \in Nat /\ DOMAIN val = 1 .. n
    BY <2>1, <2>v DEF IsList
  <2>3. DOMAIN ps = 1 .. n /\ ps = [k \in DOMAIN ps |-> ps[k]]
    BY <1>2, <2>2, <2>v DEF ElementTexts
  <2> QED BY <2>2, <2>3 DEF ListParts
<1>3. CASE Each(Tail(rs)).ok /\ ps = Each(Tail(rs)).parts
  <2>r. PICK rest : rest = Tail(rs)
    OBVIOUS
  <2>1. Len(rest) \in Nat
    <3>1. rs \in Seq(Renderings) /\ Len(rs) # 0
      <4>1. PICK elems : elems = Elements(last)
        OBVIOUS
      <4>2. Len(elems) \in Nat /\ Len(os) = 1 + Len(elems)
        BY <1>l, <4>1, ScalarArrayInputs
      <4>3. rs \in Seq(Renderings) /\ Len(rs) = Len(os)
        BY DEF Met
      <4> QED BY <4>2, <4>3
    <3>2. rs # <<>>
      BY <3>1
    <3> QED BY <2>r, <3>1, <3>2
  <2>2. ps = [i \in 1 .. Len(rest) |-> rest[i].txt]
    BY <1>3, <2>r DEF Each
  <2>3. ps = [i \in 1 .. Len(rest) |-> ps[i]]
    BY <2>2
  <2> QED BY <2>1, <2>3 DEF ListParts
<1> QED BY <1>1, <1>2, <1>3, <1>l DEF ListText

Behind(first, ps, n, parts, env, ws, list) ==
  /\ ListParts(ps, n) /\ parts = <<first>> \o ps
  /\ ws = [k \in DOMAIN parts |-> EvalDb2(parts[k], env)] /\ list = [k \in 1 .. n |-> EvalDb2(ps[k], env)]
LEMMA ListBehind ==
  ASSUME NEW first, NEW ps, NEW n, NEW parts, NEW env, NEW ws, NEW list, Behind(first, ps, n, parts, env, ws, list)
  PROVE  /\ DOMAIN parts = 1 .. n + 1 /\ parts[1] = first /\ \A k \in 1 .. n : parts[k + 1] = ps[k]
         /\ ws[1] = EvalDb2(first, env) /\ Tail(ws) = list
<1>p. PICK head, T : head = <<first>> /\ T = {first} \cup {ps[k] : k \in 1 .. n}
  OBVIOUS
<1>1. n \in Nat /\ ps \in [1 .. n -> T]
  BY <1>p DEF Behind, ListParts
<1>2. ps \in Seq(T) /\ Len(ps) = n
  BY <1>1
<1>3. head \in Seq(T) /\ Len(head) = 1 /\ head[1] = first
  BY <1>p
<1>4. /\ DOMAIN (head \o ps) = 1 .. (Len(head) + Len(ps))
      /\ \A i \in 1 .. Len(head) : (head \o ps)[i] = head[i]
      /\ \A k \in 1 .. Len(ps) : (head \o ps)[Len(head) + k] = ps[k]
  <2>1. head \in Seq(T) /\ ps \in Seq(T)
    BY <1>2, <1>3
  <2> QED BY ONLY <2>1, BothAt
<1>5. parts = head \o ps
  BY <1>p DEF Behind
<1>6. DOMAIN parts = 1 .. n + 1 /\ parts[1] = first
  BY <1>1, <1>2, <1>3, <1>4, <1>5
<1>7. ASSUME NEW k \in 1 .. n PROVE parts[k + 1] = ps[k] /\ k + 1 \in 1 .. n + 1
  <2>1. k \in 1 .. Len(ps) /\ Len(head) + k = k + 1
    BY <1>1, <1>2, <1>3
  <2>2. k + 1 \in 1 .. n + 1
    BY <1>1
  <2> QED BY <1>4, <1>5, <2>1, <2>2
<1>8. ws = [k \in 1 .. n + 1 |-> EvalDb2(parts[k], env)]
  BY <1>6 DEF Behind
<1>9. Tail(ws) = [k \in 1 .. n |-> ws[k + 1]]
  <2>1. ws = [k \in 1 .. n + 1 |-> ws[k]]
    BY <1>8
  <2> QED BY <1>1, <2>1, TailOf
<1>10. \A k \in 1 .. n : ws[k + 1] = EvalDb2(ps[k], env)
  BY <1>7, <1>8
<1>11. 1 \in 1 .. n + 1
  BY <1>1
<1>12. Tail(ws) = list
  BY <1>9, <1>10 DEF Behind
<1>13. ws[1] = EvalDb2(first, env)
  BY <1>6, <1>8, <1>11
<1> QED BY <1>6, <1>7, <1>12, <1>13

\* The elements of the list have the same values on both sides.
Alike(last, vs, list) == Members(last) \o Tail(vs) = list
LEMMA SameElements ==
  ASSUME NEW e, NEW env, NEW os, NEW rs, NEW t, Met(e, env, os, rs, t), IsA(e, "ScalarArray"), NEW last, last = Last(e.args),
         ~(IsA(last, "Const") /\ last.null), NEW ps, NEW ss, ListText(e, rs, ps, ss), NEW n, ListParts(ps, n),
         \A k \in 1 .. n : Db2Meant(ps[k], env) /\ ps[k] \in ToSet(t.parts),
         NEW vs, vs = [k \in DOMAIN os |-> EvalPg(os[k], env)], NEW list, list = [k \in 1 .. n |-> EvalDb2(ps[k], env)]
  PROVE  Alike(last, vs, list)
<1>e. PICK elems, m : elems = Elements(last) /\ m = Len(elems)
  OBVIOUS
<1>1. last \in Expressions /\ m \in Nat /\ Len(os) = 1 + m
  <2>1. elems = Elements(last)
    BY <1>e
  <2>2. last \in Expressions /\ Len(elems) \in Nat /\ Len(os) = 1 + Len(elems)
    BY <2>1, ScalarArrayInputs
  <2> QED BY <1>e, <2>2
<1>2. DOMAIN os = 1 .. m + 1 /\ DOMAIN rs = 1 .. m + 1
  <2>1. Len(os) = m + 1
    BY <1>1
  <2> QED BY <2>1, MetLists
<1>3. Tail(vs) = [k \in 1 .. m |-> EvalPg(os[k + 1], env)]
  <2>1. vs = [k \in 1 .. m + 1 |-> vs[k]]
    BY <1>2, <1>e
  <2>2. Tail(vs) = [k \in 1 .. m |-> vs[k + 1]]
    BY <1>1, <2>1, TailOf
  <2>3. \A k \in 1 .. m : vs[k + 1] = EvalPg(os[k + 1], env)
    <3>1. \A k \in 1 .. m : k + 1 \in 1 .. m + 1
      BY <1>1
    <3> QED BY <1>2, <1>e, <3>1
  <2> QED BY <2>2, <2>3
<1>n. n \in Nat /\ ps = [k \in 1 .. n |-> ps[k]] /\ DOMAIN ps = 1 .. n
  <2>1. n \in Nat /\ ps = [k \in 1 .. n |-> ps[k]]
    BY DEF ListParts
  <2> QED BY <2>1
<1>4. CASE IsA(last, "Const") /\ ~last.null /\ ps = ElementTexts(last, e.left)
  <2>1. DOMAIN ps = DOMAIN last.val /\ \A k \in DOMAIN last.val : EvalDb2(ps[k], env) = Code[last.val[k]]
    <3>1. \A k \in DOMAIN ps : Db2Meant(ps[k], env)
      BY <1>n
    <3>t. PICK type : type = e.left
      OBVIOUS
    <3>2. IsA(last, "Const") /\ ps = ElementTexts(last, type)
      BY <1>4, <3>t
    <3>3. last \in Expressions
      BY <1>1
    <3> QED BY ONLY <3>1, <3>2, <3>3, ElementsMeant
  <2>m. PICK members, T : members = Members(last) /\ T = {EvalDb2(ps[k], env) : k \in 1 .. n}
    OBVIOUS
  <2>2. members = [k \in 1 .. n |-> EvalDb2(ps[k], env)]
    BY <1>4, <1>n, <2>1, <2>m DEF Members
  <2>3. members \in Seq(T)
    <3>1. members \in [1 .. n -> T]
      BY <2>2, <2>m
    <3> QED BY <1>n, <3>1
  <2>4. elems = <<>>
    <3>1. ~IsA(ArrayOf(last), "Array")
      BY <1>4 DEF ArrayOf, IsA
    <3> QED BY <1>e, <3>1 DEF Elements
  <2>5. Tail(vs) = <<>>
    <3>1. m = 0
      BY <1>e, <2>4
    <3> QED BY <1>3, <3>1
  <2>6. members \o <<>> = members
    BY <2>3
  <2> QED BY <2>2, <2>5, <2>6, <2>m DEF Alike
<1>5. CASE IsA(ArrayOf(last), "Array") /\ Each(Tail(rs)).ok /\ ps = Each(Tail(rs)).parts
  <2>r. PICK rest : rest = Tail(rs)
    OBVIOUS
  <2>1. rest = [k \in 1 .. m |-> rs[k + 1]] /\ Len(rest) = m
    <3>1. rs \in Seq(Renderings) /\ Len(rs) = m + 1
      BY <1>1 DEF Met
    <3>2. rs = [k \in 1 .. m + 1 |-> rs[k]]
      BY <3>1
    <3>3. rest = [k \in 1 .. m |-> rs[k + 1]]
      BY <1>1, <2>r, <3>2, TailOf
    <3>4. rest \in [1 .. m -> {rs[k + 1] : k \in 1 .. m}]
      BY <3>3
    <3> QED BY <1>1, <3>3, <3>4
  <2>2. ps = [i \in 1 .. m |-> rest[i].txt]
    BY <1>5, <2>1, <2>r DEF Each
  <2>3. m = n
    BY <1>1, <1>n, <2>2
  <2>4. ASSUME NEW k \in 1 .. n PROVE EvalPg(os[k + 1], env) = EvalDb2(ps[k], env)
    <3>1. ps[k] = rs[k + 1].txt
      BY <2>1, <2>2, <2>3
    <3>2. k + 1 \in DOMAIN os
      BY <1>1, <1>2, <2>3
    <3>3. rs[k + 1].txt \in ToSet(t.parts)
      BY <3>1
    <3> QED BY <3>1, <3>2, <3>3 DEF Met
  <2>5. Members(last) = <<>>
    <3>1. ~IsA(last, "Const")
      BY <1>5 DEF ArrayOf, IsA
    <3> QED BY <3>1 DEF Members
  <2>6. Tail(vs) = [k \in 1 .. n |-> EvalDb2(ps[k], env)]
    BY <1>3, <2>3, <2>4
  <2>7. <<>> \o Tail(vs) = Tail(vs)
    <3>t. PICK tl, T : tl = Tail(vs) /\ T = {EvalDb2(ps[k], env) : k \in 1 .. n}
      OBVIOUS
    <3>1. tl \in [1 .. n -> T]
      BY <2>6, <3>t
    <3>2. tl \in Seq(T)
      BY <1>n, <3>1
    <3>3. <<>> \o tl = tl
      BY <3>2
    <3> QED BY <3>3, <3>t
  <2> QED BY <2>5, <2>6, <2>7 DEF Alike
<1> QED BY <1>4, <1>5 DEF ListText, Alike

LEMMA ListsAgree ==
  ASSUME NEW e, NEW env, NEW os, NEW rs, NEW t, Met(e, env, os, rs, t), NEW relids, NEW r, r = deparseExpr(e, rs, relids), r.txt = t,
         IsA(e, "ScalarArray")
  PROVE  Agrees(e, env, t)
<1>0. e \in Expressions /\ e # NoExpr /\ t # Nothing /\ ~IsNothing(t) /\ e.tag = "ScalarArray"
  BY MetText DEF IsA
<1>a. Met(e, env, os, rs, t) /\ IsA(e, "ScalarArray")
  OBVIOUS
<1>1. r = RenderScalarArray(e, rs)
  BY <1>0 DEF deparseExpr
<1>2. PICK kw, ps, ss : InText(e, rs, r, kw, ps, ss)
  BY <1>0, <1>1, ScalarArrayText
<1>p. PICK first, l, last : first = rs[1].txt /\ l = EvalDb2(first, env) /\ last = Last(e.args)
  OBVIOUS
<1>3. /\ (kw = "IN" /\ e.name = "=" /\ e.useOr = TRUE) \/ (kw = "NOT IN" /\ e.name = "<>" /\ e.useOr = FALSE)
      /\ ListText(e, rs, ps, ss) /\ t = Text(kw, <<first>> \o ps)
  BY <1>2, <1>p DEF InText
<1>t. PICK parts : parts = <<first>> \o ps
  OBVIOUS
<1>4. t.kw = kw /\ t.parts = parts
  <2>1. t = Text(kw, parts)
    BY <1>3, <1>t
  <2> QED BY <2>1 DEF Text
<1>n. PICK n : ListParts(ps, n)
  BY <1>0, <1>3, ListLength DEF IsA
<1>w. PICK vs, ws, list : /\ vs = [k \in DOMAIN os |-> EvalPg(os[k], env)]
                          /\ ws = [k \in DOMAIN t.parts |-> EvalDb2(t.parts[k], env)]
                          /\ list = [k \in 1 .. n |-> EvalDb2(ps[k], env)]
  OBVIOUS
<1>5. /\ DOMAIN t.parts = 1 .. n + 1 /\ t.parts[1] = first /\ \A k \in 1 .. n : t.parts[k + 1] = ps[k]
      /\ ws[1] = l /\ Tail(ws) = list
  <2>1. ws = [k \in DOMAIN parts |-> EvalDb2(parts[k], env)] /\ list = [k \in 1 .. n |-> EvalDb2(ps[k], env)]
    BY <1>4, <1>w
  <2>2. Behind(first, ps, n, parts, env, ws, list)
    BY ONLY <1>n, <1>t, <2>1 DEF Behind
  <2>3. /\ DOMAIN parts = 1 .. n + 1 /\ parts[1] = first /\ \A k \in 1 .. n : parts[k + 1] = ps[k]
        /\ ws[1] = EvalDb2(first, env) /\ Tail(ws) = list
    BY ONLY <2>2, ListBehind
  <2> QED BY <1>4, <1>p, <2>3
<1>6. n \in Nat /\ 1 \in 1 .. n + 1 /\ \A k \in 1 .. n : k + 1 \in 1 .. n + 1
  BY <1>n DEF ListParts
<1>7. first \in ToSet(t.parts) /\ \A k \in 1 .. n : Db2Meant(ps[k], env) /\ ps[k] \in ToSet(t.parts)
  <2>1. first \in ToSet(t.parts)
    BY <1>5, <1>6 DEF ToSet
  <2>2. \A k \in 1 .. n : k + 1 \in DOMAIN t.parts /\ t.parts[k + 1] = ps[k]
    BY <1>5, <1>6
  <2>3. \A k \in DOMAIN t.parts : Db2Meant(t.parts[k], env) /\ t.parts[k] \in ToSet(t.parts)
    BY DEF Met, ToSet
  <2>4. ASSUME NEW k \in 1 .. n PROVE Db2Meant(ps[k], env) /\ ps[k] \in ToSet(t.parts)
    BY <2>2, <2>3
  <2> QED BY <2>1, <2>4
<1>8. 1 \in DOMAIN os /\ Inputs(e) = os
  <2>e. PICK elems : elems = Elements(last)
    OBVIOUS
  <2>1. Inputs(e) = os /\ Len(elems) \in Nat /\ Len(os) = 1 + Len(elems)
    <3>1. last = Last(e.args)
      BY <1>p
    <3> QED BY ONLY <1>a, <2>e, <3>1, ScalarArrayInputs
  <2> QED BY <2>1, MetLists
<1>9. vs[1] = l
  BY <1>7, <1>8, <1>p, <1>w DEF Met
<1>10. EvalPg(e, env) = PgValue(e, vs, env) /\ EvalDb2(t, env) = Db2Value(t, ws, env)
  BY <1>8, <1>w DEF Met, PgMeant, Db2Meant
<1>11. PgValue(e, vs, env) = IF IsA(last, "Const") /\ last.null THEN Null ELSE Quantified(e, l, Members(last) \o Tail(vs))
  BY <1>0, <1>9, <1>p DEF PgValue, IsA
<1>12. Db2Value(t, ws, env) = IF kw = "IN" THEN IsIn(l, list) ELSE Not3(IsIn(l, list))
  <2>1. CASE kw = "IN"
    BY <1>4, <1>5, <2>1 DEF Db2Value
  <2>2. CASE kw = "NOT IN"
    BY <1>4, <1>5, <2>2 DEF Db2Value
  <2> QED BY <1>3, <2>1, <2>2
<1>13. CASE IsA(last, "Const") /\ last.null
  <2>1. ps = <<Leaf("NULL", last)>>
    BY <1>3, <1>13, <1>p DEF ListText, ArrayOf, IsA
  <2>2. n = 1 /\ ps[1] = Leaf("NULL", last)
    <3>1. n \in Nat /\ DOMAIN ps = 1 .. n
      BY <1>n DEF ListParts
    <3>2. DOMAIN ps = 1 .. 1
      BY <2>1
    <3> QED BY <2>1, <3>1, <3>2
  <2>p. PICK p, us : p = ps[1] /\ us = [j \in DOMAIN p.parts |-> EvalDb2(p.parts[j], env)]
    OBVIOUS
  <2>3. EvalDb2(p, env) = Null
    <3>1. p.kw = "NULL"
      BY <2>2, <2>p DEF Leaf
    <3>2. EvalDb2(p, env) = Db2Value(p, us, env)
      BY <1>7, <2>2, <2>p DEF Db2Meant
    <3>3. Db2Value(p, us, env) = Null
      BY <3>1 DEF Db2Value
    <3> QED BY <3>2, <3>3
  <2>4. list = [k \in 1 .. 1 |-> Null]
    <3>1. \A k \in 1 .. 1 : k = 1
      OBVIOUS
    <3> QED BY <1>w, <2>2, <2>3, <2>p, <3>1
  <2>5. IsIn(l, list) = Null /\ Not3(IsIn(l, list)) = Null
    BY <2>4, NullIsIn
  <2> QED BY <1>10, <1>11, <1>12, <1>13, <2>5 DEF Agrees
<1>14. CASE ~(IsA(last, "Const") /\ last.null)
  <2>1. Members(last) \o Tail(vs) = list
    <3>1. last = Last(e.args)
      BY <1>p
    <3>2. Alike(last, vs, list)
      <4>1. ListText(e, rs, ps, ss) /\ ~(IsA(last, "Const") /\ last.null) /\ \A k \in 1 .. n : Db2Meant(ps[k], env) /\ ps[k] \in ToSet(t.parts)
        BY <1>3, <1>7, <1>14
      <4>2. vs = [k \in DOMAIN os |-> EvalPg(os[k], env)] /\ list = [k \in 1 .. n |-> EvalDb2(ps[k], env)]
        BY <1>w
      <4> QED BY ONLY <1>a, <1>n, <3>1, <4>1, <4>2, SameElements
    <3> QED BY <3>2 DEF Alike
  <2>2. Quantified(e, l, list) = IF e.useOr THEN IsIn(l, list) ELSE Not3(IsIn(l, list))
    BY <1>3, ListMeant
  <2> QED BY <1>3, <1>10, <1>11, <1>12, <1>14, <2>1, <2>2 DEF Agrees
<1> QED BY <1>13, <1>14

\* Without an argument the first condition that is true chooses.
FirstTrue(us) ==
  IF \E k \in DOMAIN us : k % 2 = 1 /\ k < Len(us) /\ us[k] = 1
    THEN us[1 + Min({k \in DOMAIN us : k % 2 = 1 /\ k < Len(us) /\ us[k] = 1})] ELSE Last(us)
LEMMA PgChooses ==
  ASSUME NEW e, e # NoExpr, e.tag = "Case", e.arg = NoExpr, NEW vs, NEW env
  PROVE  PgValue(e, vs, env) = FirstTrue(Tail(vs))
BY DEF PgValue, IsA, Chosen, FirstTrue

LEMMA Db2Chooses ==
  ASSUME NEW t, t.kw = "CASE", NEW ws, NEW env
  PROVE  Db2Value(t, ws, env) = FirstTrue(IF Len(ws) % 2 = 1 THEN ws ELSE Append(ws, Null))
BY DEF Db2Value, Chosen, FirstTrue

LEMMA PairsAreEven ==
  ASSUME NEW m \in Nat
  PROVE  2 * m \in Nat /\ (2 * m) % 2 = 0 /\ (2 * m + 1) % 2 = 1
OBVIOUS

\* A list with one behind it, and with one before it as well.
LEMMA LastOne ==
  ASSUME NEW S, NEW all \in Seq(S), NEW x, NEW n, n = Len(all), NEW both, both = all \o <<x>>
  PROVE  n \in Nat /\ DOMAIN both = 1 .. n + 1 /\ both[n + 1] = x /\ \A k \in 1 .. n : both[k] = all[k]
<1>p. PICK T, last : T = S \cup {x} /\ last = <<x>>
  OBVIOUS
<1>1. all \in Seq(T) /\ last \in Seq(T) /\ n \in Nat /\ Len(last) = 1 /\ last[1] = x
  BY <1>p
<1>2. all \in Seq(T) /\ last \in Seq(T)
  BY <1>1
<1>3. /\ DOMAIN (all \o last) = 1 .. (Len(all) + Len(last))
      /\ \A i \in 1 .. Len(all) : (all \o last)[i] = all[i]
      /\ \A k \in 1 .. Len(last) : (all \o last)[Len(all) + k] = last[k]
  BY ONLY <1>2, BothAt
<1>4. both = all \o last
  BY <1>p
<1>5. 1 \in 1 .. Len(last) /\ Len(all) + 1 = n + 1 /\ Len(all) + Len(last) = n + 1
  BY <1>1
<1> QED BY <1>1, <1>3, <1>4, <1>5

LEMMA Around ==
  ASSUME NEW S, NEW all \in Seq(S), NEW x, NEW y, NEW n, n = Len(all), NEW both, both = <<y>> \o all \o <<x>>
  PROVE  n \in Nat /\ DOMAIN both = 1 .. n + 2 /\ both[n + 2] = x /\ \A k \in 1 .. n : both[k + 1] = all[k]
<1>p. PICK T, first, front : T = S \cup {y} /\ first = <<y>> /\ front = <<y>> \o all
  OBVIOUS
<1>1. all \in Seq(T) /\ first \in Seq(T) /\ n \in Nat /\ Len(first) = 1
  BY <1>p
<1>2. first \in Seq(T) /\ all \in Seq(T)
  BY <1>1
<1>3. /\ DOMAIN (first \o all) = 1 .. (Len(first) + Len(all)) /\ Len(first \o all) = Len(first) + Len(all)
      /\ \A k \in 1 .. Len(all) : (first \o all)[Len(first) + k] = all[k]
  BY ONLY <1>2, BothAt
<1>4. front = first \o all
  BY <1>p
<1>5. front \in Seq(T)
  BY <1>2, <1>4
<1>m. PICK m : m = Len(front)
  OBVIOUS
<1>6. m = n + 1
  BY <1>1, <1>3, <1>4, <1>m
<1>7. both = front \o <<x>>
  BY <1>p
<1>8. DOMAIN both = 1 .. m + 1 /\ both[m + 1] = x /\ \A k \in 1 .. m : both[k] = front[k]
  BY ONLY <1>5, <1>7, <1>m, LastOne
<1>9. ASSUME NEW k \in 1 .. n PROVE both[k + 1] = all[k]
  <2>1. k + 1 \in 1 .. m /\ Len(first) + k = k + 1 /\ k \in 1 .. Len(all)
    BY <1>1, <1>6
  <2>2. front[k + 1] = all[k]
    BY <1>3, <1>4, <2>1
  <2> QED BY <1>8, <2>1, <2>2
<1>10. m + 1 = n + 2
  BY <1>1, <1>6
<1> QED BY <1>1, <1>8, <1>9, <1>10

LEMMA AppendOne ==
  ASSUME NEW n \in Nat, NEW s, s = [k \in 1 .. n |-> s[k]], NEW x
  PROVE  Len(s) = n /\ DOMAIN Append(s, x) = 1 .. n + 1 /\ Append(s, x) = [k \in 1 .. n + 1 |-> IF k <= n THEN s[k] ELSE x]
<1>t. PICK T : T = {s[k] : k \in 1 .. n} \cup {x}
  OBVIOUS
<1>1. s \in [1 .. n -> T]
  BY <1>t
<1>2. s \in Seq(T) /\ Len(s) = n /\ x \in T
  BY <1>1, <1>t
<1> QED BY <1>2

LEMMA CasesAgree ==
  ASSUME NEW e, NEW env, NEW os, NEW rs, NEW t, Met(e, env, os, rs, t), NEW relids, NEW r, r = deparseExpr(e, rs, relids), r.txt = t,
         IsA(e, "Case")
  PROVE  Agrees(e, env, t)
<1>0. e \in Expressions /\ e # NoExpr /\ t # Nothing /\ ~IsNothing(t) /\ e.tag = "Case"
  BY MetText DEF IsA
<1>a. e.arg = NoExpr /\ os = Operands(e) /\ EvalPg(NoExpr, env) = Null
  BY DEF Met
<1>1. r = Wrap("CASE", Each(rs))
  <2>1. r = RenderCase(e, rs)
    BY <1>0 DEF deparseExpr
  <2>2. r # Declined(<<>>)
    BY <1>0, DeclinedIsNothing
  <2> QED BY <1>a, <2>1, <2>2 DEF RenderCase
<1>p. PICK all, d, m, n : all = Concat(e.whens) /\ d = e.default /\ m = Len(e.whens) /\ n = Len(all)
  OBVIOUS
<1>i. PICK is, vs, ws : /\ is = Inputs(e) /\ vs = [k \in DOMAIN is |-> EvalPg(is[k], env)]
                        /\ ws = [k \in DOMAIN t.parts |-> EvalDb2(t.parts[k], env)]
  OBVIOUS
<1>2. CaseParts(e, all)
  BY <1>0, <1>a, <1>p, CaseBelow DEF IsA
<1>3. all \in Seq(Expressions) /\ m \in Nat /\ n = 2 * m /\ os = all \o Present(d) /\ is = <<NoExpr>> \o all \o <<d>>
  BY <1>2, <1>a, <1>p, <1>i DEF CaseParts
<1>4. /\ n \in Nat /\ DOMAIN is = 1 .. n + 2 /\ is[n + 2] = d /\ \A k \in 1 .. n : is[k + 1] = all[k]
  <2>1. all \in Seq(Expressions) /\ n = Len(all) /\ is = <<NoExpr>> \o all \o <<d>>
    BY <1>3, <1>p
  <2> QED BY ONLY <2>1, Around
<1>5. t.kw = "CASE" /\ ws = [k \in DOMAIN os |-> EvalPg(os[k], env)]
  BY <1>1, <1>i, EachMeant
<1>6. EvalPg(e, env) = PgValue(e, vs, env) /\ EvalDb2(t, env) = Db2Value(t, ws, env)
  BY <1>i DEF Met, PgMeant, Db2Meant
<1>7. PgValue(e, vs, env) = FirstTrue(Tail(vs))
  BY <1>0, <1>a, PgChooses
<1>8. Db2Value(t, ws, env) = FirstTrue(IF Len(ws) % 2 = 1 THEN ws ELSE Append(ws, Null))
  BY <1>5, Db2Chooses
<1>f. PICK full : full = [k \in 1 .. n + 1 |-> IF k <= n THEN EvalPg(all[k], env) ELSE EvalPg(d, env)]
  OBVIOUS
<1>9. Tail(vs) = full
  <2>1. n + 1 \in Nat /\ (n + 1) + 1 = n + 2
    BY <1>4
  <2>2. vs = [k \in 1 .. (n + 1) + 1 |-> vs[k]]
    BY <1>4, <1>i, <2>1
  <2>n. PICK u : u = n + 1
    OBVIOUS
  <2>3. Tail(vs) = [k \in 1 .. u |-> vs[k + 1]]
    BY <2>1, <2>2, <2>n, TailOf
  <2>4. ASSUME NEW k \in 1 .. n + 1 PROVE vs[k + 1] = full[k]
    <3>1. k + 1 \in 1 .. n + 2
      BY <1>4
    <3>2. vs[k + 1] = EvalPg(is[k + 1], env)
      BY <1>4, <1>i, <3>1
    <3>3. CASE k <= n
      <4>1. k \in 1 .. n
        BY <1>4, <3>3
      <4> QED BY <1>4, <1>f, <3>2, <3>3, <4>1
    <3>4. CASE ~(k <= n)
      <4>1. k + 1 = n + 2
        BY <1>4, <3>4
      <4> QED BY <1>4, <1>f, <3>2, <3>4, <4>1
    <3> QED BY <3>3, <3>4
  <2> QED BY <1>f, <2>3, <2>4, <2>n
<1>10. n % 2 = 0 /\ (n + 1) % 2 = 1
  BY <1>3, PairsAreEven
<1>11. CASE d = NoExpr
  <2>1. os = all
    <3>1. Present(d) = <<>>
      BY <1>11 DEF Present
    <3> QED BY <1>3, <3>1
  <2>2. ws = [k \in 1 .. n |-> EvalPg(all[k], env)]
    <3>1. DOMAIN all = 1 .. n
      BY <1>3, <1>p
    <3> QED BY <1>5, <2>1, <3>1
  <2>3. ws = [k \in 1 .. n |-> ws[k]]
    BY <2>2
  <2>4. Len(ws) = n /\ Append(ws, Null) = [k \in 1 .. n + 1 |-> IF k <= n THEN ws[k] ELSE Null]
    BY <1>4, <2>3, AppendOne
  <2>5. Append(ws, Null) = full
    <3>1. \A k \in 1 .. n + 1 : k <= n => ws[k] = EvalPg(all[k], env)
      BY <1>4, <2>2
    <3>2. EvalPg(d, env) = Null
      BY <1>a, <1>11
    <3> QED BY <1>f, <2>4, <3>1, <3>2
  <2>6. (IF Len(ws) % 2 = 1 THEN ws ELSE Append(ws, Null)) = full
    <3>1. ~(Len(ws) % 2 = 1)
      BY <1>10, <2>4
    <3> QED BY <2>5, <3>1
  <2>7. EvalDb2(t, env) = FirstTrue(full)
    BY <1>6, <1>8, <2>6
  <2> QED BY <1>6, <1>7, <1>9, <2>7 DEF Agrees
<1>12. CASE d # NoExpr
  <2>1. os = all \o <<d>>
    <3>1. Present(d) = <<d>>
      BY <1>12 DEF Present
    <3> QED BY <1>3, <3>1
  <2>2. DOMAIN os = 1 .. n + 1 /\ os[n + 1] = d /\ \A k \in 1 .. n : os[k] = all[k]
    <3>1. all \in Seq(Expressions) /\ n = Len(all)
      BY <1>3, <1>p
    <3> QED BY ONLY <2>1, <3>1, LastOne
  <2>3. ws = full
    <3>1. ASSUME NEW k \in 1 .. n + 1 PROVE EvalPg(os[k], env) = full[k]
      <4>1. CASE k <= n
        <5>1. k \in 1 .. n
          BY <1>4, <4>1
        <5> QED BY <1>f, <2>2, <4>1, <5>1
      <4>2. CASE ~(k <= n)
        <5>1. k = n + 1
          BY <1>4, <4>2
        <5> QED BY <1>f, <2>2, <4>2, <5>1
      <4> QED BY <4>1, <4>2
    <3> QED BY <1>5, <1>f, <2>2, <3>1
  <2>4. Len(ws) = n + 1
    <3>1. ws = [k \in 1 .. n + 1 |-> ws[k]]
      BY <1>f, <2>3
    <3> QED BY <1>4, <3>1, TailOf
  <2> QED BY <1>6, <1>7, <1>8, <1>9, <1>10, <2>3, <2>4 DEF Agrees
<1> QED BY <1>11, <1>12

LEMMA ArmAgrees ==
  ASSUME NEW e, NEW env, NEW os, NEW rs, NEW t, Met(e, env, os, rs, t), NEW relids, NEW r, r = deparseExpr(e, rs, relids), r.txt = t
  PROVE  Agrees(e, env, t)
<1>0. ~IsNothing(t) /\ e.tag \notin {"Aggref", "CoerceViaIO", "SQLValue"}
  BY DEF Met
<1>1. e.tag \in Translated
  <2>1. SUFFICES ASSUME e.tag \notin Translated PROVE FALSE
    OBVIOUS
  <2>2. r = Rendered(Nothing)
    BY <2>1 DEF deparseExpr, Translated
  <2> QED BY <1>0, <2>2, DeclinedIsNothing
<1>2. CASE e.tag \in {"Const", "Param", "Var"}
  BY <1>2, LeavesAgree
<1>3. CASE e.tag \in {"Op", "Distinct", "NullIf", "Bool", "Coalesce"}
  BY <1>3, OperatorsAgree
<1>4. CASE e.tag \in {"Relabel", "CoerceToDomain", "NullTest"}
  BY <1>4, PassedOnAgree
<1>5. CASE IsA(e, "ScalarArray") \/ IsA(e, "Case") \/ IsA(e, "Func")
  BY <1>5, ListsAgree, CasesAgree, FunctionsAgree
<1> QED BY <1>0, <1>1, <1>2, <1>3, <1>4, <1>5 DEF Translated, IsA


(***************************************************************************)
(* By induction on the expression: the values of a condition's parts agree, *)
(* so those of the condition do.                                           *)
(***************************************************************************)
Under(d, e, relids) ==
  /\ d \in Expressions /\ ToSet(Nodes(d)) \subseteq ToSet(Nodes(e))
  /\ ToSet(Flat(Render(d, relids).txt)) \subseteq ToSet(Flat(Render(e, relids).txt))
Evaluated(e, relids, env) ==
  /\ e \in Expressions /\ relids \in SUBSET Bases /\ EvalPg(NoExpr, env) = Null
  /\ \A n \in ToSet(Nodes(e)) : /\ PgMeant(n, env) /\ n.tag \notin {"Aggref", "CoerceViaIO", "SQLValue"}
                                /\ IsA(n, "Var") => n.attno > 0
  /\ \A t \in ToSet(Flat(Render(e, relids).txt)) : ~IsNothing(t) /\ Db2Meant(t, env)

LEMMA Evaluates ==
  ASSUME NEW e \in Expressions, NEW relids \in SUBSET Bases, RowValued(e), ~HasHole(Render(e, relids).txt), NEW env \in Envs(e)
  PROVE  Evaluated(e, relids, env)
<1>1. /\ \A n \in ToSet(Nodes(e)) \cup {NoExpr} : PgMeant(n, env)
      /\ \A t \in ToSet(Flat(Render(e, relids).txt)) : Db2Meant(t, env)
  BY EvalAssumption DEF PgMeant, Db2Meant
<1>2. EvalPg(NoExpr, env) = Null
  <2>1. PgMeant(NoExpr, env)
    BY <1>1
  <2>2. \A vs : PgValue(NoExpr, vs, env) = Null
    <3>1. NoExpr.tag = "NULL"
      BY DEF NoExpr
    <3> QED BY <3>1 DEF PgValue, IsA
  <2> QED BY <2>1, <2>2 DEF PgMeant
<1>3. \A t \in ToSet(Flat(Render(e, relids).txt)) : ~IsNothing(t)
  BY DEF HasHole, ToSet
<1>4. ASSUME NEW n \in ToSet(Nodes(e))
      PROVE  n.tag \notin {"Aggref", "CoerceViaIO", "SQLValue"} /\ (IsA(n, "Var") => n.attno > 0)
  <2>1. PICK i \in DOMAIN Nodes(e) : n = Nodes(e)[i]
    BY DEF ToSet
  <2>2. n.tag \notin {"Aggref", "CoerceViaIO", "SQLValue"} /\ ~(IsA(n, "Var") /\ n.attno <= 0)
    BY <2>1 DEF RowValued, Has
  <2>3. n \in Expressions
    BY NodeSize
  <2>4. IsA(n, "Var") => n.attno \in Int
    BY <2>3, ExpressionsAssumption DEF WellFormed
  <2> QED BY <2>2, <2>4
<1> QED BY <1>1, <1>2, <1>3, <1>4 DEF Evaluated

LEMMA LeastAgrees ==
  ASSUME NEW e, NEW relids, NEW env, Evaluated(e, relids, env), NEW d, Under(d, e, relids),
         \A o : Less(d, o) /\ Under(o, e, relids) => Agrees(o, env, Render(o, relids).txt)
  PROVE  Agrees(d, env, Render(d, relids).txt)
<1>p. PICK r, t, os, rs : r = Render(d, relids) /\ t = r.txt /\ os = Operands(d) /\ rs = [i \in DOMAIN os |-> Render(os[i], relids)]
  OBVIOUS
<1>1. d \in Expressions /\ e \in Expressions /\ relids \in SUBSET Bases /\ r = deparseExpr(d, rs, relids) /\ t \in Texts
  <2>1. d \in Expressions /\ e \in Expressions /\ relids \in SUBSET Bases
    BY DEF Under, Evaluated
  <2> QED BY <2>1, <1>p, RenderAssumption, TextsAssumption
<1>2. ToSet(Nodes(d)) \subseteq ToSet(Nodes(e)) /\ ToSet(Flat(t)) \subseteq ToSet(Flat(Render(e, relids).txt))
  BY <1>p DEF Under
<1>3. /\ t.parts \in Seq(Texts) /\ t \in ToSet(Flat(t))
      /\ \A i \in DOMAIN t.parts : /\ t.parts[i] \in ToSet(Flat(t))
                                   /\ ToSet(Flat(t.parts[i])) \subseteq ToSet(Flat(t))
  <2>1. t.parts \in Seq(Texts) /\ t \in ToSet(Flat(t)) /\ TextsBelow(t)
    BY <1>1, TextSplit
  <2>2. ASSUME NEW i \in DOMAIN t.parts PROVE t.parts[i] \in ToSet(Flat(t)) /\ ToSet(Flat(t.parts[i])) \subseteq ToSet(Flat(t))
    <3>1. t.parts[i] \in Texts
      BY <2>1
    <3>2. t.parts[i] \in ToSet(Flat(t.parts[i]))
      BY <3>1, TextSplit
    <3> QED BY <2>1, <3>2 DEF TextsBelow
  <2> QED BY <2>1, <2>2
<1>4. /\ ~IsNothing(t) /\ Db2Meant(t, env)
      /\ \A i \in DOMAIN t.parts : ~IsNothing(t.parts[i]) /\ Db2Meant(t.parts[i], env)
  BY <1>2, <1>3 DEF Evaluated
<1>5. d # NoExpr
  <2>1. SUFFICES ASSUME d = NoExpr PROVE FALSE
    OBVIOUS
  <2>2. d.tag = "NULL"
    BY <2>1 DEF NoExpr
  <2>3. r = Rendered(Nothing)
    BY <1>1, <2>2 DEF deparseExpr
  <2> QED BY <1>4, <1>p, <2>3, DeclinedIsNothing
<1>6. IsA(d, "Case") => d.arg = NoExpr
  <2>1. SUFFICES ASSUME IsA(d, "Case"), d.arg # NoExpr PROVE FALSE
    OBVIOUS
  <2>2. Len(os) > 0 /\ Len(os) \in Nat /\ DOMAIN os = 1 .. Len(os)
    BY <1>1, <1>p, <2>1, CaseFirst
  <2>s. PICK n, S : n = Len(os) /\ S = {rs[i] : i \in DOMAIN os}
    OBVIOUS
  <2>3. rs \in [1 .. n -> S]
    BY <1>p, <2>2, <2>s
  <2>4. rs \in Seq(S) /\ Len(rs) = n
    BY <2>2, <2>3, <2>s
  <2>5. rs # <<>>
    BY <2>2, <2>4, <2>s
  <2>6. r = RenderCase(d, rs)
    BY <1>1, <2>1 DEF deparseExpr, IsA
  <2> QED BY <1>1, <1>4, <1>p, <2>1, <2>4, <2>5, <2>6, CaseText
<1>7. os \in Seq(Expressions) /\ \A o \in ToSet(os) : Less(d, o)
  BY <1>1, <1>5, <1>6, <1>p, OperandsLess
<1>n. PICK n : n = Len(os)
  OBVIOUS
<1>8. n \in Nat /\ DOMAIN os = 1 .. n /\ \A i \in 1 .. n : os[i] \in Expressions /\ os[i] \in ToSet(os)
  BY <1>7, <1>n DEF ToSet
<1>9. rs \in [1 .. n -> Renderings] /\ \A i \in 1 .. n : rs[i] = Render(os[i], relids)
  BY <1>1, <1>8, <1>p DEF Renderings
<1>10. rs \in Seq(Renderings) /\ Len(rs) = n
  BY <1>8, <1>9
<1>11. ASSUME NEW i \in DOMAIN os, rs[i].txt = t \/ rs[i].txt \in ToSet(t.parts)
       PROVE  EvalPg(os[i], env) = EvalDb2(rs[i].txt, env)
  <2>1. os[i] \in Expressions /\ Less(d, os[i]) /\ rs[i] = Render(os[i], relids)
    BY <1>7, <1>8, <1>9
  <2>2. ToSet(Flat(rs[i].txt)) \subseteq ToSet(Flat(t))
    BY <1>3, <1>11 DEF ToSet
  <2>3. Under(os[i], e, relids)
    BY <1>2, <2>1, <2>2 DEF Under, Less
  <2> QED BY <2>1, <2>3 DEF Agrees
<1>12. /\ EvalPg(NoExpr, env) = Null /\ PgMeant(d, env) /\ d.tag \notin {"Aggref", "CoerceViaIO", "SQLValue"}
       /\ IsA(d, "Var") => d.attno > 0
  <2>1. d \in ToSet(Nodes(e))
    BY <1>1, <1>2, <1>5, NodesSplit
  <2> QED BY <2>1 DEF Evaluated
<1>13. Met(d, env, os, rs, t)
  BY <1>1, <1>4, <1>5, <1>6, <1>7, <1>10, <1>11, <1>12, <1>n, <1>p DEF Met
<1> QED BY <1>1, <1>13, <1>p, ArmAgrees

LEMMA TextAgrees ==
  ASSUME NEW e \in Expressions, NEW relids \in SUBSET Bases, RowValued(e), ~HasHole(Render(e, relids).txt), NEW env \in Envs(e)
  PROVE  EvalPg(e, env) = EvalDb2(Render(e, relids).txt, env)
<1>1. Evaluated(e, relids, env)
  BY Evaluates
<1> DEFINE D == {d \in Expressions : Under(d, e, relids) /\ ~Agrees(d, env, Render(d, relids).txt)}
<1>2. D = {}
  <2>1. SUFFICES ASSUME D # {} PROVE FALSE
    OBVIOUS
  <2>2. PICK d \in D : \A o \in D : ~(Size(o) < Size(d))
    BY <2>1, LeastExpression
  <2>3. ASSUME NEW o, Less(d, o), Under(o, e, relids) PROVE Agrees(o, env, Render(o, relids).txt)
    <3>1. o \in Expressions /\ Size(o) < Size(d)
      BY <2>3 DEF Less
    <3> QED BY <2>2, <2>3, <3>1
  <2>4. Under(d, e, relids)
    OBVIOUS
  <2>5. Agrees(d, env, Render(d, relids).txt)
    BY <1>1, <2>3, <2>4, LeastAgrees
  <2> QED BY <2>5
<1>3. Under(e, e, relids)
  BY DEF Under
<1> QED BY <1>2, <1>3 DEF Agrees


(***************************************************************************)
(* What is sent is the text of its expression.                             *)
(***************************************************************************)
TextsOf(ps, relids) == IsList(ps) /\ \A p \in ToSet(ps) : p.expr \in Expressions /\ p.txt = Render(p.expr, relids).txt

LEMMA PairTexts ==
  ASSUME NEW es \in Seq(Expressions), NEW relids, NEW txts, txts = appendConditions(es, relids).txt.parts
  PROVE  TextsOf(Pair(es, txts), relids)
<1>p. PICK ps, rs : ps = Pair(es, txts) /\ rs = [k \in DOMAIN es |-> Render(es[k], relids)]
  OBVIOUS
<1>1. DOMAIN es = 1 .. Len(es) /\ Len(es) \in Nat /\ \A k \in DOMAIN es : es[k] \in Expressions
  OBVIOUS
<1>2. txts = [k \in DOMAIN rs |-> rs[k].txt]
  BY <1>p DEF appendConditions, Conjunction, RenderList, Text
<1>3. DOMAIN ps = DOMAIN es /\ \A k \in DOMAIN ps : ps[k].expr = es[k] /\ ps[k].txt = Render(es[k], relids).txt
  BY <1>2, <1>p DEF Pair
<1>4. ps \in [1 .. Len(es) -> ToSet(ps)]
  <2>1. ps = [k \in 1 .. Len(es) |-> [expr |-> es[k], txt |-> txts[k]]]
    BY <1>1, <1>p DEF Pair
  <2>2. \A k \in 1 .. Len(es) : ps[k] \in ToSet(ps)
    BY <1>1, <1>3 DEF ToSet
  <2> QED BY <2>1, <2>2
<1>5. IsList(ps)
  BY <1>1, <1>4 DEF IsList
<1>6. \A p \in ToSet(ps) : p.expr \in Expressions /\ p.txt = Render(p.expr, relids).txt
  BY <1>1, <1>3 DEF ToSet
<1> QED BY <1>5, <1>6, <1>p DEF TextsOf

LEMMA NoTexts ==
  ASSUME NEW es, NEW txts, es = <<>>, NEW relids
  PROVE  TextsOf(Pair(es, txts), relids) /\ TextsOf(<<>>, relids)
<1>1. DOMAIN es = {}
  OBVIOUS
<1>2. Pair(es, txts) = <<>>
  BY <1>1 DEF Pair
<1>3. TextsOf(<<>>, relids)
  BY DEF TextsOf, IsList, ToSet
<1> QED BY <1>2, <1>3

LEMMA BothTexts ==
  ASSUME NEW ps, NEW qs, NEW relids, TextsOf(ps, relids), TextsOf(qs, relids)
  PROVE  TextsOf(ps \o qs, relids)
<1>1. PICK T : T = ToSet(ps) \cup ToSet(qs)
  OBVIOUS
<1>2. ps \in Seq(T) /\ qs \in Seq(T)
  <2>1. ps \in Seq(ToSet(ps)) /\ qs \in Seq(ToSet(qs)) /\ ToSet(ps) \subseteq T /\ ToSet(qs) \subseteq T
    BY <1>1 DEF TextsOf, IsList
  <2> QED BY <2>1
<1>3. ps \o qs \in Seq(T) /\ ToSet(ps \o qs) = ToSet(ps) \cup ToSet(qs)
  BY <1>2, BothList
<1>4. ToSet(ps \o qs) = T
  BY <1>1, <1>3
<1>5. IsList(ps \o qs)
  BY <1>3, <1>4 DEF IsList
<1>6. \A p \in ToSet(ps \o qs) : p.expr \in Expressions /\ p.txt = Render(p.expr, relids).txt
  BY <1>3 DEF TextsOf
<1> QED BY <1>5, <1>6 DEF TextsOf

PartOf(txts, es, relids) == es = <<>> \/ (es \in Seq(Expressions) /\ txts = appendConditions(es, relids).txt.parts)
LEMMA PartTexts ==
  ASSUME NEW txts, NEW es, NEW relids, PartOf(txts, es, relids)
  PROVE  TextsOf(Pair(es, txts), relids) /\ TextsOf(IF es = <<>> THEN <<>> ELSE Pair(es, txts), relids)
BY PairTexts, NoTexts DEF PartOf
StatementParts ==
  /\ PartOf(plan.stmt.where, WhereExprs, OwnRelids) /\ PartOf(plan.stmt.having, HavingExprs, OwnRelids)
  /\ PartOf(plan.stmt.list, ListExprs, OwnRelids) /\ PartOf(plan.stmt.on, JoinExprs, OwnRelids)

LEMMA SelectParts ==
  ASSUME PInv, PlanFacts, GroupListInv, plan.made, SelectInv
  PROVE  StatementParts
<1>1. PICK scan, upper, relids : scan = Scanrel(rels, plan.rel) /\ upper = (rels[plan.rel].kind = "upper") /\ relids = rels[scan].relids
  OBVIOUS
<1>2. PICK list, from, where, group, having, order, limit :
        /\ list = deparseExplicitTargetList(plan.scan, relids)
        /\ from = deparseFromExprForRel(rels, scan)
        /\ where = appendConditions(IF upper THEN rels[scan].fdw.remote_conds ELSE plan.remote, relids)
        /\ group = (IF upper THEN appendGroupByClause(rels[plan.rel].fdw.grouped_tlist, query.groupClause) ELSE <<>>)
        /\ having = appendConditions(IF upper THEN plan.remote ELSE <<>>, relids)
        /\ order = OrderOf
        /\ limit = (IF plan.path.limit THEN appendLimitClause(query.limit, relids) ELSE appendConditions(<<>>, relids))
  OBVIOUS
<1>3. plan.stmt = SelectStmt(query, relids, list, from, where, group, having, order, limit)
  BY <1>1, <1>2 DEF SelectInv, deparseSelectStmtForRel, OrderOf
<1>4. /\ plan.stmt.cmd = "SELECT" /\ plan.stmt.list = list.txt.parts /\ plan.stmt.on = from.on.txt.parts
      /\ plan.stmt.where = where.txt.parts /\ plan.stmt.having = having.txt.parts
  BY <1>3 DEF SelectStmt
<1>5. /\ ScanOf = scan /\ relids = OwnRelids /\ scan \in {1, 2, 3} /\ Bases = {1, 2}
      /\ rels[scan].kind = IF scan \in Bases THEN "base" ELSE "join"
      /\ scan \in Bases => BaseFdw(scan)
  <2>1. /\ ScanOf = scan /\ ScanOf \in {1, 2, 3} /\ Bases = {1, 2}
        /\ rels[ScanOf].kind = IF ScanOf \in Bases THEN "base" ELSE "join"
        /\ ScanOf \in Bases => BaseFdw(ScanOf)
    BY <1>1, MadeFacts
  <2> QED BY <1>1, <2>1 DEF OwnRelids
<1>6. PartOf(plan.stmt.where, WhereExprs, OwnRelids) /\ PartOf(plan.stmt.having, HavingExprs, OwnRelids)
  <2>e. PICK es, fs : es = WhereExprs /\ fs = HavingExprs
    OBVIOUS
  <2>1. es \in Seq(Expressions) /\ fs \in Seq(Expressions)
    BY <2>e, ConditionsSeen DEF SeenList
  <2>2. where = appendConditions(es, relids) /\ having = appendConditions(fs, relids)
    BY <1>1, <1>2, <1>5, <2>e DEF WhereExprs, HavingExprs
  <2> QED BY <1>4, <1>5, <2>1, <2>2, <2>e DEF PartOf
<1>7. PartOf(plan.stmt.list, ListExprs, OwnRelids)
  <2>e. PICK es : es = ListExprs
    OBVIOUS
  <2>1. es \in Seq(Expressions) /\ es = plan.scan
    BY <1>4, <2>e, ListSeen DEF SeenList, ListExprs
  <2>2. es # <<>> => list = appendConditions(es, relids)
    BY <1>2, <2>1 DEF deparseExplicitTargetList
  <2> QED BY <1>4, <1>5, <2>1, <2>2, <2>e DEF PartOf
<1>8. PartOf(plan.stmt.on, JoinExprs, OwnRelids)
  <2>1. CASE rels[scan].kind = "join"
    <3>e. PICK es : es = rels[scan].fdw.joinclauses
      OBVIOUS
    <3>1. from.on = appendConditions(es, relids)
      BY <1>1, <1>2, <2>1, <3>e DEF deparseFromExprForRel
    <3>2. es = JoinExprs
      BY <1>5, <3>e DEF JoinExprs
    <3>3. es \in Seq(Expressions)
      BY <3>2, JoinClausesList
    <3> QED BY <1>4, <1>5, <3>1, <3>2, <3>3 DEF PartOf
  <2>2. CASE rels[scan].kind # "join"
    <3>1. BaseFdw(scan) /\ ScanOf = scan
      BY <1>5, <2>2
    <3>2. JoinExprs = <<>>
      BY <3>1 DEF BaseFdw, JoinExprs
    <3> QED BY <3>2 DEF PartOf
  <2> QED BY <2>1, <2>2
<1> QED BY <1>6, <1>7, <1>8 DEF StatementParts

LEMMA DirectParts ==
  ASSUME PInv, PlanFacts, GroupListInv, plan.made, plan.stmt.cmd # "SELECT"
  PROVE  StatementParts
<1>1. /\ query.cmd \in {"UPDATE", "DELETE"}
      /\ plan.stmt = IF query.cmd = "UPDATE"
                    THEN deparseDirectUpdateSql(rels, plan.rel, query.set, rels[plan.rel].fdw.final_remote_exprs)
                    ELSE deparseDirectDeleteSql(rels, plan.rel, rels[plan.rel].fdw.final_remote_exprs)
  BY DEF PlanFacts, DirectInv
<1>p. PICK relids, remote, es : relids = rels[plan.rel].relids /\ remote = plan.remote /\ es = ListExprs
  OBVIOUS
<1>2. /\ rels[plan.rel].fdw.final_remote_exprs = remote
      /\ rels[plan.rel].kind = "base" /\ ScanOf = plan.rel /\ BaseFdw(ScanOf)
  <2>1. find_modifytable_subplan
    BY DEF PlanFacts, DirectInv
  <2>2. plan.rel \in Bases
    <3>1. query \in Queries /\ query.rels \in {{1}, {2}, {1, 2}} /\ Bases = {1, 2} /\ plan.rel \in query.rels \cup {3, 4}
      BY MadeFacts
    <3>2. query.rels = {plan.rel}
      BY <2>1 DEF find_modifytable_subplan
    <3> QED BY <3>1, <3>2
  <2>3. rels[plan.rel].fdw.final_remote_exprs = remote
    BY <1>p DEF PInv, PlanInv
  <2>4. rels[plan.rel].kind = "base"
    BY <2>2, MadeFacts
  <2>5. ScanOf = plan.rel
    BY <2>4 DEF ScanOf
  <2>6. BaseFdw(ScanOf)
    BY <2>2, <2>5, MadeFacts
  <2> QED BY <2>3, <2>4, <2>5, <2>6
<1>3. relids = OwnRelids
  BY <1>2, <1>p DEF OwnRelids
<1>4. remote \in Seq(Expressions) /\ es \in Seq(Expressions) /\ WhereExprs = remote /\ HavingExprs = <<>> /\ JoinExprs = <<>>
  <2>1. WhereExprs = remote /\ HavingExprs = <<>>
    BY <1>2, <1>p DEF WhereExprs, HavingExprs
  <2>2. JoinExprs = <<>>
    BY <1>2 DEF BaseFdw, JoinExprs
  <2> QED BY <1>p, <2>1, <2>2, ConditionsSeen, ListSeen DEF SeenList
<1>5. plan.stmt.cmd = query.cmd
  BY <1>1 DEF deparseDirectUpdateSql, deparseDirectDeleteSql, DirectSql
<1>6. PICK sets, list, where : /\ list = appendConditions(es, relids) /\ where = appendConditions(remote, relids)
                               /\ plan.stmt = DirectSql(query.cmd, plan.rel, sets, list, where)
  <2>1. CASE query.cmd = "UPDATE"
    <3>1. es = [k \in DOMAIN query.set |-> query.set[k].expr]
      BY <1>5, <1>p, <2>1 DEF ListExprs
    <3> QED BY <1>1, <1>2, <1>p, <2>1, <3>1 DEF deparseDirectUpdateSql
  <2>2. CASE query.cmd = "DELETE"
    <3>1. es = <<>>
      BY <1>5, <1>p, <2>2 DEF ListExprs
    <3> QED BY <1>1, <1>2, <1>p, <2>2, <3>1 DEF deparseDirectDeleteSql
  <2> QED BY <1>1, <2>1, <2>2
<1>7. plan.stmt.list = list.txt.parts /\ plan.stmt.where = where.txt.parts
  BY <1>6 DEF DirectSql
<1>8. PartOf(plan.stmt.where, WhereExprs, OwnRelids) /\ PartOf(plan.stmt.list, ListExprs, OwnRelids)
  BY <1>3, <1>4, <1>6, <1>7, <1>p DEF PartOf
<1>9. PartOf(plan.stmt.having, HavingExprs, OwnRelids) /\ PartOf(plan.stmt.on, JoinExprs, OwnRelids)
  BY <1>4 DEF PartOf
<1> QED BY <1>8, <1>9 DEF StatementParts

LEMMA SentTexts ==
  ASSUME PInv, PlanFacts, GroupListInv, plan.made
  PROVE  TextsOf(Sent, OwnRelids)
<1>1. StatementParts
  <2>1. IF plan.stmt.cmd = "SELECT" THEN SelectInv ELSE DirectInv
    BY DEF PlanFacts
  <2> QED BY <2>1, SelectParts, DirectParts
<1>l. PICK relids, where, having, list, on, w, h :
        /\ relids = OwnRelids /\ where = Pair(WhereExprs, plan.stmt.where) /\ having = Pair(HavingExprs, plan.stmt.having)
        /\ list = (IF ListExprs = <<>> THEN <<>> ELSE Pair(ListExprs, plan.stmt.list))
        /\ on = Pair(JoinExprs, plan.stmt.on) /\ w = where \o having /\ h = w \o list
  OBVIOUS
<1>2. TextsOf(where, relids) /\ TextsOf(having, relids) /\ TextsOf(on, relids)
  <2>1. PICK es, fs, gs, t, u, v : /\ es = WhereExprs /\ fs = HavingExprs /\ gs = JoinExprs
                                   /\ t = plan.stmt.where /\ u = plan.stmt.having /\ v = plan.stmt.on
    OBVIOUS
  <2>2. PartOf(t, es, relids) /\ PartOf(u, fs, relids) /\ PartOf(v, gs, relids)
    BY <1>1, <1>l, <2>1 DEF StatementParts
  <2>3. TextsOf(Pair(es, t), relids) /\ TextsOf(Pair(fs, u), relids) /\ TextsOf(Pair(gs, v), relids)
    BY <2>2, PartTexts
  <2> QED BY <1>l, <2>1, <2>3
<1>3. TextsOf(list, relids)
  <2>1. PICK es, t : es = ListExprs /\ t = plan.stmt.list
    OBVIOUS
  <2>2. PartOf(t, es, relids)
    BY <1>1, <1>l, <2>1 DEF StatementParts
  <2>3. TextsOf(IF es = <<>> THEN <<>> ELSE Pair(es, t), relids)
    BY <2>2, PartTexts
  <2> QED BY <1>l, <2>1, <2>3
<1>4. TextsOf(w, relids)
  BY <1>2, <1>l, BothTexts
<1>5. TextsOf(h, relids)
  BY <1>3, <1>4, <1>l, BothTexts
<1>6. TextsOf(h \o on, relids)
  BY <1>2, <1>5, BothTexts
<1>7. Sent = h \o on
  BY <1>l DEF Sent, WalkedPairs
<1> QED BY <1>6, <1>7, <1>l

LEMMA AnswersSent ==
  ASSUME PInv, PlanFacts, GroupListInv
  PROVE  AnswersSurvive
<1> SUFFICES ASSUME plan.made, NEW pair \in ToSet(Sent), Whole(pair), RowValued(pair.expr), NEW env \in Envs(pair.expr)
             PROVE  EvalPg(pair.expr, env) = EvalDb2(pair.txt, env)
  BY DEF AnswersSurvive
<1>e. PICK e, t, relids : e = pair.expr /\ t = pair.txt /\ relids = OwnRelids
  OBVIOUS
<1>1. e \in Expressions /\ t = Render(e, relids).txt /\ relids \in SUBSET Bases
  BY <1>e, SentTexts, OwnTables DEF TextsOf
<1>2. ~HasHole(Render(e, relids).txt) /\ RowValued(e) /\ env \in Envs(e)
  BY <1>1, <1>e DEF Whole
<1>3. EvalPg(e, env) = EvalDb2(Render(e, relids).txt, env)
  BY <1>1, <1>2, TextAgrees
<1> QED BY <1>1, <1>3, <1>e

(***************************************************************************)
(* Whatever is sent, and has a text without a hole, means in DB2 what the  *)
(* expression means in PostgreSQL: for every row and every parameter, with *)
(* nulls among them.                                                       *)
(***************************************************************************)
THEOREM PlannerAnswers == Spec => []AnswersSurvive
BY PlannerInvariant, PlannerPlans, PlannerGroupLists, AnswersSent, PTL

=============================================================================
