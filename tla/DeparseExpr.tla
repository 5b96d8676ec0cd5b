---------------------------- MODULE DeparseExpr ----------------------------
(***************************************************************************)
(* The DB2 text of an expression.  A text is a tree: a keyword over its    *)
(* parts, or a leaf made of one expression node.  Nothing is the text of   *)
(* an expression the code declines to translate; a part that is Nothing is *)
(* a hole that the code has left in a larger text.                         *)
(*                                                                         *)
(* A rendering is [txt, seen]: seen lists the parameters in the order in   *)
(* which the code meets them, those of parts that come to nothing too.     *)
(***************************************************************************)
EXTENDS Shippable

CONSTANTS Render(_, _),     \* what deparseExpr computes for an expression
          Flat(_),          \* what FlatOf computes for a text
          Marked(_)         \* what MarkedOf computes for a text

Text(kw, parts) == [kw |-> kw, of |-> NoExpr, parts |-> parts]
Leaf(kw, e)     == [kw |-> kw, of |-> e, parts |-> <<>>]
Nothing         == Text("", <<>>)
IsNothing(t)    == t.kw = ""

Rendered(txt)       == [txt |-> txt, seen |-> <<>>]
Declined(seen)      == [txt |-> Nothing, seen |-> seen]
Wrap(kw, each)      == [txt |-> IF each.ok THEN Text(kw, each.parts) ELSE Nothing, seen |-> each.seen]

(* A text and all texts below it, from left to right; the parameters that are *)
(* marked in it.  The marker of the current time takes none of those.         *)
FlatOf(t, below) == <<t>> \o Concat(below)
IsMarker(t)  == t.kw \in {"?", ":p"}
MarkedOf(t, below) == (IF IsMarker(t) THEN <<t.of>> ELSE <<>>) \o Concat(below)
HasHole(t)   == \E i \in DOMAIN Flat(t) : IsNothing(Flat(t)[i])

(* params_list: every parameter once, in the order in which it was first met *)
(* Mutant: a new parameter is put in front. *)
OnceInFront(seen) == Reverse(add_to_flat_tlist(<<>>, seen))
Once(seen) == add_to_flat_tlist(<<>>, seen)

(***************************************************************************)
(* Leaves.                                                                 *)
(***************************************************************************)
RenderConst(c) ==
  IF c.null THEN Rendered(IF canHandleType(c.type) THEN Leaf("NULL", c) ELSE Nothing)
  ELSE Rendered(IF Len(c.val) = 1 /\ datumRenders(c.val[1], c.type) THEN Leaf("lit", c) ELSE Nothing)

(* An interval parameter is not handled. *)
RenderParam(p) ==
  IF canHandleType(p.type) /\ p.type # "interval"
    THEN [txt |-> Leaf("?", p), seen |-> <<p>>] ELSE Rendered(Nothing)

deparseColumnRef(v, qualify) ==
  CASE v.attno = -1 -> Leaf("ctid", v)
    [] v.attno < -1 -> Leaf("oid", v)
    [] v.attno = 0  -> Leaf(IF qualify THEN "CASE ROW" ELSE "ROW", v)
    [] OTHER        -> Leaf("col", v)

(* A column of another relation is a parameter with a name instead of a "?". *)
RenderVar(v, relids) ==
  IF v.varno \in relids THEN Rendered(deparseColumnRef(v, Cardinality(relids) > 1))
                        ELSE [txt |-> Leaf(":p", v), seen |-> <<v>>]

RenderSQLValue(e) ==
  Rendered(IF e.name \in {"current_date", "current_timestamp", "localtimestamp", "current_time", "localtime"}
             THEN Leaf(":now", e) ELSE Nothing)
RenderCoerceViaIO(e) ==
  Rendered(IF /\ e.type \in {"date", "timestamp", "timestamptz"}
              /\ IsA(e.args[1], "Const") /\ ~e.args[1].null
              /\ e.args[1].type = "text" /\ e.args[1].val = <<"now">>
             THEN Leaf(":now", e) ELSE Nothing)

(***************************************************************************)
(* Nodes.  The renderings of the operands come in as a sequence; Each puts *)
(* one after the other and stops at the first that comes to nothing.       *)
(***************************************************************************)
Each(rs) ==
  LET holes == {i \in DOMAIN rs : IsNothing(rs[i].txt)}
      last  == IF holes = {} THEN Len(rs) ELSE Min(holes)
  IN [ok |-> holes = {}, parts |-> [i \in 1 .. last |-> rs[i].txt], seen |-> Concat([i \in 1 .. last |-> rs[i].seen])]

DB2Operator(name) ==
  CASE name = "~~"   -> "LIKE"        [] name = "!~~"  -> "NOT LIKE"
    [] name = "~~*"  -> "UPPER LIKE"  [] name = "!~~*" -> "UPPER NOT LIKE"
    [] name = "^"    -> "POWER"       [] name = "%"    -> "MOD"
    [] name = "&"    -> "BITAND"      [] name = "|/"   -> "SQRT"
    [] name = "@"    -> "ABS"         [] OTHER         -> name
RenderOp(e, rs) ==
  IF e.builtin /\ isTranslatableOpExpr(e.name, e.left, e.right) THEN Wrap(DB2Operator(e.name), Each(rs)) ELSE Declined(<<>>)
RenderDistinct(e, rs) == IF canHandleType(e.right) THEN Wrap("IS DISTINCT FROM", Each(rs)) ELSE Declined(<<>>)
RenderNullIf(e, rs)   == IF canHandleType(e.right) THEN Wrap("NULLIF", Each(rs)) ELSE Declined(<<>>)

(* The list after IN, from a constant array, from an array constructor or  *)
(* from a relabelled array constructor.  An empty list is not sent.        *)
NoList == [ok |-> FALSE, parts |-> <<>>, seen |-> <<>>]
(* Mutant: elements that are NULL are left out of the list. *)
KnownElements(c, type) ==
  LET known == SelectSeq(c.val, LAMBDA v : v # "NULL")
  IN [i \in DOMAIN known |-> Leaf("lit", [c EXCEPT !.type = type, !.val = <<known[i]>>])]
ElementTexts(c, type) ==
  [i \in DOMAIN c.val |-> LET n == c.val[i] = "NULL"
                         IN Leaf(IF n THEN "NULL" ELSE "lit", [c EXCEPT !.type = type, !.null = n, !.val = <<c.val[i]>>])]
InList(e, last, rs) ==
  CASE IsA(last, "Const") /\ last.null -> [NoList EXCEPT !.ok = TRUE, !.parts = <<Leaf("NULL", last)>>]
    [] IsA(last, "Const") /\ ~last.null ->
         [NoList EXCEPT !.ok = last.val # <<>> /\ \A i \in DOMAIN last.val : last.val[i] = "NULL" \/ datumRenders(last.val[i], e.left),
                        !.parts = ElementTexts(last, e.left)]
    [] IsA(ArrayOf(last), "Array") /\ (IsA(last, "ArrayCoerce") => last.relabel) /\ rs # <<>> -> Each(rs)
    [] OTHER -> NoList
InTest(kw, left, list) ==
  IF IsNothing(left.txt) THEN left
  ELSE Wrap(kw, [list EXCEPT !.parts = <<left.txt>> \o list.parts, !.seen = left.seen \o list.seen])
RenderScalarArray(e, rs) ==
  IF ~e.builtin \/ <<e.name, e.useOr>> \notin {<<"=", TRUE>>, <<"<>", FALSE>>} \/ ~canHandleType(e.left)
    THEN Declined(<<>>)
  ELSE InTest(IF e.useOr THEN "IN" ELSE "NOT IN", rs[1], InList(e, Last(e.args), Tail(rs)))

(* The parenthesis and the test are written whatever the operand comes to. *)
RenderNullTest(e, arg) == [txt |-> Text(IF e.isNull THEN "IS NULL" ELSE "IS NOT NULL", <<arg.txt>>), seen |-> arg.seen]

(* With an argument the test of deparseCaseExpr is the wrong way round: a  *)
(* rendered argument ends the translation, one that comes to nothing is    *)
(* written as a hole.                                                      *)
WithHole(hole, each) == Wrap("CASE", [each EXCEPT !.parts = <<Nothing>> \o each.parts, !.seen = hole.seen \o each.seen])
RenderCase(e, rs) ==
  CASE ~canHandleType(e.type) -> Declined(<<>>)
    [] canHandleType(e.type) /\ e.arg = NoExpr -> Wrap("CASE", Each(rs))
    [] OTHER -> IF IsNothing(rs[1].txt) THEN WithHole(rs[1], Each(Tail(rs))) ELSE Declined(rs[1].seen)

RenderCoalesce(e, rs) == IF canHandleType(e.type) THEN Wrap("COALESCE", Each(rs)) ELSE Declined(<<>>)

DB2Function(name) ==
  CASE name = "ceiling" -> "CEIL"
    [] name \in {"char_length", "character_length"} -> "LENGTH"
    [] name = "pow" -> "POWER"
    [] name = "octet_length" -> "LENGTHB"
    [] name \in {"position", "strpos"} -> "INSTR"
    [] name = "substring" -> "SUBSTR"
    [] OTHER -> name
(* DB2 takes the arguments of TRANSLATE in another order; all three are *)
(* rendered even when one comes to nothing.                             *)
RenderTranslate(rs) ==
  Wrap("TRANSLATE", [ok    |-> \A i \in 1..3 : ~IsNothing(rs[i].txt),
                     parts |-> <<rs[1].txt, rs[3].txt, rs[2].txt>>,
                     seen  |-> rs[1].seen \o rs[2].seen \o rs[3].seen])
RenderFunc(e, rs) ==
  IF ~isTranslatableFuncExpr(e) THEN Declined(<<>>)
  ELSE CASE e.form = "implicit" -> rs[1]
         [] e.form # "implicit" /\ e.name = "translate" -> RenderTranslate(rs)
         [] e.form # "implicit" /\ e.name \in {"now", "transaction_timestamp"} -> Rendered(Leaf(":now", e))
         [] OTHER -> Wrap(IF e.name = "date_part" THEN "EXTRACT" ELSE DB2Function(e.name), Each(rs))

(* PERCENTILE_CONT(direct) WITHIN GROUP (ORDER BY key).  The text of the sort *)
(* key is never empty: its direction is always written.                       *)
RenderOrderedSet(e, direct, key) ==
  Wrap(e.name, [ok |-> ~IsNothing(direct.txt), seen |-> direct.seen \o key.seen,
                parts |-> <<direct.txt, Text(IF e.order[1].desc THEN "DESC" ELSE "ASC", <<key.txt>>)>>])
(* The filter, and which arguments only serve the sort, are not looked at.  *)
(* The separator is written behind an argument: from two on the text is no  *)
(* list, which the hole stands for.                                         *)
Separated(e, each) ==
  [each EXCEPT !.parts = <<Text(IF e.distinct THEN "DISTINCT" ELSE e.name,
                                IF Len(e.args) > 1 THEN Append(each.parts, Nothing) ELSE each.parts)>>]
RenderPlainAggregate(e, rs) ==
  IF e.star THEN Rendered(Text(e.name, <<Leaf("*", e)>>)) ELSE Wrap(e.name, Separated(e, Each(rs)))
RenderAggref(e, info, rs) ==
  CASE info = "none"    -> Declined(<<>>)
    [] info = "ordered" -> RenderOrderedSet(e, rs[1], rs[1 + e.order[1].arg])
    [] info = "plain"   -> RenderPlainAggregate(e, SubSeq(rs, 1 + Len(e.direct), Len(rs)))

(* What is rendered below a node, in the order in which the code does it: of  *)
(* the comparison with a list its left side and what an array is made from.   *)
Elements(last) == IF IsA(ArrayOf(last), "Array") THEN ArrayOf(last).args ELSE <<>>
When(e, w) == IF e.arg = NoExpr THEN w[1] ELSE w[1].args[2]
Present(e) == IF e = NoExpr THEN <<>> ELSE <<e>>
Operands(e) ==
  CASE IsA(e, "ScalarArray") -> <<e.args[1]>> \o Elements(Last(e.args))
    [] IsA(e, "Case")   -> Present(e.arg) \o Concat([i \in DOMAIN e.whens |-> <<When(e, e.whens[i]), e.whens[i][2]>>])
                           \o Present(e.default)
    [] IsA(e, "Aggref") -> e.direct \o e.args
    [] OTHER            -> Children(e)

(* rs: the renderings of its operands *)
deparseExpr(e, rs, relids) ==
  CASE e.tag = "Const"       -> RenderConst(e)
    [] e.tag = "Param"       -> RenderParam(e)
    [] e.tag = "Var"         -> RenderVar(e, relids)
    [] e.tag = "Op"          -> RenderOp(e, rs)
    [] e.tag = "ScalarArray" -> RenderScalarArray(e, rs)
    [] e.tag = "Distinct"    -> RenderDistinct(e, rs)
    [] e.tag = "NullIf"      -> RenderNullIf(e, rs)
    [] e.tag = "Bool"        -> Wrap(e.name, Each(rs))
    [] e.tag \in {"Relabel", "CoerceToDomain"} -> rs[1]
    [] e.tag = "Case"        -> RenderCase(e, rs)
    [] e.tag = "Coalesce"    -> RenderCoalesce(e, rs)
    [] e.tag = "NullTest"    -> RenderNullTest(e, rs[1])
    [] e.tag = "Func"        -> RenderFunc(e, rs)
    [] e.tag = "CoerceViaIO" -> RenderCoerceViaIO(e)
    [] e.tag = "SQLValue"    -> RenderSQLValue(e)
    [] e.tag = "Aggref"      -> RenderAggref(e, db2AggregateInfo(e.name, e.kind), rs)
    [] OTHER                 -> Rendered(Nothing)

ASSUME RenderAssumption ==
  \A e \in Expressions, relids \in SUBSET Bases :
    /\ Render(e, relids) = deparseExpr(e, [i \in DOMAIN Operands(e) |-> Render(Operands(e)[i], relids)], relids)
    /\ Render(e, relids).seen \in Seq(Expressions)

(* What may be sent, with all that is below; a list of no columns is a NULL. *)
Texts == {Leaf("NULL", NoExpr)}
         \cup UNION {ToSet(Flat(Render(e, relids).txt)) : e \in Expressions, relids \in SUBSET Bases}
ASSUME TextsAssumption ==
  /\ \A e \in Expressions, relids \in SUBSET Bases : Render(e, relids).txt \in Texts
  /\ \A t \in Texts :
       /\ t.parts \in Seq(Texts)
       /\ Flat(t) \in Seq(Texts) /\ Flat(t) = FlatOf(t, [i \in DOMAIN t.parts |-> Flat(t.parts[i])])
       /\ Marked(t) = MarkedOf(t, [i \in DOMAIN t.parts |-> Marked(t.parts[i])])

RenderList(es, relids) == [i \in DOMAIN es |-> Render(es[i], relids)]

(* Conditions joined with AND; each gets its parentheses, whatever it comes to. *)
Conjunction(rs) == [txt |-> Text("AND", [i \in DOMAIN rs |-> rs[i].txt]), seen |-> Concat([i \in DOMAIN rs |-> rs[i].seen])]
appendConditions(es, relids) == Conjunction(RenderList(es, relids))
=============================================================================
