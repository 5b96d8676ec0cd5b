----------------------------- MODULE Shippable -----------------------------
(***************************************************************************)
(* Which expressions db2_fdw declares safe to evaluate in DB2: the walker  *)
(* of db2_deparse.c and its callers.                                       *)
(*                                                                         *)
(* A context is [ok, st, coll]: whether the walker accepts, the state of   *)
(* the collation (none, safe, unsafe) and the collation itself.  A glob is *)
(* [upper, relids, fdw]: whether the relation is an upper one, the base    *)
(* relations whose columns are remote, and whether it has an fdw_private.  *)
(***************************************************************************)
EXTENDS PgNodes, FiniteSets

CONSTANT Walk(_, _, _)      \* what foreign_expr_walker computes for an expression

NONE   == 0
SAFE   == 1
UNSAFE == 2

canHandleType(t) ==
  t \in {"text", "char", "bpchar", "varchar", "name", "int8", "int2", "int4", "oid", "float4", "float8",
         "numeric", "date", "time", "timestamp", "timestamptz", "interval"}

(* Objects of an extension are looked up, but the lookup never answers yes. *)
is_shippable(builtin) == builtin
builtinType(t) == t \notin {"user", "user[]"}

(* Whether datumToString renders a value: DB2 has no empty string, and an *)
(* interval whose parts differ in sign is refused.                        *)
datumRenders(v, type) == canHandleType(type) /\ v \notin {"", "mixed signs"}

isTranslatableOpExpr(name, left, right) ==
  /\ ~(left = "interval" /\ right = "interval")
  /\ canHandleType(right)
  /\ \/ name \in {">", "<", ">=", "<=", "=", "<>", "+", "*", "~~", "!~~", "~~*", "!~~*", "^", "%", "&", "|/", "@"}
     \/ name = "-" /\ right \notin {"date", "timestamp", "timestamptz"}

isTranslatableNormalFunction(name, nargs) ==
  \/ name \in {"abs", "acos", "asin", "atan", "atan2", "ceil", "ceiling", "char_length", "character_length",
               "concat", "cos", "exp", "initcap", "length", "lower", "lpad", "ltrim", "mod", "octet_length",
               "position", "pow", "power", "replace", "round", "rpad", "rtrim", "sign", "sin", "sqrt", "strpos",
               "substr", "tan", "to_char", "to_date", "to_number", "to_timestamp", "trunc", "upper"}
  \/ name = "substring" /\ nargs = 3

isTranslatableDatePart(e) ==
  /\ Len(e.args) = 2 /\ IsA(e.args[1], "Const")
  /\ ~e.args[1].null /\ e.args[1].type = "text"
  /\ e.args[1].val[1] \in {"year", "month", "day", "hour", "minute", "second", "timezone_hour", "timezone_minute"}

isTranslatableFuncExpr(e) ==
  /\ canHandleType(e.type)
  /\ \/ e.form = "implicit"
     \/ /\ e.builtin
        /\ \/ isTranslatableNormalFunction(e.name, Len(e.args))
           \/ e.name = "translate" /\ Len(e.args) = 3
           \/ e.name = "date_part" /\ isTranslatableDatePart(e)
           \/ e.name \in {"now", "transaction_timestamp"} /\ Len(e.args) = 0

(* Does DB2 know the aggregate, and does it take WITHIN GROUP there? *)
db2AggregateInfo(name, kind) ==
  CASE kind = "n" /\ name \in {"count", "sum", "avg", "min", "max"}    -> "plain"
    [] kind = "o" /\ name \in {"percentile_cont", "percentile_disc"} -> "ordered"
    [] OTHER -> "none"

(***************************************************************************)
(* Collations.  Merge is the end of the walker: what a subexpression adds  *)
(* to the context of its parent.  Derived is the rule by which a node gets *)
(* its collation from its inputs.                                          *)
(***************************************************************************)
Fail  == [ok |-> FALSE, st |-> NONE, coll |-> "none"]
Empty == [ok |-> TRUE,  st |-> NONE, coll |-> "none"]
NoCtx == [ok |-> FALSE, st |-> UNSAFE, coll |-> "none"]

Merge(outer, inner) ==
  CASE ~outer.ok \/ ~inner.ok                        -> Fail
    [] outer.ok /\ inner.ok /\ inner.st > outer.st   -> inner
    [] outer.ok /\ inner.ok /\ inner.st = SAFE /\ outer.st = SAFE /\ inner.coll # outer.coll ->
         CASE outer.coll = "default" -> inner
           [] inner.coll = "default" -> outer
           [] OTHER                  -> [outer EXCEPT !.st = UNSAFE]
    [] OTHER -> outer

Derived(coll, in) ==
  CASE ~in.ok -> Fail
    [] in.ok /\ coll = "none" -> Empty
    [] in.ok /\ coll # "none" /\ in.st = SAFE /\ coll = in.coll -> in
    [] OTHER -> [ok |-> TRUE, st |-> IF coll = "default" THEN NONE ELSE UNSAFE, coll |-> coll]

(* Its input collation must come from a column of the foreign table. *)
SafeInput(incoll, in) == incoll = "none" \/ (in.st = SAFE /\ incoll = in.coll)
Checked(guard, ctx) == IF guard THEN ctx ELSE Fail

(* Mutant: every column is taken for one of the scanned tables. *)
WalkAnyVar(v, glob) ==
  Checked(v.attno >= -1, [ok |-> TRUE, st |-> IF v.coll # "none" THEN SAFE ELSE NONE, coll |-> v.coll])
WalkVar(v, glob) ==
  IF v.varno \in glob.relids
    THEN Checked(v.attno >= -1, [ok |-> TRUE, st |-> IF v.coll # "none" THEN SAFE ELSE NONE, coll |-> v.coll])
    ELSE [ok |-> TRUE, st |-> IF v.coll \in {"none", "default"} THEN NONE ELSE UNSAFE, coll |-> v.coll]

RegTypes == {"regproc", "regprocedure", "regoper", "regoperator", "regclass", "regtype", "regcollation",
             "regconfig", "regdictionary", "regnamespace", "regrole", "regdatabase"}
WalkConst(c) ==
  Checked(/\ ~c.null /\ c.type \in RegTypes => is_shippable(c.builtin)
          /\ ~c.null /\ canHandleType(c.type) => datumRenders(c.val[1], c.type),
          [ok |-> TRUE, st |-> IF c.coll \in {"none", "default"} THEN NONE ELSE UNSAFE, coll |-> c.coll])

WalkParam(p) ==
  Checked(p.kind # "multiexpr",
          [ok |-> TRUE, st |-> IF p.coll \in {"none", "default"} THEN NONE ELSE UNSAFE, coll |-> p.coll])

(* What the walker finds below a node comes in as one merged context. *)
WalkFunc(e, in) ==
  Checked(is_shippable(e.builtin) /\ isTranslatableFuncExpr(e) /\ SafeInput(e.incoll, in), Derived(e.coll, in))

(* Mutant: DB2 is taken to have every built-in operator. *)
WalkAnyOp(e, in) == Checked(is_shippable(e.builtin) /\ SafeInput(e.incoll, in), Derived(e.coll, in))
WalkOp(e, in) ==
  Checked(is_shippable(e.builtin) /\ isTranslatableOpExpr(e.name, e.left, e.right) /\ SafeInput(e.incoll, in),
          Derived(e.coll, in))

ArrayOf(last) == IF IsA(last, "ArrayCoerce") THEN last.args[1] ELSE last
WalkScalarArray(e, in) ==
  Checked(/\ is_shippable(e.builtin)
          /\ IsA(Last(e.args), "ArrayCoerce") => Last(e.args).relabel
          /\ ArrayOf(Last(e.args)).tag \in {"Const", "Array"}
          /\ SafeInput(e.incoll, in) /\ in.ok,
          Empty)

WalkCaseTest(e, case) == Checked(case # NoCtx, Derived(e.coll, case))

WalkAggregate(e, info, in) ==
  Checked(/\ ~e.split /\ is_shippable(e.builtin)
          /\ info # "none"
          /\ info = "ordered" => /\ Len(e.direct) = 1 /\ Len(e.order) = 1
                                 /\ exprType(e.direct[1]) \notin {"int4[]", "text[]"}
          /\ \A s \in ToSet(e.order) : s.shippable
          /\ SafeInput(e.incoll, in),
          Derived(e.coll, in))
WalkAggref(e, glob, in) ==
  Checked(glob.upper, WalkAggregate(e, db2AggregateInfo(e.name, e.kind), in))

(* The nodes whose contexts are merged into that of e. *)
Merged(e) ==
  CASE IsA(e, "Case")   -> [i \in DOMAIN e.whens |-> e.whens[i][2]] \o <<e.default>>
    [] IsA(e, "Aggref") -> e.direct \o e.args \o <<e.filter>>
    [] IsA(e, "Subscripting") -> e.args
    [] OTHER            -> Children(e)

WalkNode(e, in, glob, case) ==
  CASE e.tag = "Var"          -> WalkVar(e, glob)
    [] e.tag = "Const"        -> WalkConst(e)
    [] e.tag = "Param"        -> WalkParam(e)
    [] e.tag = "Func"         -> WalkFunc(e, in)
    [] e.tag \in {"Op", "Distinct"} -> WalkOp(e, in)
    [] e.tag = "ScalarArray"  -> WalkScalarArray(e, in)
    [] e.tag \in {"Bool", "NullTest"} -> Checked(in.ok, Empty)
    [] e.tag \in {"Relabel", "ArrayCoerce", "Array", "Case", "Subscripting"} -> Derived(e.coll, in)
    [] e.tag = "CaseTest"     -> WalkCaseTest(e, case)
    [] e.tag = "Aggref"       -> WalkAggref(e, glob, in)
    [] OTHER                  -> Fail

(* Inside a CASE with an argument every WHEN must still compare the CaseTest. *)
ComparesCaseTest(w) ==
  IsA(w, "Op") /\ Len(w.args) = 2 /\ IsA(strip_implicit_coercions(w.args[1]), "CaseTest")

(* What has to pass as well without being merged: the argument of a CASE and, *)
(* with its context, the conditions; a subscript.                             *)
Argument(e) == IF IsA(e, "Case") THEN e.arg ELSE NoExpr
Aside(e) ==
  CASE IsA(e, "Case")         -> [i \in DOMAIN e.whens |-> e.whens[i][1]]
    [] IsA(e, "Subscripting") -> <<e.index>>
    [] OTHER                  -> <<>>
AsideCase(e, case, arg) == IF IsA(e, "Case") THEN arg ELSE case
MergeAll(cs) ==
  LET upto[n \in 0 .. Len(cs)] == IF n = 0 THEN Empty ELSE Merge(upto[n - 1], cs[n])
  IN  upto[Len(cs)]

(* The context of e from those of its argument, of what is aside (in the *)
(* context AsideCase of a CASE) and of what is merged.                   *)
foreign_expr_walker(e, glob, case, arg, aside, merged) ==
  IF e = NoExpr THEN Empty
  ELSE Checked(/\ builtinType(exprType(e))
               /\ arg.ok /\ \A i \in DOMAIN aside : aside[i].ok
               /\ Argument(e) # NoExpr => \A i \in DOMAIN e.whens : ComparesCaseTest(e.whens[i][1]),
               WalkNode(e, MergeAll(merged), glob, case))

(* The walker is asked about relations of this wrapper, and the context of a *)
(* CASE is none or one that has passed.                                      *)
Globs   == [upper : BOOLEAN, relids : SUBSET Bases, fdw : {TRUE}]
Passing == [ok : {TRUE}, st : {NONE, SAFE, UNSAFE}, coll : {"none"} \cup {e.coll : e \in Expressions \ {NoExpr}}]
Cases   == {NoCtx} \cup Passing
ASSUME WalkAssumption ==
  \A e \in Expressions, glob \in Globs, case \in Cases :
    LET arg == Walk(Argument(e), glob, case) IN
    /\ Walk(e, glob, case) \in {Fail} \cup Passing
    /\ Walk(e, glob, case) =
         foreign_expr_walker(e, glob, case, arg,
                             [i \in DOMAIN Aside(e) |-> Walk(Aside(e)[i], glob, AsideCase(e, case, arg))],
                             [i \in DOMAIN Merged(e) |-> Walk(Merged(e)[i], glob, case)])

WalkList(es, glob, case) == MergeAll([i \in DOMAIN es |-> Walk(es[i], glob, case)])

(***************************************************************************)
(* What the planner asks.                                                  *)
(***************************************************************************)
Accepted(ctx) == ctx.ok /\ ctx.st # UNSAFE
is_foreign_expr(glob, e) ==
  /\ glob.fdw
  /\ Accepted(Walk(e, glob, NoCtx))
  /\ ~contain_mutable_functions(e)

(* Would the value of e have to be sent to DB2? *)
is_foreign_param(glob, e) == IsA(e, "Param") \/ (IsA(e, "Var") /\ e.varno \notin glob.relids)

classifyConditions(glob, conds) ==
  [remote |-> Only(conds, {c \in ToSet(conds) : is_foreign_expr(glob, c)}),
   local  |-> Only(conds, {c \in ToSet(conds) : ~is_foreign_expr(glob, c)})]
=============================================================================
