------------------------------ MODULE PgNodes ------------------------------
(***************************************************************************)
(* The expression nodes of PostgreSQL that db2_fdw looks at, as records.   *)
(* PostgreSQL is not part of the repository: the fields are those that the *)
(* walker and the deparser read.  A type is named by a string, a collation *)
(* is "none", "default" or another name, a constant is a sequence of texts *)
(* (one for a scalar, any number for an array).                            *)
(***************************************************************************)
EXTENDS Integers, Sequences, SequencesExt, Lists

CONSTANTS Expressions,                    \* the expressions of the queries, with all below them
          Nodes(_),                       \* what the tree walks of PostgreSQL compute:
          pull_var_and_aggregates(_),     \* any solutions of the equations in the assumption
          strip_relabel(_)

NoExpr == [tag |-> "NULL"]
Bases == 1..2                             \* the tables of a query

(* attno: -1 ctid, -6 tableoid, 0 the whole row, above 0 a column *)
Var(varno, attno, type, coll) ==
  [tag |-> "Var", varno |-> varno, attno |-> attno, type |-> type, coll |-> coll]
(* builtin tells for a constant of a reg* type whether it names an object of PostgreSQL itself *)
Const(type, coll, null, val, builtin) ==
  [tag |-> "Const", type |-> type, coll |-> coll, null |-> null, val |-> val, builtin |-> builtin]
(* kind: "extern", "exec" or "multiexpr" *)
Param(kind, id, type, coll) ==
  [tag |-> "Param", kind |-> kind, id |-> id, type |-> type, coll |-> coll]
(* form: "implicit" for an implicit cast, "call" for every other format *)
Func(name, form, args, builtin, mutable, type, incoll, coll) ==
  [tag |-> "Func", name |-> name, form |-> form, args |-> args, builtin |-> builtin,
   mutable |-> mutable, type |-> type, incoll |-> incoll, coll |-> coll]
(* tag "Op", "Distinct" or "NullIf"; left and right are the operator's declared operand types *)
OpNode(tag, name, left, right, args, builtin, type, incoll) ==
  [tag |-> tag, name |-> name, left |-> left, right |-> right, args |-> args, builtin |-> builtin,
   type |-> type, incoll |-> incoll, coll |-> "none"]
ScalarArray(name, useOr, left, args, builtin, incoll) ==
  [tag |-> "ScalarArray", name |-> name, useOr |-> useOr, left |-> left, args |-> args,
   builtin |-> builtin, type |-> "bool", incoll |-> incoll, coll |-> "none"]
Bool(name, args) == [tag |-> "Bool", name |-> name, args |-> args, type |-> "bool", coll |-> "none"]
NullTest(isNull, arg) ==
  [tag |-> "NullTest", isNull |-> isNull, args |-> <<arg>>, type |-> "bool", coll |-> "none"]
(* Relabel, ArrayCoerce, CoerceViaIO and CoerceToDomain have one argument; *)
(* relabel says that an ArrayCoerce only relabels its elements             *)
Coerce(tag, arg, relabel, type, coll) ==
  [tag |-> tag, args |-> <<arg>>, relabel |-> relabel, type |-> type, coll |-> coll]
(* whens is a sequence of pairs of a condition and a result *)
CaseNode(arg, whens, default, type, coll) ==
  [tag |-> "Case", arg |-> arg, whens |-> whens, default |-> default, type |-> type, coll |-> coll]
CaseTest(type, coll) == [tag |-> "CaseTest", type |-> type, coll |-> coll]
(* tag "Array" or "Coalesce" *)
ListNode(tag, args, type, coll) == [tag |-> tag, args |-> args, type |-> type, coll |-> coll]
Subscripting(arg, index, type, coll) ==
  [tag |-> "Subscripting", args |-> <<arg>>, index |-> index, type |-> type, coll |-> coll]
SQLValue(name, type) == [tag |-> "SQLValue", name |-> name, type |-> type, coll |-> "none"]
(* order: for every sort clause the argument it names, whether its operator is *)
(* shippable and whether it sorts downwards; junk: the arguments that are only *)
(* there for the sort; split: not a whole aggregate                            *)
Aggref(name, kind, args, junk, direct, order, distinct, filter, star, split, builtin, type, incoll, coll) ==
  [tag |-> "Aggref", name |-> name, kind |-> kind, args |-> args, junk |-> junk, direct |-> direct,
   order |-> order, distinct |-> distinct, filter |-> filter, star |-> star, split |-> split,
   builtin |-> builtin, type |-> type, incoll |-> incoll, coll |-> coll]

(***************************************************************************)
(* The expressions directly below a node and all nodes of an expression,   *)
(* both in the order in which PostgreSQL's expression walker meets them.   *)
(***************************************************************************)
Children(e) ==
  CASE e.tag \in {"Func", "Op", "Distinct", "NullIf", "ScalarArray", "Bool", "NullTest", "Relabel",
                  "ArrayCoerce", "CoerceViaIO", "CoerceToDomain", "Array", "Coalesce"} -> e.args
    [] e.tag = "Subscripting" -> <<e.index, e.args[1]>>
    [] e.tag = "Case" -> <<e.arg>> \o Concat(e.whens) \o <<e.default>>
    [] e.tag = "Aggref" -> e.direct \o e.args \o <<e.filter>>
    [] OTHER -> <<>>

(* below: what the same operator computes for the children, or for the argument *)
NodesOf(e, below) == IF e = NoExpr THEN <<>> ELSE <<e>> \o Concat(below)

IsA(e, tag) == e.tag = tag
exprType(e) == e.type
Has(e, Test(_)) == \E i \in DOMAIN Nodes(e) : Test(Nodes(e)[i])

pull_var_clause(e) == Only(Nodes(e), {n \in ToSet(Nodes(e)) : IsA(n, "Var")})
pull_varnos(e) == {n.varno : n \in ToSet(pull_var_clause(e))}
(* Aggregates are taken as a whole, and the columns outside of them. *)
VarsAndAggregates(e, below) ==
  IF e = NoExpr THEN <<>>
  ELSE IF e.tag \in {"Var", "Aggref"} THEN <<e>>
  ELSE Concat(below)

contain_mutable_functions(e) ==
  Has(e, LAMBDA n : (IsA(n, "Func") /\ n.mutable) \/ IsA(n, "SQLValue"))
strip_implicit_coercions(e) ==
  IF e.tag \in {"Relabel", "CoerceViaIO"} \/ (e.tag = "Func" /\ e.form = "implicit") THEN e.args[1] ELSE e
StripRelabel(e, below) == IF IsA(e, "Relabel") THEN below ELSE e

(* Entries that are not there yet are put at the end of a target list. *)
add_to_flat_tlist(tlist, es) == tlist \o Picked(es, {k \in FirstTimes(es) : es[k] \notin ToSet(tlist)})

(* What PostgreSQL sees to when it builds a node. *)
AggregateFormed(e) ==
  /\ e.direct \in Seq(Expressions) /\ e.args \in Seq(Expressions)
  /\ IsList(e.order) /\ \A k \in DOMAIN e.order : e.order[k].arg \in DOMAIN e.args
  /\ e.name \in {"percentile_cont", "percentile_disc"} /\ e.kind = "o" => Len(e.direct) = 1 /\ Len(e.order) = 1
WellFormed(e) ==
  /\ IsA(e, "Var") => e.attno \in Int
  /\ IsA(e, "Const") => e = Const(e.type, e.coll, e.null, e.val, e.builtin) /\ e.null \in BOOLEAN /\ IsList(e.val)
  /\ IsA(e, "Func") /\ e.form = "implicit" => e.args # <<>>
  /\ IsA(e, "Case") => /\ e.arg \in Expressions /\ e.default \in Expressions
                        /\ e.whens \in Seq(Expressions \X Expressions)
  /\ IsA(e, "Subscripting") => e.args \in Seq(Expressions) /\ Len(e.args) = 1
  /\ e.tag \in {"Relabel", "ArrayCoerce", "CoerceViaIO", "CoerceToDomain", "NullTest"} => Len(e.args) = 1
  /\ IsA(e, "NullTest") => e.isNull \in BOOLEAN
  /\ IsA(e, "ScalarArray") => Len(e.args) = 2
  /\ IsA(e, "Bool") => e.name \in {"AND", "OR", "NOT"}
  /\ IsA(e, "Aggref") => AggregateFormed(e)

(* An expression has less below it than it has itself. *)
ASSUME ExpressionsAssumption ==
  /\ NoExpr \in Expressions
  /\ \A e \in Expressions :
    /\ WellFormed(e)
    /\ Nodes(e) \in Seq(Expressions) /\ Nodes(e) = NodesOf(e, [i \in DOMAIN Children(e) |-> Nodes(Children(e)[i])])
    /\ e # NoExpr => Children(e) \in Seq(Expressions)
    /\ pull_var_and_aggregates(e) =
         VarsAndAggregates(e, [i \in DOMAIN Children(e) |-> pull_var_and_aggregates(Children(e)[i])])
    /\ e # NoExpr => strip_relabel(e) = StripRelabel(e, strip_relabel(e.args[1]))
=============================================================================
