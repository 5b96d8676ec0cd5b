------------------------------ MODULE Answers ------------------------------
(***************************************************************************)
(* What an expression means in PostgreSQL, what its text means in DB2, and *)
(* that the plans of module Planner keep the one to the other.             *)
(***************************************************************************)
EXTENDS PlannerInv

CONSTANTS EvalPg(_, _), EvalDb2(_, _)     \* what PgValue computes for an expression, Db2Value for a text

(***************************************************************************)
(* Three-valued evaluation, in PostgreSQL and in DB2.  Values are numbers, *)
(* truth is 1 and 0; a function none of whose details matter is any        *)
(* one-to-one combination of its arguments.                                *)
(***************************************************************************)
Null == -1
Code == [v \in {"0", "1", "2", "x", "y", "NULL"} |->
           CASE v = "0" -> 0 [] v = "1" -> 1 [] v = "2" -> 2 [] v = "x" -> 11 [] v = "y" -> 12 [] v = "NULL" -> Null]
Truth(b) == IF b THEN 1 ELSE 0
Strict(vs, v) == IF \E k \in DOMAIN vs : vs[k] = Null THEN Null ELSE v
Or3(vs)  == IF \E k \in DOMAIN vs : vs[k] = 1 THEN 1 ELSE Strict(vs, 0)
Not3(v)  == IF v = Null THEN Null ELSE 1 - v
And3(vs) == Not3(Or3([k \in DOMAIN vs |-> Not3(vs[k])]))
Opaque(vs) == FoldLeft(LAMBDA acc, v : acc * 31 + v + 2, 100, vs)
FirstNonNull(vs) == IF \A k \in DOMAIN vs : vs[k] = Null THEN Null ELSE SelectSeq(vs, LAMBDA v : v # Null)[1]

Applied(name, vs) ==
  CASE name = "="  -> Strict(vs, Truth(vs[1] = vs[2]))
    [] name = "<>" -> Strict(vs, Truth(vs[1] # vs[2]))
    [] name = "<"  -> Strict(vs, Truth(vs[1] < vs[2]))
    [] name = ">"  -> Strict(vs, Truth(vs[1] > vs[2]))
    [] name = "+"  -> Strict(vs, vs[1] + vs[2])
    [] name = "-"  -> Strict(vs, IF Len(vs) = 1 THEN 0 - vs[1] ELSE vs[1] - vs[2])
    [] name = "*"  -> Strict(vs, vs[1] * vs[2])
    [] name = "AND" -> And3(vs)
    [] name = "OR"  -> Or3(vs)
    [] name = "NOT" -> Not3(vs[1])
    [] OTHER -> Strict(vs, Opaque(vs))

(* What a node computes from the values vs of the expressions below it; of a *)
(* list the values of its elements come after the left side, a CASE has its  *)
(* argument, the conditions and results in turn, and the default.            *)
Members(arr) == IF IsA(arr, "Const") THEN [k \in DOMAIN arr.val |-> Code[arr.val[k]]] ELSE <<>>
Quantified(e, left, elems) ==
  LET tests == [k \in DOMAIN elems |-> Applied(e.name, <<left, elems[k]>>)]
  IN IF e.useOr THEN Or3(tests) ELSE And3(tests)
Chosen(vs, hit(_)) ==
  IF \E k \in DOMAIN vs : k % 2 = 1 /\ k < Len(vs) /\ hit(vs[k])
    THEN vs[1 + Min({k \in DOMAIN vs : k % 2 = 1 /\ k < Len(vs) /\ hit(vs[k])})] ELSE Last(vs)
NullIf(vs) == IF vs[1] # Null /\ vs[1] = vs[2] THEN Null ELSE vs[1]

PgValue(e, vs, env) ==
  CASE e = NoExpr -> Null
    [] e.tag \in {"Var", "Param"} -> env[e]
    [] IsA(e, "Const")     -> IF e.null THEN Null ELSE Code[e.val[1]]
    [] IsA(e, "Func")      -> IF e.form = "implicit" THEN vs[1] ELSE Applied(e.name, vs)
    [] e.tag \in {"Op", "Bool"} -> Applied(e.name, vs)
    [] IsA(e, "Distinct")  -> Truth(vs[1] # vs[2])
    [] IsA(e, "NullIf")    -> NullIf(vs)
    [] IsA(e, "Coalesce")  -> FirstNonNull(vs)
    [] IsA(e, "NullTest")  -> Truth((vs[1] = Null) = e.isNull)
    [] e.tag \in {"Relabel", "CoerceToDomain"} -> vs[1]
    [] IsA(e, "ScalarArray") -> IF IsA(Last(e.args), "Const") /\ Last(e.args).null THEN Null
                                ELSE Quantified(e, vs[1], Members(Last(e.args)) \o Tail(vs))
    [] IsA(e, "Case")      -> IF e.arg = NoExpr THEN Chosen(Tail(vs), LAMBDA v : v = 1)
                              ELSE Chosen(Tail(vs), LAMBDA v : Applied("=", <<vs[1], v>>) = 1)
    [] OTHER -> Null     \* not asked for
Inputs(e) ==
  CASE IsA(e, "ScalarArray") -> <<e.args[1]>> \o Elements(Last(e.args))
    [] IsA(e, "Case") -> <<e.arg>> \o Concat([i \in DOMAIN e.whens |-> <<When(e, e.whens[i]), e.whens[i][2]>>]) \o <<e.default>>
    [] OTHER -> Children(e)

(* DB2 takes the arguments of TRANSLATE as string, to, from; a CASE is its *)
(* conditions and results in turn, and the default if there is one.        *)
IsIn(left, elems) == Or3([k \in DOMAIN elems |-> Applied("=", <<left, elems[k]>>)])
Db2Value(t, vs, env) ==
  CASE t.kw \in {"col", "?", ":p"} -> env[t.of]
    [] t.kw = "lit"  -> Code[t.of.val[1]]
    [] t.kw = "NULL" -> Null
    [] t.kw = "IN"   -> IsIn(vs[1], Tail(vs))
    [] t.kw = "NOT IN" -> Not3(IsIn(vs[1], Tail(vs)))
    [] t.kw = "IS DISTINCT FROM" -> Truth(vs[1] # vs[2])
    [] t.kw = "NULLIF"   -> NullIf(vs)
    [] t.kw = "COALESCE" -> FirstNonNull(vs)
    [] t.kw = "IS NULL"     -> Truth(vs[1] = Null)
    [] t.kw = "IS NOT NULL" -> Truth(vs[1] # Null)
    [] t.kw = "CASE" -> Chosen(IF Len(vs) % 2 = 1 THEN vs ELSE Append(vs, Null), LAMBDA v : v = 1)
    [] t.kw = "TRANSLATE" -> Applied("translate", <<vs[1], vs[3], vs[2]>>)
    [] OTHER -> Applied(t.kw, vs)

(* The rows and parameters that an expression can tell apart. *)
Envs(e) == [{n \in ToSet(Nodes(e)) : n.tag \in {"Var", "Param"}} -> {Null, 1, 11}]

(* Aggregates have no value for a single row, system columns none at all. *)
RowValued(e) == ~Has(e, LAMBDA n : n.tag \in {"Aggref", "CoerceViaIO", "SQLValue"} \/ (IsA(n, "Var") /\ n.attno <= 0))
ASSUME EvalAssumption ==
  \A e \in Expressions, relids \in SUBSET Bases : RowValued(e) /\ ~HasHole(Render(e, relids).txt) =>
    \A env \in Envs(e) :
      /\ \A n \in ToSet(Nodes(e)) \cup {NoExpr} : EvalPg(n, env) = PgValue(n, [k \in DOMAIN Inputs(n) |-> EvalPg(Inputs(n)[k], env)], env)
      /\ \A t \in ToSet(Flat(Render(e, relids).txt)) : EvalDb2(t, env) = Db2Value(t, [k \in DOMAIN t.parts |-> EvalDb2(t.parts[k], env)], env)

(* A condition or value that is sent means in DB2 what it means in PostgreSQL, *)
(* nulls included: what the translation of operators, IN lists, CASE and       *)
(* function arguments must keep.                                               *)
AnswersSurvive ==
  plan.made => \A pair \in ToSet(Sent) :
    Whole(pair) /\ RowValued(pair.expr) => \A env \in Envs(pair.expr) : EvalPg(pair.expr, env) = EvalDb2(pair.txt, env)
=============================================================================
