----------------------------- MODULE Predicates -----------------------------
(***************************************************************************)
(* Access rules and query predicates, which four pieces of code evaluate:  *)
(*   packages/server/src/access-expression.ts   reduces a rule             *)
(*   packages/transport/src/expression.ts       compiles what is left      *)
(*   packages/transport/src/predicate-match.ts  matches it with a row      *)
(*   packages/server/src/sqlite-json-read.ts    turns it into SQL          *)
(* and, for live queries, packages/tanstack-db/src/read-query.ts and       *)
(* subsets.ts.  Operators only; module Reads is about their agreement.     *)
(***************************************************************************)
EXTENDS Expressions

-----------------------------------------------------------------------------
\* reduceAccessExpression: references are replaced by what they hold now.

ReduceRef(e, references) ==
  IF e.source # "reference" THEN e
  ELSE IF e.name \in DOMAIN references THEN Val(ValueAt(references[e.name], e.path))
  ELSE Val(Missing)

NotVal(e) == ~IsVal(e)

ReduceAnd(args) ==
  LET remaining == SelectSeq(args, NotVal) IN
  IF \E i \in DOMAIN args : IsVal(args[i]) /\ ~IsTrue(args[i]) THEN Val(False)
  ELSE IF remaining = <<>> THEN Val(True)
  ELSE IF Len(remaining) = 1 THEN remaining[1]
  ELSE Func("and", remaining)

ReduceOr(args) ==
  LET remaining == SelectSeq(args, NotVal) IN
  IF \E i \in DOMAIN args : IsTrue(args[i]) THEN Val(True)
  ELSE IF remaining = <<>> THEN Val(False)
  ELSE IF Len(remaining) = 1 THEN remaining[1]
  ELSE Func("or", remaining)

ReduceNot(arg) == IF IsVal(arg) THEN Val(Boolean(~IsTrue(arg))) ELSE Func("not", <<arg>>)

\* evaluate and compare: a function whose arguments are all values.
Evaluate(name, args) == Boolean(Compare(RuleOps[name], args[1].value, args[2].value))

RECURSIVE Reduce(_, _)
Reduce(e, references) ==
  IF IsVal(e) THEN e
  ELSE IF e.type = "ref" THEN ReduceRef(e, references)
  ELSE LET args == [i \in DOMAIN e.args |-> Reduce(e.args[i], references)] IN
       CASE e.name = "and" -> ReduceAnd(args)
         [] e.name = "or" -> ReduceOr(args)
         [] e.name = "not" -> ReduceNot(args[1])
         [] OTHER -> IF \A i \in DOMAIN args : IsVal(args[i])
                     THEN Val(Evaluate(e.name, args))
                     ELSE Func(e.name, args)

\* Mutant of Dependencies: what is reduced to a value leaves no dependency.
RECURSIVE DependenciesLeft(_, _)
DependenciesLeft(e, references) ==
  IF e.type = "func" /\ ~IsVal(Reduce(e, references))
  THEN UNION {DependenciesLeft(e.args[i], references) : i \in DOMAIN e.args}
  ELSE IF e.type = "ref" /\ e.source = "reference" /\ e.name \in DOMAIN references
       THEN {[name |-> e.name, field |-> e.path]} ELSE {}

\* Every argument is reduced, so every reference of the rule is recorded,
\* also one whose value does not matter at the moment.
RECURSIVE Dependencies(_, _)
Dependencies(e, references) ==
  IF IsVal(e) THEN {}
  ELSE IF e.type = "ref"
       THEN IF e.source = "reference" /\ e.name \in DOMAIN references
            THEN {[name |-> e.name, field |-> e.path]} ELSE {}
  ELSE UNION {Dependencies(e.args[i], references) : i \in DOMAIN e.args}

-----------------------------------------------------------------------------
\* compileReadExpression and toReadPredicate: negations move to comparisons.

\* Mutant of NegateOperator: the boundary stays on the wrong side.
NegateOperatorStrict(op) ==
  CASE op = "gt" -> "lt" [] op = "lt" -> "gt" [] op = "gte" -> "lte"
    [] op = "lte" -> "gte" [] op = "eq" -> "ne" [] op = "ne" -> "eq"

NegateOperator(op) ==
  CASE op = "eq" -> "ne" [] op = "ne" -> "eq"
    [] op = "gt" -> "lte" [] op = "gte" -> "lt"
    [] op = "lt" -> "gte" [] op = "lte" -> "gt"

RECURSIVE NegatePredicate(_)
NegatePredicate(p) ==
  CASE p.type = "thrown" -> Thrown
    [] p.type = "comparison" -> IF p.op = "in" THEN Thrown
                                ELSE [p EXCEPT !.op = NegateOperator(p.op)]
    [] OTHER -> LET ps == [i \in DOMAIN p.predicates |-> NegatePredicate(p.predicates[i])] IN
                IF \E i \in DOMAIN ps : ps[i] = Thrown THEN Thrown
                ELSE Compound(IF p.type = "and" THEN "or" ELSE "and", ps)

ComparisonFromExpression(e, ops) ==
  IF e.name \in DOMAIN ops /\ e.args[1].type = "ref" /\ IsVal(e.args[2])
  THEN Comparison(e.args[1].path, ops[e.name], e.args[2].value)
  ELSE Thrown

RECURSIVE Compile(_, _)
Compile(e, ops) ==
  IF e.type # "func" THEN Thrown
  ELSE IF e.name \in {"and", "or"}
       THEN LET ps == [i \in DOMAIN e.args |-> Compile(e.args[i], ops)] IN
            IF \E i \in DOMAIN ps : ps[i] = Thrown THEN Thrown ELSE Compound(e.name, ps)
  ELSE IF e.name = "not" THEN NegatePredicate(Compile(e.args[1], ops))
  ELSE ComparisonFromExpression(e, ops)

\* reduceAccessExpression, with the decision it makes.
AccessDecision(rule, references) ==
  LET reduced == Reduce(rule, references) IN
  IF IsVal(reduced)
  THEN [allow |-> reduced.value = True, predicate |-> NoPredicate,
        dependencies |-> Dependencies(rule, references)]
  ELSE [allow |-> Compile(reduced, RuleOps) # Thrown, predicate |-> Compile(reduced, RuleOps),
        dependencies |-> Dependencies(rule, references)]

-----------------------------------------------------------------------------
\* matchesReadPredicate of the transport and matchesPredicate of subsets.ts.

RECURSIVE MatchesReadPredicate(_, _)
MatchesReadPredicate(row, p) ==
  CASE p.type = "none" -> TRUE
    [] p.type = "thrown" -> FALSE
    [] p.type = "comparison" -> Compare(p.op, ValueAt(row, p.field), p.value)
    [] p.type = "and" -> \A i \in DOMAIN p.predicates : MatchesReadPredicate(row, p.predicates[i])
    [] p.type = "or" -> \E i \in DOMAIN p.predicates : MatchesReadPredicate(row, p.predicates[i])

\* SQLite's answer to a condition, in order: no < unknown < yes.
No == 0
Unknown == 1
Yes == 2
SqlBoolean(b) == IF b THEN Yes ELSE No

\* json_extract and toSqlJsonValue: a missing field is NULL, a boolean 0 or 1.
SqlValue(v) ==
  CASE v.type = "undefined" -> Null
    [] v.type = "boolean" -> Number(v.rank)
    [] OTHER -> v

\* The order of SQLite over values of any type: NULL, numbers, text.
SqlLess(l, r) ==
  LET class == [null |-> 0, number |-> 1, string |-> 2] IN
  \/ class[l.type] < class[r.type]
  \/ class[l.type] = class[r.type] /\ l.rank < r.rank

SqlCompare(op, l, r) ==
  IF l = Null \/ r = Null THEN Unknown
  ELSE SqlBoolean(CASE op = "eq" -> l = r
                    [] op = "ne" -> l # r
                    [] op = "gt" -> SqlLess(r, l)
                    [] op = "gte" -> ~SqlLess(l, r)
                    [] op = "lt" -> SqlLess(l, r)
                    [] op = "lte" -> ~SqlLess(r, l))

\* Mutant of FilterSql: a comparison with null is written with = and !=.
FilterSqlNoIs(field, op, value) ==
  IF op = "in" THEN Max({SqlCompare("eq", field, SqlValue(v)) : v \in value.items})
  ELSE SqlCompare(op, field, SqlValue(value))

FilterSql(field, op, value) ==
  IF op = "in" THEN Max({SqlCompare("eq", field, SqlValue(v)) : v \in value.items})
  ELSE IF SqlValue(value) = Null /\ op = "eq" THEN SqlBoolean(field = Null)
  ELSE IF SqlValue(value) = Null /\ op = "ne" THEN SqlBoolean(field # Null)
  ELSE SqlCompare(op, field, SqlValue(value))

RECURSIVE PredicateSql(_, _)
PredicateSql(row, p) ==
  CASE p.type = "none" -> Yes
    [] p.type = "comparison" -> FilterSql(SqlValue(ValueAt(row, p.field)), p.op, p.value)
    [] p.type = "and" -> Min({PredicateSql(row, p.predicates[i]) : i \in DOMAIN p.predicates})
    [] p.type = "or" -> Max({PredicateSql(row, p.predicates[i]) : i \in DOMAIN p.predicates})

SqlSelects(row, p) == PredicateSql(row, p) = Yes

\* toSqlJsonValue and filterSql refuse what SQLite cannot bind: undefined, an
\* array outside of "in", nothing or an empty array in it.
Binds(op, value) ==
  IF op = "in"
  THEN value.type = "array" /\ value.items # {} /\ Missing \notin value.items
  ELSE value.type \notin {"array", "undefined"}

RECURSIVE SqlBinds(_)
SqlBinds(p) ==
  CASE p.type = "thrown" -> FALSE
    [] p.type = "none" -> TRUE
    [] p.type = "comparison" -> Binds(p.op, p.value)
    [] OTHER -> \A i \in DOMAIN p.predicates : SqlBinds(p.predicates[i])

CombinePredicates(left, right) ==
  CASE Thrown \in {left, right} -> Thrown
    [] left = NoPredicate -> right
    [] right = NoPredicate -> left
    [] OTHER -> Compound("and", <<left, right>>)

-----------------------------------------------------------------------------
(***************************************************************************)
(* What a rule means: its value at a row and at the references, computed   *)
(* directly.  The row is shown when that value is true.                    *)
(***************************************************************************)
RECURSIVE Meaning(_, _, _)
Meaning(e, row, references) ==
  CASE e.type = "val" -> e.value
    [] e.type = "ref" /\ e.source = "row" -> ValueAt(row, e.path)
    [] e.type = "ref" /\ e.source # "row" -> ReduceRef(e, references).value
    [] OTHER ->
       LET Arg(i) == Meaning(e.args[i], row, references) IN
       CASE e.name = "and" -> Boolean(\A i \in DOMAIN e.args : Arg(i) = True)
         [] e.name = "or" -> Boolean(\E i \in DOMAIN e.args : Arg(i) = True)
         [] e.name = "not" -> Boolean(Arg(1) # True)
         [] OTHER -> Boolean(Compare(QueryOps[e.name], Arg(1), Arg(2)))

Allows(rule, row, references) == Meaning(rule, row, references) = True

(***************************************************************************)
(* A row is typed for a predicate when every field that the predicate      *)
(* compares has the type of what it is compared with; equality with null   *)
(* is asked of any field that is there.                                    *)
(***************************************************************************)
SameType(v, op, literal) ==
  CASE literal = Missing -> FALSE
    [] literal = Null -> v # Missing /\ op \in {"eq", "ne"}
    [] literal.type = "array" -> \A item \in literal.items : v.type = item.type
    [] OTHER -> v.type = literal.type

RECURSIVE TypedFor(_, _)
TypedFor(row, p) ==
  CASE p.type = "comparison" -> SameType(ValueAt(row, p.field), p.op, p.value)
    [] p.type \in {"and", "or"} -> \A i \in DOMAIN p.predicates : TypedFor(row, p.predicates[i])
    [] OTHER -> TRUE
=============================================================================
