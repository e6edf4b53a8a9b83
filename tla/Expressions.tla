---------------------------- MODULE Expressions -----------------------------
(***************************************************************************)
(* The values, expressions and predicates that access rules and queries    *)
(* are made of, and the comparison of two values:                          *)
(*   packages/transport/src/expression.ts       builders and operators     *)
(*   packages/transport/src/predicate-match.ts  comparisons                *)
(***************************************************************************)
EXTENDS Integers, Sequences, FiniteSets, FiniteSetsExt, TLC

(***************************************************************************)
(* JSON values.  A scalar has a type and a rank within its type, so that   *)
(* === is equality.  A missing field is JavaScript's undefined.            *)
(***************************************************************************)
Missing == [type |-> "undefined", rank |-> 0]
Null == [type |-> "null", rank |-> 0]
Number(n) == [type |-> "number", rank |-> n]
Text(n) == [type |-> "string", rank |-> n]
True == [type |-> "boolean", rank |-> 1]
False == [type |-> "boolean", rank |-> 0]
List(values) == [type |-> "array", items |-> values]

Boolean(b) == IF b THEN True ELSE False

(***************************************************************************)
(* Expressions, as the builders of expression.ts make them.  A reference   *)
(* is a row of another collection that a rule names.                       *)
(***************************************************************************)
Val(v) == [type |-> "val", value |-> v]
RowRef(f) == [type |-> "ref", source |-> "row", path |-> f]
ReferenceRef(n, f) == [type |-> "ref", source |-> "reference", name |-> n, path |-> f]
Func(n, args) == [type |-> "func", name |-> n, args |-> args]

IsVal(e) == e.type = "val"
IsTrue(e) == IsVal(e) /\ e.value = True

Comparison(f, op, v) == [type |-> "comparison", field |-> f, op |-> op, value |-> v]
Compound(type, ps) == [type |-> type, predicates |-> ps]
NoPredicate == [type |-> "none"]
Thrown == [type |-> "thrown"]     \* the code throws instead of returning

ValueAt(row, f) == IF f \in DOMAIN row THEN row[f] ELSE Missing

(***************************************************************************)
(* The comparisons of JavaScript: evaluate, matchesComparison and          *)
(* matchesFilter agree on them, compareValues orders like with like only.  *)
(***************************************************************************)
Ordered(l, r) == l.type = r.type /\ l.type \in {"number", "string"}

Compare(op, l, r) ==
  CASE op = "eq" -> l = r
    [] op = "ne" -> l # r
    [] op = "gt" -> Ordered(l, r) /\ l.rank > r.rank
    [] op = "gte" -> Ordered(l, r) /\ l.rank >= r.rank
    [] op = "lt" -> Ordered(l, r) /\ l.rank < r.rank
    [] op = "lte" -> Ordered(l, r) /\ l.rank <= r.rank
    [] op = "in" -> r.type = "array" /\ l \in r.items

\* toReadFilterOperator of expression.ts, and of read-query.ts.
RuleOps == [n \in {"eq", "gt", "gte", "lt", "lte", "in"} |-> n] @@ ("not_eq" :> "ne")
QueryOps == RuleOps @@ ("not_gt" :> "lte") @@ ("not_gte" :> "lt")
                    @@ ("not_lt" :> "gte") @@ ("not_lte" :> "gt")
=============================================================================
