------------------------------ MODULE MCReads -------------------------------
(***************************************************************************)
(* Three rows of one field that is a number, null, a text or missing; a    *)
(* dozen rules that mix the row with one reference.                        *)
(***************************************************************************)
EXTENDS Reads

MCRowValues == {[a |-> Number(1)], [a |-> Number(2)], [a |-> Null], [b |-> Number(1)]}

A == RowRef("a")
Role == ReferenceRef("member", "role")
Level == ReferenceRef("member", "level")
One == Val(Number(1))
Two == Val(Number(2))
Admin == Func("eq", <<Role, Val(Text(1))>>)

MCRules ==
  {Val(True),
   Func("eq", <<A, One>>),
   Func("lte", <<A, Level>>),
   Func("not", <<Func("gt", <<A, Level>>)>>),
   Func("or", <<Admin, Func("not_eq", <<A, Two>>)>>),
   Func("and", <<Admin, Func("gt", <<Level, One>>), Func("gt", <<A, One>>)>>),
   Func("not", <<Func("and", <<Admin, Func("gte", <<A, Two>>)>>)>>),
   Func("not", <<Func("or", <<Func("eq", <<A, Val(Null)>>), Func("lt", <<A, Level>>)>>)>>),
   Func("and", <<Func("in", <<A, Val(List({Number(1), Number(2)}))>>), Func("not", <<Admin>>)>>),
   Func("not", <<Func("in", <<A, Val(List({Number(2)}))>>)>>),
   Func("eq", <<Level, A>>)}

MCReferences ==
  {[member |-> [role |-> Text(1), level |-> Number(1)]],
   [member |-> [role |-> Text(1), level |-> Number(2)]],
   [member |-> [role |-> Null, level |-> Number(1)]],
   [member |-> [gone |-> Null]]}

NoFilters == <<>>
Query(filters, where, direction) ==
  [filters |-> filters, where |-> where, direction |-> direction]
MCQueries ==
  {Query(NoFilters, NoPredicate, "asc"),
   Query(<<Comparison("a", "ne", Number(2))>>, NoPredicate, "desc"),
   Query(NoFilters, Func("not", <<Func("not_lte", <<A, One>>)>>), "asc"),
   Query(NoFilters, Func("or", <<Func("eq", <<A, Val(Null)>>), Func("eq", <<A, Two>>)>>), "desc")}
=============================================================================
