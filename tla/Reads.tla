------------------------------- MODULE Reads --------------------------------
(***************************************************************************)
(* A live query reads an ordered collection in pages, through the access   *)
(* rule of the shard, while rows are written:                              *)
(*   packages/tanstack-db/src/read-query.ts      query and cursor          *)
(*   packages/server/src/access.ts               the rule joins the query  *)
(*   packages/server/src/sqlite-json-read.ts     the SELECT of a page      *)
(*   packages/tanstack-db/src/subsets.ts         which rows it tracks      *)
(***************************************************************************)
EXTENDS Predicates, SequencesExt

CONSTANTS Keys,          \* keys of rows, in the order of the column key
          NoRow,
          RowValues,     \* the rows that are written: field |-> value
          Rules,         \* the access rules, as expressions
          References,    \* what the rule may find: name |-> row
          Queries,       \* [filters, where, direction]: the live queries
          OrderField,    \* the field of orderBy
          PageSize,      \* limit of the live query
          DefaultLimit,  \* limit of a SELECT without one, 1000 in the code
          MaxWrites      \* bounds the writes between the pages

ASSUME ReadsAssumption ==
  /\ Keys \subseteq Nat
  /\ NoRow \notin RowValues
  /\ {PageSize, DefaultLimit, MaxWrites} \subseteq Nat

NotRead == [type |-> "not read"]

VARIABLES rule, references, query,
          table,    \* the rows of the shard: key |-> row or NoRow
          pages,    \* the keys of the rows that were answered so far
          last,     \* the value of OrderField the next page starts after
          written   \* keys written since the first page was read

choice == <<rule, references, query>>
vars == <<rule, references, query, table, pages, last, written>>

-----------------------------------------------------------------------------
\* toReadPredicate of read-query.ts, which knows more operators than a rule may
\* use and compiles and negates the same way.
ToReadPredicate(e) == Compile(e, QueryOps)

\* readQueryForSubset: the predicate of a live query, if it has one.
WherePredicate(q) == IF q.where = NoPredicate THEN NoPredicate ELSE ToReadPredicate(q.where)

\* whereCurrent and whereFrom, for one column, as the query engine sends them.
WhereCurrent(v) == Func("eq", <<RowRef(OrderField), Val(v)>>)
WhereFrom(v) ==
  Func(IF query.direction = "asc" THEN "gt" ELSE "lt", <<RowRef(OrderField), Val(v)>>)

\* authorizeReadQuery: the rule's predicate before that of the query.
Authorized ==
  LET decision == AccessDecision(rule, references) IN
  IF ~decision.allow THEN Thrown
  ELSE CombinePredicates(decision.predicate, WherePredicate(query))

Selected(predicate) ==
  {k \in Keys : /\ table[k] # NoRow
                /\ SqlSelects(table[k], predicate)
                /\ \A i \in DOMAIN query.filters : SqlSelects(table[k], query.filters[i])}

\* ORDER BY json_extract(value, OrderField) direction, key.
OrderValue(k) == SqlValue(ValueAt(table[k], OrderField))
Before(v, w) == IF query.direction = "asc" THEN SqlLess(v, w) ELSE SqlLess(w, v)
RowBefore(j, k) ==
  \/ Before(OrderValue(j), OrderValue(k))
  \/ OrderValue(j) = OrderValue(k) /\ j < k

\* The first rows of a SELECT with ORDER BY and LIMIT.
SelectRows(predicate, limit) ==
  LET rows == Selected(predicate) IN
  {k \in rows : Cardinality({j \in rows : RowBefore(j, k)}) < limit}

\* Mutant of ReadPage: the rows that tie with the last one are left out.
ReadPageFrom ==
  IF last = NotRead THEN SelectRows(Authorized, PageSize)
  ELSE SelectRows(CombinePredicates(Authorized, ToReadPredicate(WhereFrom(last))), PageSize)

\* readSQLiteJsonRows: the rows at the cursor, all of them, and a page of
\* those after it.
ReadPage ==
  IF last = NotRead THEN SelectRows(Authorized, PageSize)
  ELSE LET Window(where) == CombinePredicates(Authorized, ToReadPredicate(where)) IN
       SelectRows(Window(WhereCurrent(last)), DefaultLimit)
         \cup SelectRows(Window(WhereFrom(last)), PageSize)

-----------------------------------------------------------------------------
Init ==
  /\ rule \in Rules /\ references \in References /\ query \in Queries
  /\ table \in [Keys -> RowValues \cup {NoRow}]
  /\ pages = {} /\ last = NotRead /\ written = {}

\* One request of the live query.  An expression that cannot be compiled or
\* bound rejects it, and a rule that refuses answers no rows.
Read ==
  /\ SqlBinds(Authorized)
  /\ ReadPage # {}
  /\ pages' = pages \cup ReadPage
  /\ last' = OrderValue(CHOOSE k \in ReadPage : \A j \in ReadPage \ {k} : RowBefore(j, k))
  /\ UNCHANGED <<choice, table, written>>

Write ==
  /\ pages # {}
  /\ Cardinality(written) < MaxWrites
  /\ \E k \in Keys, row \in RowValues \cup {NoRow} :
       /\ row # table[k]
       /\ table' = [table EXCEPT ![k] = row]
       /\ written' = written \cup {k}
  /\ UNCHANGED <<choice, pages, last>>

Next == Read \/ Write

Spec == Init /\ [][Next]_vars

-----------------------------------------------------------------------------
\* matchesSubset of the client, for the query that was sent.
MatchesSubset(row) ==
  /\ \A i \in DOMAIN query.filters : MatchesReadPredicate(row, query.filters[i])
  /\ MatchesReadPredicate(row, WherePredicate(query))

\* readAccessDecision and visibleUpdateForAuth of one value.
Shows(row) ==
  LET decision == AccessDecision(rule, references) IN
  decision.allow /\ MatchesReadPredicate(row, decision.predicate)

Typed(row) ==
  /\ TypedFor(row, AccessDecision(rule, references).predicate)
  /\ TypedFor(row, WherePredicate(query))
  /\ \A i \in DOMAIN query.filters : TypedFor(row, query.filters[i])

StoredRows == {table[k] : k \in {j \in Keys : table[j] # NoRow}}

\* Reduction, compilation and matching never show a row that the rule, read
\* directly, does not allow, whatever the row lacks; and a rule that compiles
\* shows every row it allows whose fields have the compared types.
RuleIsObeyed ==
  \A row \in StoredRows :
    /\ Shows(row) => Allows(rule, row, references)
    /\ (Typed(row) /\ AccessDecision(rule, references).predicate # Thrown)
         => (Allows(rule, row, references) => Shows(row))

\* For rows of the compared types, the SELECT of a read answers exactly the
\* rows that a broadcast shows and that the client's subset then holds: a
\* query loaded from SQL and one kept up by broadcasts have the same rows.
SqlAgreesWithMatch ==
  SqlBinds(Authorized) =>
    \A k \in Keys : table[k] # NoRow /\ Typed(table[k]) =>
      (k \in Selected(Authorized) <=> Shows(table[k]) /\ MatchesSubset(table[k]))

\* The answer of a rule depends on the recorded dependencies alone: references
\* that agree on those fields lead to the same decision.  Otherwise a change
\* of a reference would move rows of a subscriber without an invalidation.
DependenciesSuffice ==
  \A other \in References :
    LET decision == AccessDecision(rule, references) IN
    (/\ DOMAIN other = DOMAIN references
     /\ \A d \in decision.dependencies :
          ValueAt(other[d.name], d.field) = ValueAt(references[d.name], d.field))
    => AccessDecision(rule, other) = decision

\* Pages by cursor, unlike pages by offset, skip no row when rows are inserted,
\* deleted or moved between them: a row nobody wrote and that sorts before the
\* cursor was answered.
PagesSkipNothing ==
  last # NotRead =>
    \A k \in Selected(Authorized) \ written : Before(OrderValue(k), last) => k \in pages
=============================================================================
