------------------------------ MODULE ChangeLog ------------------------------
(***************************************************************************)
(* The queries that the shard runs over its change-history table           *)
(* (packages/server/src/history.ts): the watermark, the staleness test of  *)
(* a client cursor, one page of a catch-up read, and pruning.              *)
(*                                                                         *)
(* The table is a set of rows.  The operators look only at the columns     *)
(* `seq` (the AUTOINCREMENT key) and `scope` of a row, so a specification  *)
(* may give its rows any other fields.  `latest` is the table of           *)
(* history-watermarks.ts, a function from scopes to the last sequence      *)
(* number recorded for the scope (0 when it has no row).  `requested` is   *)
(* the argument of a catch-up read, a function from scopes to cursors.     *)
(***************************************************************************)
EXTENDS Integers, FiniteSets, FiniteSetsExt

SeqNumbers(changes) == {c.seq : c \in changes}

(* SELECT COALESCE(MAX(sequence), 0) over the whole table.                 *)
ReadWatermark(changes) ==
  IF changes = {} THEN 0 ELSE Max(SeqNumbers(changes))

InScope(changes, scope) == {c \in changes : c.scope = scope}

-----------------------------------------------------------------------------
(* Mutant of IsCursorStale: a scope whose rows were all pruned is taken    *)
(* for a scope that never had one.                                         *)
IsCursorStaleUnlessEmpty(changes, latest, scope, cursor) ==
  LET kept == InScope(changes, scope)
  IN  kept # {} /\ cursor < Min(SeqNumbers(kept)) - 1

(* A cursor is stale when rows of its scope may have been pruned after it. *)
IsCursorStale(changes, latest, scope, cursor) ==
  /\ latest[scope] # 0
  /\ LET kept == InScope(changes, scope) IN
     IF kept = {} THEN cursor < latest[scope]
                  ELSE cursor < Min(SeqNumbers(kept)) - 1

-----------------------------------------------------------------------------
(* The rows that ORDER BY sequence LIMIT limit keeps.                      *)
FirstRows(rows, limit) ==
  {c \in rows : Cardinality({d \in rows : d.seq <= c.seq}) <= limit}

(* Mutant of SelectChanges: one cursor, the lowest, for all collections.   *)
SelectChangesLowestCursor(changes, requested, limit) ==
  FirstRows({c \in changes :
               /\ c.scope \in DOMAIN requested
               /\ \E s \in DOMAIN requested : c.seq > requested[s]}, limit)

(* One SELECT for all the requested collections.                           *)
SelectChanges(changes, requested, limit) ==
  FirstRows({c \in changes : /\ c.scope \in DOMAIN requested
                             /\ c.seq > requested[c.scope]}, limit)

(* Mutant of ReadChanges: a full page hands out the watermark as well, as  *)
(* if every page were the last.                                            *)
ReadChangesEagerCursor(changes, latest, requested, limit) ==
  LET watermark == ReadWatermark(changes)
      stale == {s \in DOMAIN requested :
                  IsCursorStale(changes, latest, s, requested[s])}
      rows == SelectChanges(changes, requested, limit + 1)
  IN  IF stale # {}
      THEN [type |-> "resyncRequired", collections |-> stale,
            watermark |-> watermark]
      ELSE [type |-> "changes", updates |-> FirstRows(rows, limit),
            watermark |-> watermark,
            hasMore |-> Cardinality(rows) > limit,
            cursors |-> [s \in DOMAIN requested |-> watermark]]

(* One answer to a catch-up request.  Cursors move to the last row of the  *)
(* page, scope by scope, and to the watermark on the last page.  With no   *)
(* collection requested this is the watermark alone, as in the code.       *)
ReadChanges(changes, latest, requested, limit) ==
  LET watermark == ReadWatermark(changes)
      stale == {s \in DOMAIN requested :
                  IsCursorStale(changes, latest, s, requested[s])}
      rows == SelectChanges(changes, requested, limit + 1)
      page == FirstRows(rows, limit)
      hasMore == Cardinality(rows) > limit
      last(s) == IF InScope(page, s) = {} THEN requested[s]
                 ELSE Max(SeqNumbers(InScope(page, s)))
  IN  IF stale # {}
      THEN [type |-> "resyncRequired", collections |-> stale,
            watermark |-> watermark]
      ELSE [type |-> "changes", updates |-> page, watermark |-> watermark,
            hasMore |-> hasMore,
            cursors |-> [s \in DOMAIN requested |->
                           IF hasMore THEN last(s) ELSE watermark]]

-----------------------------------------------------------------------------
(* Mutant of PruneChanges: nothing is ever deleted.                        *)
PruneChangesNever(changes, watermark, maxChanges) == changes

(* DELETE ... WHERE sequence <= watermark - maxChanges.  A negative        *)
(* maxChanges stands for every value that the code's finiteness test skips. *)
PruneChanges(changes, watermark, maxChanges) ==
  IF maxChanges < 0 THEN changes
  ELSE {c \in changes : c.seq > watermark - maxChanges}
=============================================================================
