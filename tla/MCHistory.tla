------------------------------ MODULE MCHistory ------------------------------
(* Small instances of History. *)
EXTENDS History, TLC

CONSTANTS f, g, k1

Push_(id, scope, type, value) ==
  [id |-> id, scope |-> scope, key |-> k1, type |-> type, value |-> value]

(* Two collections with stored rows, one without, and a name that is not   *)
(* configured.                                                             *)
MCNames == {"notes", "tags", "events", "unknown"}
MCScopes == {"notes", "tags", "events"}
MCStoredScopes == {"notes", "tags"}

MCKeys == {k1}
MCFields == {f, g}
MCVals == {0, 1}
MCIds == 1..6

(* Rows of the initial data: one note.                                     *)
MCSeed == [s \in MCStoredScopes |->
             [k \in MCKeys |-> IF s = "notes" THEN (f :> 0) ELSE NoRow]]

Merge == Push_(1, "notes", "update", g :> 1)
MergeOther == Push_(1, "notes", "update", g :> 0)
Remove == Push_(2, "notes", "delete", g :> 0)
Add == Push_(3, "notes", "insert", f :> 1)
Tag == Push_(4, "tags", "insert", f :> 1)
Event == Push_(5, "events", "insert", f :> 1)
Malformed == Push_(6, "tags", "insert", NotAnObject)
Unknown == Push_(6, "unknown", "insert", f :> 1)

(* Single updates, batches that fail at their second update, repeated and  *)
(* reused ids inside a batch and across batches, and the empty batch.      *)
MCBatches ==
  {<<>>, <<Merge>>, <<Remove>>, <<Tag>>, <<Event>>,
   <<Add, Tag>>, <<Tag, Add, Event>>, <<Merge, Merge>>, <<Merge, MergeOther>>,
   <<Remove, Merge>>, <<Add, Merge>>, <<Tag, Malformed>>, <<Event, Unknown>>}
=============================================================================
