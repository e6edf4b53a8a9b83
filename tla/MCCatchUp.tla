------------------------------ MODULE MCCatchUp ------------------------------
(* Small instances of CatchUp: two collections, pushes of one or two       *)
(* updates that mix them, and a history of three changes.                  *)
EXTENDS CatchUp, TLC

CONSTANTS f, k1

Put(id, scope) ==
  [id |-> id, scope |-> scope, key |-> k1, type |-> "insert", value |-> (f :> 0)]

MCScopes == {"notes", "tags"}
MCKeys == {k1}
MCFields == {f}
MCVals == {0}
MCIds == 1..5
MCSeed == [s \in MCScopes |-> [k \in MCKeys |-> NoRow]]

MCBatches ==
  {<<Put(1, "notes")>>, <<Put(2, "tags")>>, <<Put(3, "notes"), Put(4, "tags")>>,
   <<Put(5, "notes")>>}
=============================================================================
