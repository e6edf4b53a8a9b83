---------------------------- MODULE MCSyncSession ----------------------------
(* Small instances of SyncSession: pushes that write, delete and write     *)
(* again, and batches that end with an update of another collection.       *)
EXTENDS SyncSession

MCScopes == {"todos", "other"}

Put(k) == [scope |-> "todos", key |-> k, put |-> TRUE]
Delete(k) == [scope |-> "todos", key |-> k, put |-> FALSE]
Other == [scope |-> "other", key |-> 1, put |-> TRUE]

MCBatches == {<<Put(1)>>, <<Delete(1)>>, <<Put(2), Other>>, <<Other>>}
=============================================================================
