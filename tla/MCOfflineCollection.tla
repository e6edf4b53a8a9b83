------------------------ MODULE MCOfflineCollection -------------------------
(***************************************************************************)
(* One tab, one row, and other clients at the same shard.                  *)
(***************************************************************************)
EXTENDS OfflineCollection

MCKeys == {1}
=============================================================================
