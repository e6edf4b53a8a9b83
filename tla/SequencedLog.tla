---------------------------- MODULE SequencedLog ----------------------------
(***************************************************************************)
(* What the shard promises about writes, whatever happens inside           *)
(* persistSQLiteJsonBatchWithHistory: there is one log of updates that     *)
(* only grows; it grows by a whole batch or not at all; an update enters   *)
(* it once, however often its batch is pushed; an id stands for one        *)
(* update for ever; and a batch keeps its order.                           *)
(***************************************************************************)
EXTENDS Integers, Sequences

CONSTANT Batches

VARIABLE log

Elements(s) == {s[i] : i \in DOMAIN s}

Init == log = <<>>

IsExtension(old, new) ==
  /\ Len(new) > Len(old)
  /\ \A i \in DOMAIN old : new[i] = old[i]

IdsOnce(s) == \A i, j \in DOMAIN s : s[i].id = s[j].id => i = j

(* The new entries of the log stand in the order of the batch.             *)
InBatchOrder(old, new, b) ==
  \A p, q \in (Len(old) + 1)..Len(new) :
    p < q => \E i, j \in DOMAIN b : i < j /\ b[i] = new[p] /\ b[j] = new[q]

Push(b) ==
  /\ IsExtension(log, log')
  /\ IdsOnce(log')
  /\ Elements(log') = Elements(log) \cup Elements(b)
  /\ InBatchOrder(log, log', b)

Next == \E b \in Batches : Push(b)

Spec == Init /\ [][Next]_log
=============================================================================
