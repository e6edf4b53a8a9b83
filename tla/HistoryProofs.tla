---------------------------- MODULE HistoryProofs ----------------------------
(***************************************************************************)
(* Proofs about History, and about CatchUp: whatever falls between its     *)
(* pages, a client that catches up skips no update and sees none twice.    *)
(***************************************************************************)
EXTENDS CatchUp, ChangeLogProofs

LEMMA MergeRowsType ==
  ASSUME NEW existing \in Row, NEW changes \in Row
  PROVE  MergeRows(existing, changes) \in Row
<1>1. PICK A \in SUBSET Fields : existing \in [A -> Vals]
  BY DEF Row
<1>2. PICK B \in SUBSET Fields : changes \in [B -> Vals]
  BY DEF Row
<1>3. MergeRows(existing, changes) \in [A \cup B -> Vals]
  BY <1>1, <1>2 DEF MergeRows
<1>4. A \cup B \in SUBSET Fields
  BY <1>1, <1>2
<1> QED
  BY <1>3, <1>4 DEF Row

LEMMA RowAfterType ==
  ASSUME NEW existing \in Row \cup {NoRow}, NEW u \in Update,
         Applies(existing, u)
  PROVE  RowAfter(existing, u) \in Row \cup {NoRow}
<1>1. CASE u.type = "delete"
  BY <1>1 DEF RowAfter
<1>2. CASE u.type = "insert"
  BY <1>2 DEF RowAfter, Applies, Update
<1>3. CASE u.type = "update"
  <2>1. existing \in Row /\ u.value \in Row
    BY <1>3 DEF Applies, Update
  <2> QED
    BY <1>3, <2>1, MergeRowsType DEF RowAfter
<1> QED
  BY <1>1, <1>2, <1>3 DEF Update, Types

LEMMA WriteRowType ==
  ASSUME NEW rows \in Rows, NEW u \in Update, u.scope \in StoredScopes,
         Applies(rows[u.scope][u.key], u)
  PROVE  WriteRow(rows, u) \in Rows
<1>1. u.key \in Keys
  BY DEF Update
<1>2. rows[u.scope][u.key] \in Row \cup {NoRow}
  BY <1>1 DEF Rows
<1>3. RowAfter(rows[u.scope][u.key], u) \in Row \cup {NoRow}
  BY <1>2, RowAfterType
<1> QED
  BY <1>1, <1>3 DEF WriteRow, Rows

-----------------------------------------------------------------------------
(* ReadWatermark returns a number, and the number of the last row.         *)
LEMMA WatermarkIs ==
  ASSUME NEW changes \in SUBSET Change, NEW n \in Nat,
         \A c \in changes : c.seq <= n,
         \E c \in changes : c.seq = n
  PROVE  ReadWatermark(changes) = n
<1> DEFINE S == SeqNumbers(changes)
<1>1. n \in S /\ S \subseteq Nat /\ \A m \in S : n >= m
  BY DEF SeqNumbers, Change
<1>2. \A x \in S : (\A m \in S : x >= m) => x = n
  BY <1>1
<1> HIDE DEF S
<1>3. Max(S) = n
  BY <1>1, <1>2 DEF Max
<1> QED
  BY <1>1, <1>3 DEF ReadWatermark, S

(* The watermark of tables that agree is their last sequence number,       *)
(* unless the history keeps nothing.                                       *)
LEMMA WatermarkIsLast ==
  ASSUME NEW t \in Tables, TablesAgree(t), MaxChanges # 0
  PROVE  ReadWatermark(t.changes) = t.lastSeq
<1>0. MaxChanges \in Int
  BY HistoryAssumption
<1>1. t.changes \in SUBSET Change /\ t.lastSeq \in Nat /\ t.applied \in SUBSET AppliedRow
  BY DEF Tables
<1>2. \A c \in t.changes : c.seq <= t.lastSeq
  BY <1>1 DEF TablesAgree, SeqsAgree, Newest
<1>3. CASE t.lastSeq = 0
  <2>1. t.changes = {}
    BY <1>1, <1>3 DEF TablesAgree, SeqsAgree, Newest
  <2> QED
    BY <2>1, <1>3 DEF ReadWatermark
<1>4. CASE t.lastSeq # 0
  <2>1. PICK a \in t.applied : a.seq = t.lastSeq
    BY <1>1, <1>4 DEF TablesAgree, SeqsAgree
  <2>2. MaxChanges >= 0 => a.seq > t.lastSeq - MaxChanges
    BY <1>0, <1>1, <2>1
  <2> DEFINE c == [seq |-> a.seq, scope |-> a.update.scope,
                   update |-> a.update]
  <2>3. c \in t.changes /\ c.seq = t.lastSeq
    BY <2>1, <2>2 DEF TablesAgree, Newest
  <2> QED
    BY <1>1, <1>2, <2>3, WatermarkIs
<1> QED
  BY <1>3, <1>4

LEMMA WatermarkType ==
  ASSUME NEW t \in Tables, TablesAgree(t)
  PROVE  ReadWatermark(t.changes) \in Nat
<1>1. CASE MaxChanges # 0
  BY <1>1, WatermarkIsLast DEF Tables
<1>2. CASE MaxChanges = 0
  <2>1. t.changes = {}
    BY <1>2 DEF TablesAgree, SeqsAgree, Newest, Tables, AppliedRow
  <2> QED
    BY <2>1 DEF ReadWatermark
<1> QED
  BY <1>1, <1>2

-----------------------------------------------------------------------------
LEMMA InitIInv == Init => IInv
<1> SUFFICES ASSUME Init
             PROVE  IInv
  OBVIOUS
<1> USE HistoryAssumption
<1>1. disk = EmptyTables /\ work = EmptyTables
  BY DEF Init
<1>2. EmptyTables \in Tables
  BY DEF EmptyTables, Tables
<1>3. TypeOK
  BY <1>1, <1>2 DEF Init, TypeOK, Reply, NoReply
<1>4. TablesAgree(disk)
  BY <1>1 DEF EmptyTables, TablesAgree, SeqsAgree, LatestAgrees, Newest
<1>5. PendingIsNew /\ WorkAgrees
  BY <1>1 DEF Init, PendingIsNew, WorkAgrees
<1>6. AcceptedIsApplied /\ OnlyLimiterRefusesRetry
  BY DEF Init, AcceptedIsApplied, OnlyLimiterRefusesRetry, NoReply
<1> QED
  BY <1>3, <1>4, <1>5, <1>6 DEF IInv

LEMMA ReceiveIInv ==
  ASSUME IInv, NEW b \in Batches, Receive(b)
  PROVE  IInv'
<1> USE HistoryAssumption DEF IInv, Receive, NextLoop
<1>1. TypeOK'
  BY DEF TypeOK, Reply, NoReply
<1>2. TablesAgree(disk)'
  BY DEF TablesAgree, SeqsAgree, LatestAgrees, Newest
<1>3. pending' = <<>>
  BY DEF WorkAgrees
<1>4. PendingIsNew'
  BY <1>3, <1>1 DEF PendingIsNew, Seen, TypeOK
<1>5. WorkAgrees'
  BY DEF WorkAgrees
<1>6. AcceptedIsApplied' /\ OnlyLimiterRefusesRetry'
  BY DEF AcceptedIsApplied, OnlyLimiterRefusesRetry, NoReply
<1> QED
  BY <1>1, <1>2, <1>4, <1>5, <1>6

LEMMA RefuseIInv ==
  ASSUME IInv, NEW b \in Batches, LimitRate(b) \/ Refuse(b)
  PROVE  IInv'
<1> USE HistoryAssumption DEF IInv, LimitRate, Refuse, Reject
<1>1. TypeOK'
  BY DEF TypeOK, Reply
<1>2. TablesAgree(disk)'
  BY DEF TablesAgree, SeqsAgree, LatestAgrees, Newest
<1>3. PendingIsNew'
  BY DEF PendingIsNew, Seen, AppliedUpdates
<1>4. WorkAgrees'
  BY DEF WorkAgrees
<1>5. AcceptedIsApplied' /\ OnlyLimiterRefusesRetry'
  BY DEF AcceptedIsApplied, OnlyLimiterRefusesRetry, AppliedUpdates
<1> QED
  BY <1>1, <1>2, <1>3, <1>4, <1>5

LEMMA DedupUpdateIInv ==
  ASSUME IInv, DedupUpdate
  PROVE  IInv'
<1> USE HistoryAssumption DEF IInv
<1> DEFINE u == batch[pos]
<1>0. /\ phase = "dedup" /\ pos \in DOMAIN batch /\ work = disk
      /\ u \in Update /\ pending \in Seq(Update) /\ batch \in Seq(Update)
      /\ pos \in Nat \ {0} /\ pos' = pos + 1
      /\ disk \in Tables
      /\ UNCHANGED <<disk, work, phase, batch, reply>>
  BY DEF DedupUpdate, TypeOK, WorkAgrees
<1>1. /\ PriorPayloads(u.id) \subseteq {u}
      /\ pending' = IF PriorPayloads(u.id) = {} THEN Append(pending, u)
                                                ELSE pending
  BY DEF DedupUpdate
<1> HIDE DEF u
<1>2. pending' \in Seq(Update)
  BY <1>0, <1>1
<1>3. TypeOK'
  BY <1>0, <1>2 DEF TypeOK
<1>4. TablesAgree(disk)'
  BY <1>0 DEF TablesAgree, SeqsAgree, LatestAgrees, Newest
<1>5. WorkAgrees'
  BY <1>0 DEF WorkAgrees
<1>6. AcceptedIsApplied' /\ OnlyLimiterRefusesRetry'
  BY <1>0 DEF AcceptedIsApplied, OnlyLimiterRefusesRetry, AppliedUpdates
<1>7. CASE PriorPayloads(u.id) = {}
  <2>1. /\ \A i \in DOMAIN pending : pending[i].id # u.id
        /\ \A a \in disk.applied : a.update.id # u.id
    BY <1>0, <1>7 DEF PriorPayloads, AppliedUpdates
  <2>2. /\ pending' = Append(pending, u)
        /\ DOMAIN pending' = 1..(Len(pending) + 1)
        /\ DOMAIN pending = 1..Len(pending)
        /\ Len(pending) \in Nat
        /\ pending'[Len(pending) + 1] = u
        /\ \A i \in DOMAIN pending : pending'[i] = pending[i]
    BY <1>0, <1>1, <1>7
  <2>3. \A i, j \in DOMAIN pending' : pending'[i].id = pending'[j].id => i = j
    BY <2>1, <2>2 DEF PendingIsNew
  <2>4. \A i \in DOMAIN pending' :
          \A a \in disk.applied : a.update.id # pending'[i].id
    BY <2>1, <2>2 DEF PendingIsNew
  <2>5. \A j \in DOMAIN pending' :
          \E i \in DOMAIN batch : i < pos + 1 /\ batch[i] = pending'[j]
    BY <1>0, <2>2 DEF PendingIsNew, Seen, u
  <2>6. \A p, q \in DOMAIN pending' :
          p < q => \E i, j \in DOMAIN batch :
                     /\ i < j /\ j < pos + 1
                     /\ batch[i] = pending'[p] /\ batch[j] = pending'[q]
    <3> SUFFICES ASSUME NEW p \in DOMAIN pending', NEW q \in DOMAIN pending',
                        p < q
                 PROVE  \E i, j \in DOMAIN batch :
                          /\ i < j /\ j < pos + 1
                          /\ batch[i] = pending'[p] /\ batch[j] = pending'[q]
      OBVIOUS
    <3>1. p \in DOMAIN pending
      BY <2>2
    <3>2. CASE q \in DOMAIN pending
      BY <1>0, <2>2, <3>1, <3>2 DEF PendingIsNew, Seen
    <3>3. CASE q = Len(pending) + 1
      <4>1. PICK i \in DOMAIN batch : i < pos /\ batch[i] = pending[p]
        BY <1>0, <3>1 DEF PendingIsNew, Seen
      <4> QED
        BY <1>0, <2>2, <3>1, <3>3, <4>1 DEF u
    <3> QED
      BY <2>2, <3>2, <3>3
  <2>7. \A i \in DOMAIN batch :
          i < pos + 1 => \/ batch[i] \in AppliedUpdates(disk)
                         \/ \E j \in DOMAIN pending' : pending'[j] = batch[i]
    <3> SUFFICES ASSUME NEW i \in DOMAIN batch, i < pos + 1
                 PROVE  \/ batch[i] \in AppliedUpdates(disk)
                        \/ \E j \in DOMAIN pending' : pending'[j] = batch[i]
      OBVIOUS
    <3>1. CASE i = pos
      BY <2>2, <3>1 DEF u
    <3>2. CASE i < pos
      BY <1>0, <2>2, <3>2 DEF PendingIsNew, Seen
    <3> QED
      BY <1>0, <3>1, <3>2
  <2>8. PendingIsNew'
    BY <1>0, <2>3, <2>4, <2>5, <2>6, <2>7
       DEF PendingIsNew, Seen, AppliedUpdates
  <2> QED
    BY <1>3, <1>4, <1>5, <1>6, <2>8
<1>8. CASE PriorPayloads(u.id) # {}
  <2>1. u \in PriorPayloads(u.id) /\ pending' = pending
    BY <1>1, <1>8
  <2>2. \/ u \in AppliedUpdates(disk)
        \/ \E j \in DOMAIN pending : pending[j] = u
    BY <1>0, <2>1 DEF PriorPayloads
  <2>3. \A i \in DOMAIN batch :
          i < pos + 1 => \/ batch[i] \in AppliedUpdates(disk)
                         \/ \E j \in DOMAIN pending : pending[j] = batch[i]
    BY <1>0, <2>2 DEF PendingIsNew, Seen, u
  <2>4. PendingIsNew'
    BY <1>0, <2>1, <2>3 DEF PendingIsNew, Seen, AppliedUpdates
  <2> QED
    BY <1>3, <1>4, <1>5, <1>6, <2>4
<1> QED
  BY <1>7, <1>8

LEMMA AcceptRetryIInv ==
  ASSUME IInv, AcceptRetry
  PROVE  IInv'
<1> USE HistoryAssumption DEF IInv
<1>0. /\ phase = "dedup" /\ pending = <<>> /\ work = disk
      /\ \A i \in DOMAIN batch : i < pos
      /\ phase' = "idle" /\ batch' = <<>> /\ pending' = <<>> /\ pos' = 1
      /\ disk' = disk /\ work' = work
      /\ disk \in Tables /\ batch \in Seq(Update)
      /\ reply' = [type |-> "accepted", batch |-> batch, updates |-> <<>>,
                   watermark |-> ReadWatermark(disk.changes)]
  BY DEF AcceptRetry, Accept, EndTransaction, TypeOK, WorkAgrees
<1>1. ReadWatermark(disk.changes) \in Nat
  BY <1>0, WatermarkType
<1>2. reply' \in Reply
  BY <1>0, <1>1 DEF Reply
<1>3. TypeOK'
  BY <1>0, <1>2 DEF TypeOK
<1>4. TablesAgree(disk)'
  BY <1>0 DEF TablesAgree, SeqsAgree, LatestAgrees, Newest
<1>5. WorkAgrees' /\ PendingIsNew'
  BY <1>0 DEF WorkAgrees, PendingIsNew
<1>6. \A i \in DOMAIN batch : batch[i] \in AppliedUpdates(disk)
  BY <1>0 DEF PendingIsNew, Seen
<1>7. \A a \in disk.applied :
        MaxChanges # 0 => a.seq <= ReadWatermark(disk.changes)
  BY <1>0, WatermarkIsLast DEF TablesAgree, SeqsAgree, Tables, AppliedRow
<1>8. AcceptedIsApplied' /\ OnlyLimiterRefusesRetry'
  BY <1>0, <1>6, <1>7 DEF AcceptedIsApplied, OnlyLimiterRefusesRetry, AppliedUpdates
<1> QED
  BY <1>3, <1>4, <1>5, <1>8

(* The steps from one loop to the next, and those of the second loop,      *)
(* change no durable table.                                                *)
LEMMA LoopIInv ==
  ASSUME IInv, DedupDone \/ ApplyUpdate \/ ApplyDone
  PROVE  IInv'
<1> USE HistoryAssumption DEF IInv
<1>0. /\ UNCHANGED <<disk, batch, pending, reply>>
      /\ pos' \in Nat \ {0}
      /\ phase \in {"dedup", "apply"} /\ phase' \in {"apply", "append"}
      /\ phase = "dedup" => \A i \in DOMAIN batch : i < pos
      /\ pending # <<>> /\ pending \in Seq(Update)
      /\ disk \in Tables /\ work \in Tables
      /\ work.applied = disk.applied /\ work.lastSeq = disk.lastSeq
      /\ work.changes = disk.changes /\ work.latest = disk.latest
      /\ batch \in Seq(Update)
      /\ phase' = "append" => pos' = 1
  BY DEF DedupDone, ApplyUpdate, ApplyDone, NextLoop, TypeOK, WorkAgrees
<1>1. /\ work' \in Tables
      /\ work'.applied = work.applied /\ work'.lastSeq = work.lastSeq
      /\ work'.changes = work.changes /\ work'.latest = work.latest
  <2>1. CASE UNCHANGED work
    BY <1>0, <2>1
  <2>2. CASE ApplyUpdate /\ ~UNCHANGED work
    <3> DEFINE u == pending[pos]
    <3>1. /\ u \in Update /\ u.scope \in StoredScopes
          /\ Applies(work.rows[u.scope][u.key], u)
          /\ work' = [work EXCEPT !.rows = WriteRow(work.rows, u)]
      BY <1>0, <2>2 DEF ApplyUpdate, TypeOK
    <3> HIDE DEF u
    <3>2. work.rows \in Rows
      BY <1>0 DEF Tables
    <3>3. WriteRow(work.rows, u) \in Rows
      BY <3>1, <3>2, WriteRowType
    <3> QED
      BY <1>0, <3>1, <3>3 DEF Tables
  <2> QED
    BY <2>1, <2>2 DEF DedupDone, ApplyDone
<1>2. TypeOK'
  BY <1>0, <1>1 DEF TypeOK
<1>3. TablesAgree(disk)'
  BY <1>0 DEF TablesAgree, SeqsAgree, LatestAgrees, Newest
<1>4. PendingIsNew'
  BY <1>0 DEF PendingIsNew, Seen, AppliedUpdates
<1>5. phase' = "append" => Appended(pos - 1)'
  BY <1>0, <1>1 DEF Appended, Tables
<1>6. WorkAgrees'
  BY <1>0, <1>1, <1>5 DEF WorkAgrees
<1>7. AcceptedIsApplied' /\ OnlyLimiterRefusesRetry'
  BY <1>0 DEF AcceptedIsApplied, OnlyLimiterRefusesRetry, AppliedUpdates
<1> QED
  BY <1>2, <1>3, <1>4, <1>6, <1>7

LEMMA AppendChangeIInv ==
  ASSUME IInv, AppendChange
  PROVE  IInv'
<1> USE HistoryAssumption DEF IInv
<1> DEFINE u == pending[pos]
           seq == work.lastSeq + 1
           change == [seq |-> seq, scope |-> u.scope, update |-> u]
<1>0. /\ UNCHANGED <<disk, phase, batch, pending, reply>>
      /\ phase = "append" /\ pos' = pos + 1
      /\ pos \in Nat \ {0} /\ pos <= Len(pending)
      /\ pending \in Seq(Update) /\ Len(pending) \in Nat
      /\ DOMAIN pending = 1..Len(pending)
      /\ disk \in Tables /\ work \in Tables
      /\ u \in Update /\ u.scope \in Scopes
  BY DEF AppendChange, TypeOK
<1>1. work' = [work EXCEPT !.lastSeq = seq,
                           !.changes = work.changes \cup {change},
                           !.latest[u.scope] = seq]
  BY DEF AppendChange
<1>2. Appended(pos - 1)
  BY <1>0 DEF WorkAgrees
<1>3. seq \in Nat /\ seq = disk.lastSeq + pos /\ disk.lastSeq \in Nat
  BY <1>0, <1>2 DEF Appended, Tables
<1>4. change \in Change
  BY <1>0, <1>3 DEF Change
<1>5. /\ work'.lastSeq = seq /\ work'.applied = work.applied
      /\ work'.rows = work.rows
      /\ work'.changes = work.changes \cup {change}
      /\ work'.latest = [work.latest EXCEPT ![u.scope] = seq]
  BY <1>0, <1>1 DEF Tables
<1> HIDE DEF u, seq, change
<1>6. [work.latest EXCEPT ![u.scope] = seq] \in [Scopes -> Nat]
  BY <1>0, <1>3 DEF Tables
<1>7. work' \in Tables
  <2>1. work' = [rows |-> work.rows, changes |-> work.changes \cup {change},
                 latest |-> [work.latest EXCEPT ![u.scope] = seq],
                 applied |-> work.applied, lastSeq |-> seq]
    BY <1>0, <1>1 DEF Tables
  <2> QED
    BY <1>0, <1>3, <1>4, <1>6, <2>1 DEF Tables
<1>8. TypeOK'
  BY <1>0, <1>7 DEF TypeOK
<1>9. TablesAgree(disk)'
  BY <1>0 DEF TablesAgree, SeqsAgree, LatestAgrees, Newest
<1>10. PendingIsNew'
  BY <1>0 DEF PendingIsNew, Seen, AppliedUpdates
<1>11. Appended(pos - 1)'
  <2>1. /\ pos <= Len(pending)
        /\ work'.applied = disk.applied /\ work'.lastSeq = disk.lastSeq + pos
    BY <1>0, <1>2, <1>3, <1>5 DEF Appended
  <2>2. 1..pos = 1..(pos - 1) \cup {pos}
    BY <1>0
  <2>3. \A i \in 1..pos : pending[i].scope \in Scopes
    BY <1>0, <1>2, <2>2 DEF Appended, u
  <2>4. change = [seq |-> disk.lastSeq + pos, scope |-> pending[pos].scope,
                  update |-> pending[pos]]
    BY <1>3 DEF change, u
  <2>5. work'.changes = disk.changes \cup
          {[seq |-> disk.lastSeq + i, scope |-> pending[i].scope,
            update |-> pending[i]] : i \in 1..pos}
    BY <1>2, <1>5, <2>2, <2>4 DEF Appended
  <2>6. ASSUME NEW s \in Scopes
        PROVE  /\ disk.latest[s] <= work'.latest[s]
               /\ \A i \in 1..pos :
                    pending[i].scope = s => disk.lastSeq + i <= work'.latest[s]
               /\ \/ work'.latest[s] = disk.latest[s]
                  \/ \E i \in 1..pos : /\ pending[i].scope = s
                                       /\ work'.latest[s] = disk.lastSeq + i
    <3>0. /\ work.latest \in [Scopes -> Nat] /\ disk.latest \in [Scopes -> Nat]
          /\ disk.latest[s] \in Nat /\ work.latest[s] \in Nat
          /\ \A t \in Scopes : disk.latest[t] <= disk.lastSeq
      <4>1. work.latest \in [Scopes -> Nat] /\ disk.latest \in [Scopes -> Nat]
        BY <1>0 DEF Tables
      <4>2. ASSUME NEW t \in Scopes
            PROVE  disk.latest[t] <= disk.lastSeq
        <5>1. CASE disk.latest[t] = 0
          BY <1>3, <5>1
        <5>2. CASE disk.latest[t] # 0
          <6>1. PICK a \in disk.applied : a.seq = disk.latest[t]
            BY <5>2 DEF TablesAgree, LatestAgrees
          <6>2. a.seq \in 1..disk.lastSeq
            BY DEF TablesAgree, SeqsAgree
          <6> QED
            BY <1>3, <6>1, <6>2
        <5> QED
          BY <5>1, <5>2
      <4> QED
        BY <4>1, <4>2
    <3>1. CASE s = u.scope
      <4>1. work'.latest[s] = disk.lastSeq + pos
        BY <1>3, <1>5, <3>0, <3>1
      <4>2. disk.latest[s] <= disk.lastSeq + pos
        BY <1>0, <1>3, <3>0
      <4>3. \A i \in 1..pos : disk.lastSeq + i <= disk.lastSeq + pos
        BY <1>0, <1>3
      <4>4. pos \in 1..pos /\ pending[pos].scope = s
        BY <1>0, <3>1 DEF u
      <4> QED
        BY <4>1, <4>2, <4>3, <4>4
    <3>2. CASE s # u.scope
      <4>1. work'.latest[s] = work.latest[s]
        BY <1>5, <3>0, <3>2
      <4>2. pending[pos].scope # s
        BY <3>2 DEF u
      <4> QED
        BY <1>0, <1>2, <2>2, <4>1, <4>2 DEF Appended
    <3> QED
      BY <3>1, <3>2
  <2>7. pos' - 1 = pos
    BY <1>0
  <2> QED
    BY <1>0, <2>1, <2>3, <2>5, <2>6, <2>7 DEF Appended
<1>12. WorkAgrees'
  BY <1>0, <1>11 DEF WorkAgrees
<1>13. AcceptedIsApplied' /\ OnlyLimiterRefusesRetry'
  BY <1>0 DEF AcceptedIsApplied, OnlyLimiterRefusesRetry, AppliedUpdates
<1> QED
  BY <1>8, <1>9, <1>10, <1>12, <1>13

(* What an abandoned transaction leaves behind is what it found.           *)
LEMMA AbandonedIInv ==
  ASSUME IInv, UNCHANGED disk, work' = disk, EndTransaction,
         reply' \in Reply, AcceptedIsApplied', OnlyLimiterRefusesRetry'
  PROVE  IInv'
<1> USE DEF IInv, EndTransaction
<1>1. TypeOK'
  BY DEF TypeOK
<1>2. TablesAgree(disk)'
  BY DEF TablesAgree, SeqsAgree, LatestAgrees, Newest
<1>3. PendingIsNew' /\ WorkAgrees'
  BY DEF PendingIsNew, WorkAgrees
<1> QED
  BY <1>1, <1>2, <1>3

(* An update that is pending was not applied; nor was one whose id is on   *)
(* record with another payload.                                            *)
LEMMA ThrowIInv ==
  ASSUME IInv, Throw
  PROVE  IInv'
<1> USE DEF IInv
<1>0. /\ disk' = disk /\ work' = disk /\ EndTransaction
      /\ reply' = [type |-> "error", batch |-> batch, code |-> "failed"]
      /\ batch \in Seq(Update) /\ pending \in Seq(Update)
      /\ pos \in Nat \ {0}
  BY DEF Throw, Reject, TypeOK
<1>1. \A j \in DOMAIN pending : pending[j] \notin AppliedUpdates(disk)
  BY DEF PendingIsNew, AppliedUpdates
<1>2. \E i \in DOMAIN batch : batch[i] \notin AppliedUpdates(disk)
  <2>1. CASE DedupThrows
    <3>1. /\ pos \in DOMAIN batch /\ work = disk
          /\ ~(PriorPayloads(batch[pos].id) \subseteq {batch[pos]})
      BY <1>0, <2>1 DEF DedupThrows, WorkAgrees
    <3>2. PICK u \in PriorPayloads(batch[pos].id) : u # batch[pos]
      BY <3>1
    <3>3. /\ u.id = batch[pos].id
          /\ \/ \E j \in DOMAIN pending : pending[j] = u
             \/ \E a \in disk.applied : a.update = u
      BY <3>1, <3>2 DEF PriorPayloads, AppliedUpdates
    <3>4. batch[pos] \notin AppliedUpdates(disk)
      BY <3>2, <3>3 DEF AppliedUpdates, PendingIsNew, TablesAgree, SeqsAgree
    <3> QED
      BY <3>1, <3>4
  <2>2. CASE ApplyThrows \/ AppendThrows
    <3>1. pos \in DOMAIN pending
      BY <1>0, <2>2 DEF ApplyThrows, AppendThrows
    <3>2. \E i \in DOMAIN batch : batch[i] = pending[pos]
      BY <3>1 DEF PendingIsNew
    <3> QED
      BY <1>1, <3>1, <3>2
  <2> QED
    BY <2>1, <2>2 DEF Throw
<1>3. reply' \in Reply
  BY <1>0 DEF Reply
<1>4. AcceptedIsApplied' /\ OnlyLimiterRefusesRetry'
  BY <1>0, <1>2 DEF AcceptedIsApplied, OnlyLimiterRefusesRetry, AppliedUpdates
<1> QED
  BY <1>0, <1>3, <1>4, AbandonedIInv

LEMMA EvictIInv ==
  ASSUME IInv, Evict
  PROVE  IInv'
<1>1. /\ disk' = disk /\ work' = disk /\ EndTransaction
      /\ reply' = [type |-> "none"]
  BY DEF Evict, NoReply
<1>2. reply' \in Reply
  BY <1>1 DEF Reply, NoReply
<1>3. AcceptedIsApplied' /\ OnlyLimiterRefusesRetry'
  BY <1>1 DEF AcceptedIsApplied, OnlyLimiterRefusesRetry
<1> QED
  BY <1>1, <1>2, <1>3, AbandonedIInv

LEMMA StutterIInv ==
  ASSUME IInv, UNCHANGED vars
  PROVE  IInv'
<1> USE DEF IInv, vars
<1>1. TypeOK'
  BY DEF TypeOK
<1>2. TablesAgree(disk)'
  BY DEF TablesAgree, SeqsAgree, LatestAgrees, Newest
<1>3. PendingIsNew'
  BY DEF PendingIsNew, Seen, AppliedUpdates
<1>4. WorkAgrees'
  BY DEF WorkAgrees, Appended
<1>5. AcceptedIsApplied' /\ OnlyLimiterRefusesRetry'
  BY DEF AcceptedIsApplied, OnlyLimiterRefusesRetry, AppliedUpdates
<1> QED
  BY <1>1, <1>2, <1>3, <1>4, <1>5

-----------------------------------------------------------------------------
(* The end of a transaction that appended n updates to tables with L       *)
(* sequence numbers given out.                                             *)
LEMMA CommitFacts ==
  ASSUME IInv, Commit
  PROVE  LET n == Len(pending) IN
         /\ disk \in Tables /\ disk.lastSeq \in Nat
         /\ pending \in Seq(Update) /\ n \in Nat \ {0}
         /\ DOMAIN pending = 1..n
         /\ Appended(n)
         /\ disk' \in Tables /\ work' = disk'
         /\ disk'.rows = work.rows /\ disk'.latest = work.latest
         /\ disk'.lastSeq = disk.lastSeq + n
         /\ disk'.applied = disk.applied \cup
              {[update |-> pending[i], seq |-> disk.lastSeq + i] : i \in 1..n}
         /\ disk'.changes =
              PruneChanges(work.changes, disk.lastSeq + n, MaxChanges)
         /\ SequencedUpdates \in Seq(AppliedRow)
<1> USE HistoryAssumption DEF IInv
<1> DEFINE n == Len(pending)
<1>1. /\ disk \in Tables /\ work \in Tables /\ disk.lastSeq \in Nat
      /\ pending \in Seq(Update) /\ n \in Nat \ {0} /\ DOMAIN pending = 1..n
      /\ pos \in Nat \ {0} /\ pos > n /\ phase = "append"
  BY DEF Commit, TypeOK, WorkAgrees, Tables
<1>2. Appended(n)
  <2>1. Appended(pos - 1)
    BY <1>1 DEF WorkAgrees
  <2>2. pos - 1 = n
    BY <1>1, <2>1 DEF Appended
  <2> QED
    BY <2>1, <2>2
<1>3. \A i \in 1..n : work.lastSeq - n + i = disk.lastSeq + i
  BY <1>1, <1>2 DEF Appended
<1>4. SequencedUpdates =
        [i \in 1..n |-> [update |-> pending[i], seq |-> disk.lastSeq + i]]
  BY <1>1, <1>3 DEF SequencedUpdates
<1>5. \A i \in 1..n :
        [update |-> pending[i], seq |-> disk.lastSeq + i] \in AppliedRow
  BY <1>1 DEF AppliedRow
<1>6. SequencedUpdates \in Seq(AppliedRow)
  BY <1>1, <1>4, <1>5
<1>7. {SequencedUpdates[i] : i \in DOMAIN pending} =
        {[update |-> pending[i], seq |-> disk.lastSeq + i] : i \in 1..n}
  BY <1>1, <1>4
<1> DEFINE new == {[update |-> pending[i], seq |-> disk.lastSeq + i] : i \in 1..n}
           kept == PruneChanges(work.changes, disk.lastSeq + n, MaxChanges)
<1>8. /\ work.lastSeq = disk.lastSeq + n
      /\ work.applied = disk.applied
  BY <1>2 DEF Appended
<1>9. disk' = [work EXCEPT !.applied = disk.applied \cup new,
                           !.changes = kept]
  BY <1>7, <1>8 DEF Commit
<1>10. new \subseteq AppliedRow
  BY <1>5
<1>11. kept \subseteq Change
  BY <1>1 DEF PruneChanges, Tables
<1> HIDE DEF new, kept, n
<1>12. disk' = [rows |-> work.rows, changes |-> kept, latest |-> work.latest,
                applied |-> disk.applied \cup new, lastSeq |-> work.lastSeq]
  BY <1>1, <1>9 DEF Tables
<1>13. disk' \in Tables
  BY <1>1, <1>10, <1>11, <1>12 DEF Tables
<1>14. work' = disk'
  BY DEF Commit
<1> QED
  BY <1>1, <1>2, <1>6, <1>8, <1>12, <1>13, <1>14 DEF n, new, kept

LEMMA CommitSeqs ==
  ASSUME IInv, Commit
  PROVE  SeqsAgree(disk')
<1> DEFINE n == Len(pending)
           new == {[update |-> pending[i], seq |-> disk.lastSeq + i] : i \in 1..n}
<1>1. /\ disk \in Tables /\ disk.lastSeq \in Nat /\ n \in Nat \ {0}
      /\ DOMAIN pending = 1..n
      /\ \A i \in 1..n : pending[i].scope \in Scopes
      /\ disk'.lastSeq = disk.lastSeq + n
      /\ disk'.applied = disk.applied \cup new
  BY CommitFacts DEF Appended
<1>2. /\ SeqsAgree(disk) /\ PendingIsNew
      /\ \A a \in disk.applied : a.seq \in Nat /\ a.seq <= disk.lastSeq
  BY <1>1 DEF IInv, TablesAgree, SeqsAgree
<1> HIDE DEF n
<1>3. \A a \in disk'.applied :
        a.seq \in 1..disk'.lastSeq /\ a.update.scope \in Scopes
  BY <1>1, <1>2 DEF SeqsAgree
<1>4. ASSUME NEW m \in 1..disk'.lastSeq
      PROVE  \E a \in disk'.applied : a.seq = m
  <2>1. CASE m \in 1..disk.lastSeq
    BY <1>1, <1>2, <2>1 DEF SeqsAgree
  <2>2. CASE m \notin 1..disk.lastSeq
    <3> DEFINE i == m - disk.lastSeq
    <3>1. i \in 1..n /\ disk.lastSeq + i = m
      BY <1>1, <2>2
    <3> HIDE DEF i
    <3> DEFINE a == [update |-> pending[i], seq |-> disk.lastSeq + i]
    <3>2. a \in new /\ a.seq = m
      BY <3>1
    <3> QED
      BY <1>1, <3>2
  <2> QED
    BY <2>1, <2>2
<1>5. ASSUME NEW a \in disk'.applied, NEW b \in disk'.applied,
             a.update.id = b.update.id \/ a.seq = b.seq
      PROVE  a = b
  <2>1. CASE a \in disk.applied /\ b \in disk.applied
    <3>1. \A x, y \in disk.applied : (x.update.id = y.update.id \/ x.seq = y.seq) => x = y
      BY <1>2 DEF SeqsAgree
    <3> QED
      BY <1>5, <2>1, <3>1
  <2>2. ASSUME NEW c \in disk.applied, NEW i \in 1..n
        PROVE  c.update.id # pending[i].id /\ c.seq # disk.lastSeq + i
    <3>1. c.update.id # pending[i].id
      <4>1. \A k \in DOMAIN pending : \A x \in disk.applied : x.update.id # pending[k].id
        BY <1>2, Zenon DEF PendingIsNew
      <4> QED
        BY <1>1, <4>1
    <3>2. c.seq \in Nat /\ c.seq <= disk.lastSeq /\ disk.lastSeq < disk.lastSeq + i
      BY <1>1, <1>2
    <3> QED
      BY <1>1, <3>1, <3>2
  <2>3. ASSUME NEW i \in 1..n, NEW j \in 1..n,
               pending[i].id = pending[j].id
                 \/ disk.lastSeq + i = disk.lastSeq + j
        PROVE  i = j
    <3>1. CASE pending[i].id = pending[j].id
      <4>1. \A k, l \in DOMAIN pending : pending[k].id = pending[l].id => k = l
        BY <1>2, Zenon DEF PendingIsNew
      <4> QED
        BY <1>1, <3>1, <4>1
    <3>2. CASE disk.lastSeq + i = disk.lastSeq + j
      <4>1. i \in Int /\ j \in Int
        BY <1>1
      <4> QED
        BY <1>1, <3>2, <4>1
    <3> QED
      BY <2>3, <3>1, <3>2
  <2>4. CASE a \in disk.applied /\ b \in new
    BY <1>5, <2>2, <2>4
  <2>5. CASE a \in new /\ b \in disk.applied
    BY <1>5, <2>2, <2>5
  <2>6. CASE a \in new /\ b \in new
    <3>1. PICK i \in 1..n :
            a = [update |-> pending[i], seq |-> disk.lastSeq + i]
      BY <2>6
    <3>2. PICK j \in 1..n :
            b = [update |-> pending[j], seq |-> disk.lastSeq + j]
      BY <2>6
    <3> QED
      BY <1>5, <2>3, <3>1, <3>2
  <2> QED
    BY <1>1, <2>1, <2>4, <2>5, <2>6
<1> QED
  BY <1>3, <1>4, <1>5 DEF SeqsAgree

LEMMA CommitLatest ==
  ASSUME IInv, Commit
  PROVE  LatestAgrees(disk')
<1> DEFINE n == Len(pending)
           new == {[update |-> pending[i], seq |-> disk.lastSeq + i] : i \in 1..n}
<1>1. /\ disk \in Tables /\ disk.lastSeq \in Nat /\ n \in Nat \ {0}
      /\ Appended(n)
      /\ disk'.latest = work.latest
      /\ disk'.applied = disk.applied \cup new
      /\ LatestAgrees(disk)
      /\ \A a \in disk.applied : a.seq \in Nat
      /\ \A s \in Scopes : disk.latest[s] \in Nat
  BY CommitFacts DEF IInv, TablesAgree, Tables, AppliedRow
<1>2. \A s \in Scopes : work.latest[s] \in Nat
  BY DEF IInv, TypeOK, Tables
<1> HIDE DEF n
<1> SUFFICES ASSUME NEW s \in Scopes
             PROVE  /\ \A a \in disk'.applied :
                         a.update.scope = s => a.seq <= work.latest[s]
                    /\ work.latest[s] # 0 =>
                         \E a \in disk'.applied :
                           a.update.scope = s /\ a.seq = work.latest[s]
  BY <1>1 DEF LatestAgrees
<1>3. /\ disk.latest[s] <= work.latest[s]
      /\ \A i \in 1..n :
           pending[i].scope = s => disk.lastSeq + i <= work.latest[s]
      /\ \/ work.latest[s] = disk.latest[s]
         \/ \E i \in 1..n : /\ pending[i].scope = s
                            /\ work.latest[s] = disk.lastSeq + i
  BY <1>1 DEF Appended
<1>4. ASSUME NEW a \in disk'.applied, a.update.scope = s
      PROVE  a.seq <= work.latest[s]
  <2>1. CASE a \in disk.applied
    <3>1. a.seq <= disk.latest[s]
      BY <1>1, <1>4, <2>1 DEF LatestAgrees
    <3> QED
      BY <1>1, <1>2, <1>3, <2>1, <3>1
  <2>2. CASE a \in new
    BY <1>3, <1>4, <2>2
  <2> QED
    BY <1>1, <2>1, <2>2
<1>5. ASSUME work.latest[s] # 0
      PROVE  \E a \in disk'.applied :
               a.update.scope = s /\ a.seq = work.latest[s]
  <2>1. CASE work.latest[s] = disk.latest[s]
    BY <1>1, <1>5, <2>1 DEF LatestAgrees
  <2>2. ASSUME NEW i \in 1..n, pending[i].scope = s,
               work.latest[s] = disk.lastSeq + i
        PROVE  \E a \in disk'.applied :
                 a.update.scope = s /\ a.seq = work.latest[s]
    <3> DEFINE a == [update |-> pending[i], seq |-> disk.lastSeq + i]
    <3>1. a \in disk'.applied /\ a.update.scope = s /\ a.seq = work.latest[s]
      BY <1>1, <2>2
    <3> QED
      BY <3>1
  <2> QED
    BY <1>3, <2>1, <2>2
<1> QED
  BY <1>4, <1>5

LEMMA CommitNewest ==
  ASSUME IInv, Commit
  PROVE  disk'.changes = Newest(disk')
<1> DEFINE n == Len(pending)
           L == disk.lastSeq
           new == {[update |-> pending[i], seq |-> L + i] : i \in 1..n}
           row(a) == [seq |-> a.seq, scope |-> a.update.scope,
                      update |-> a.update]
           appended == {[seq |-> L + i, scope |-> pending[i].scope,
                         update |-> pending[i]] : i \in 1..n}
           Retained(m, last) == MaxChanges >= 0 => m > last - MaxChanges
<1>1. /\ MaxChanges \in Int /\ L \in Nat /\ n \in Nat \ {0}
      /\ disk \in Tables
      /\ disk'.lastSeq = L + n
      /\ disk'.applied = disk.applied \cup new
      /\ disk'.changes = PruneChanges(work.changes, L + n, MaxChanges)
      /\ work.changes = disk.changes \cup appended
  BY CommitFacts, HistoryAssumption DEF Appended
<1>2. disk.changes = {row(a) : a \in {b \in disk.applied : Retained(b.seq, L)}}
  BY DEF IInv, TablesAgree, Newest
<1>3. \A a \in disk.applied : a.seq \in Nat
  BY <1>1 DEF Tables, AppliedRow
<1> HIDE DEF n, L
<1>4. Newest(disk') = {row(a) : a \in {b \in disk.applied \cup new :
                                         Retained(b.seq, L + n)}}
  BY <1>1 DEF Newest
<1>5. appended = {row(a) : a \in new}
  <2>1. \A i \in 1..n :
          row([update |-> pending[i], seq |-> L + i]) =
            [seq |-> L + i, scope |-> pending[i].scope, update |-> pending[i]]
    OBVIOUS
  <2> HIDE DEF row
  <2>2. ASSUME NEW c \in appended
        PROVE  c \in {row(a) : a \in new}
    <3>1. PICK i \in 1..n : c = [seq |-> L + i, scope |-> pending[i].scope,
                                update |-> pending[i]]
      OBVIOUS
    <3> QED
      BY <2>1, <3>1
  <2>3. ASSUME NEW a \in new
        PROVE  row(a) \in appended
    BY <2>1
  <2> QED
    BY <2>2, <2>3
<1>6. disk'.changes = {c \in work.changes : Retained(c.seq, L + n)}
  BY <1>1 DEF PruneChanges
<1>7. \A m \in Nat : Retained(m, L + n) => Retained(m, L)
  BY <1>1
<1>8. work.changes = {row(a) : a \in {b \in disk.applied : Retained(b.seq, L)}}
                       \cup {row(a) : a \in new}
  BY <1>1, <1>2, <1>5
<1>9. \A a : row(a).seq = a.seq
  OBVIOUS
<1> HIDE DEF row, new, appended, Retained
<1>10. {c \in work.changes : Retained(c.seq, L + n)} \subseteq Newest(disk')
  BY <1>4, <1>8, <1>9
<1>11. Newest(disk') \subseteq {c \in work.changes : Retained(c.seq, L + n)}
  BY <1>3, <1>4, <1>7, <1>8, <1>9
<1> QED
  BY <1>6, <1>10, <1>11

LEMMA CommitIInv ==
  ASSUME IInv, Commit
  PROVE  IInv'
<1>1. TablesAgree(disk')
  BY CommitSeqs, CommitLatest, CommitNewest DEF TablesAgree
<1>2. TablesAgree(disk)'
  BY <1>1 DEF TablesAgree, SeqsAgree, LatestAgrees, Newest
<1>3. /\ reply' = [type |-> "accepted", batch |-> batch,
                   updates |-> SequencedUpdates, watermark |-> work.lastSeq]
      /\ phase = "append" /\ batch \in Seq(Update) /\ work.lastSeq \in Nat
      /\ EndTransaction
  BY DEF Commit, Accept, IInv, TypeOK, Tables
<1>4. reply' \in Reply
  BY <1>3, CommitFacts DEF Reply
<1>5. TypeOK'
  BY <1>3, <1>4, CommitFacts DEF TypeOK, EndTransaction
<1>6. PendingIsNew' /\ WorkAgrees'
  BY <1>3, CommitFacts DEF PendingIsNew, WorkAgrees, EndTransaction
<1>7. ASSUME NEW i \in DOMAIN batch
      PROVE  \E a \in disk'.applied :
               a.update = batch[i] /\ a.seq <= work.lastSeq
  <2>1. /\ work.lastSeq = disk'.lastSeq
        /\ \A a \in disk'.applied : a.seq <= disk'.lastSeq
    BY <1>1, <1>3, CommitFacts DEF TablesAgree, SeqsAgree, Appended, Tables
  <2>2. CASE batch[i] \in AppliedUpdates(disk)
    BY <2>1, <2>2, CommitFacts DEF AppliedUpdates
  <2>3. ASSUME NEW j \in DOMAIN pending, pending[j] = batch[i]
        PROVE  \E a \in disk'.applied : a.update = batch[i]
    <3> DEFINE a == [update |-> pending[j], seq |-> disk.lastSeq + j]
    <3>1. a \in disk'.applied /\ a.update = batch[i]
      BY <2>3, CommitFacts
    <3> QED
      BY <3>1
  <2> QED
    BY <1>3, <2>1, <2>2, <2>3 DEF IInv, PendingIsNew, Seen
<1>8. AcceptedIsApplied' /\ OnlyLimiterRefusesRetry'
  BY <1>3, <1>7 DEF AcceptedIsApplied, OnlyLimiterRefusesRetry
<1> QED
  BY <1>2, <1>5, <1>6, <1>8 DEF IInv

-----------------------------------------------------------------------------
LEMMA StepIInv == IInv /\ [Next]_vars => IInv'
<1> SUFFICES ASSUME IInv, [Next]_vars
             PROVE  IInv'
  OBVIOUS
<1>1. ASSUME NEW b \in Batches, Receive(b)
      PROVE  IInv'
  BY <1>1, ReceiveIInv
<1>2. ASSUME NEW b \in Batches, LimitRate(b) \/ Refuse(b)
      PROVE  IInv'
  BY <1>2, RefuseIInv
<1>3. CASE DedupUpdate
  BY <1>3, DedupUpdateIInv
<1>4. CASE AcceptRetry
  BY <1>4, AcceptRetryIInv
<1>5. CASE DedupDone \/ ApplyUpdate \/ ApplyDone
  BY <1>5, LoopIInv
<1>6. CASE AppendChange
  BY <1>6, AppendChangeIInv
<1>7. CASE Commit
  BY <1>7, CommitIInv
<1>8. CASE Throw
  BY <1>8, ThrowIInv
<1>9. CASE Evict
  BY <1>9, EvictIInv
<1>10. CASE UNCHANGED vars
  BY <1>10, StutterIInv
<1> QED
  BY <1>1, <1>2, <1>3, <1>4, <1>5, <1>6, <1>7, <1>8, <1>9, <1>10 DEF Next

THEOREM Invariance == Spec => []IInv
<1>1. Init => IInv
  BY InitIInv
<1>2. IInv /\ [Next]_vars => IInv'
  BY StepIInv
<1> QED
  BY <1>1, <1>2, PTL DEF Spec

-----------------------------------------------------------------------------
(* The tables always have their types, in the middle of a transaction too. *)
THEOREM TypeCorrect == Spec => []TypeOK
<1>1. IInv => TypeOK
  BY DEF IInv
<1> QED
  BY <1>1, Invariance, PTL

(* A mutation id is applied once, and sequence numbers are never shared.   *)
THEOREM AppliedOnceHolds == Spec => []AppliedOnce
<1>1. IInv => AppliedOnce
  BY DEF IInv, TablesAgree, SeqsAgree, AppliedOnce
<1> QED
  BY <1>1, Invariance, PTL

(* The history is the newest MaxChanges applied updates, for every         *)
(* retention limit, zero and the unlimited ones included.                  *)
THEOREM HistoryIsNewestHolds == Spec => []HistoryIsNewest
<1>1. IInv => HistoryIsNewest
  BY DEF IInv, TablesAgree, HistoryIsNewest
<1> QED
  BY <1>1, Invariance, PTL

(* An accepted push is applied in full and covered by its watermark.       *)
THEOREM AcceptedIsAppliedHolds == Spec => []AcceptedIsApplied
<1>1. IInv => AcceptedIsApplied
  BY DEF IInv
<1> QED
  BY <1>1, Invariance, PTL

(* A push that was applied in full is refused by the rate limiter only.    *)
THEOREM OnlyLimiterRefusesRetryHolds == Spec => []OnlyLimiterRefusesRetry
<1>1. IInv => OnlyLimiterRefusesRetry
  BY DEF IInv
<1> QED
  BY <1>1, Invariance, PTL

-----------------------------------------------------------------------------
(* A change that isCursorStale does not miss is still in the table: if the *)
(* oldest kept row of the scope is no older than the change after the      *)
(* cursor, the change itself was not pruned.                               *)
LEMMA CursorReaches ==
  ASSUME NEW t \in Tables, TablesAgree(t),
         NEW s \in Scopes, NEW cursor \in Nat,
         ~IsCursorStale(t.changes, t.latest, s, cursor),
         NEW a \in t.applied, a.update.scope = s, a.seq > cursor
  PROVE  [seq |-> a.seq, scope |-> s, update |-> a.update]
           \in InScope(t.changes, s)
<1> DEFINE kept == InScope(t.changes, s)
           numbers == SeqNumbers(kept)
           oldest == Min(numbers)
<1>1. /\ a.seq \in Nat /\ t.lastSeq \in Nat /\ MaxChanges \in Int
      /\ t.latest[s] \in Nat
      /\ a.seq <= t.latest[s]
      /\ t.changes \in SUBSET Change
  BY HistoryAssumption DEF Tables, AppliedRow, TablesAgree, LatestAgrees
<1>2. /\ t.latest[s] # 0
      /\ ~(IF kept = {} THEN cursor < t.latest[s] ELSE cursor < oldest - 1)
  BY <1>1 DEF IsCursorStale
<1>3. kept # {}
  BY <1>1, <1>2
<1>4. numbers \in SUBSET Nat /\ numbers # {}
  BY <1>1, <1>3 DEF SeqNumbers, InScope, Change
<1>5. oldest \in numbers
  BY <1>4, MinIsLeast
<1>6. PICK c \in kept : c.seq = oldest
  BY <1>5 DEF SeqNumbers
<1>7. MaxChanges >= 0 => c.seq > t.lastSeq - MaxChanges
  BY <1>6 DEF InScope, TablesAgree, Newest
<1>8. a.seq >= c.seq
  <2>1. c.seq \in Nat
    BY <1>4, <1>5, <1>6
  <2>2. ~(cursor < c.seq - 1)
    BY <1>2, <1>3, <1>6
  <2> QED
    BY <1>1, <2>1, <2>2
<1>9. MaxChanges >= 0 => a.seq > t.lastSeq - MaxChanges
  BY <1>1, <1>4, <1>5, <1>6, <1>7, <1>8
<1> DEFINE row == [seq |-> a.seq, scope |-> a.update.scope,
                   update |-> a.update]
<1>10. row \in t.changes
  BY <1>9 DEF TablesAgree, Newest
<1> QED
  BY <1>10 DEF InScope

(* A cursor that is not refused misses no applied update, for every        *)
(* retention limit, every set of collections and every interleaving.       *)
THEOREM NoSilentGapHolds == Spec => []NoSilentGap
<1>1. IInv => NoSilentGap
  <2> SUFFICES ASSUME IInv, NEW s \in Scopes, NEW cursor \in 0..disk.lastSeq,
                      ~IsCursorStale(disk.changes, disk.latest, s, cursor),
                      NEW a \in disk.applied,
                      a.update.scope = s, a.seq > cursor
               PROVE  \E c \in InScope(disk.changes, s) :
                        c.seq = a.seq /\ c.update = a.update
    BY DEF NoSilentGap
  <2>1. disk \in Tables /\ TablesAgree(disk) /\ cursor \in Nat
    BY DEF IInv, TypeOK
  <2> DEFINE c == [seq |-> a.seq, scope |-> s, update |-> a.update]
  <2>2. c \in InScope(disk.changes, s)
    BY <2>1, CursorReaches
  <2> QED
    BY <2>2
<1> QED
  BY <1>1, Invariance, PTL

-----------------------------------------------------------------------------
(* The tables implement the abstract log.                                  *)
LEMMA UpdateAtIs ==
  ASSUME NEW applied \in SUBSET AppliedRow, NEW a \in applied,
         \A b, c \in applied : b.seq = c.seq => b = c
  PROVE  (CHOOSE b \in applied : b.seq = a.seq) = a
OBVIOUS

LEMMA LogIs ==
  ASSUME NEW t \in Tables, SeqsAgree(t)
  PROVE  /\ LogOf(t) \in Seq(Update) /\ Len(LogOf(t)) = t.lastSeq
         /\ DOMAIN LogOf(t) = 1..t.lastSeq
         /\ t.lastSeq \in Nat
         /\ \A a \in t.applied : LogOf(t)[a.seq] = a.update
         /\ \A n \in 1..t.lastSeq :
              \E a \in t.applied : a.seq = n /\ LogOf(t)[n] = a.update
<1>1. t.lastSeq \in Nat /\ t.applied \in SUBSET AppliedRow
  BY DEF Tables
<1>2. \A b, c \in t.applied : b.seq = c.seq => b = c
  BY <1>1 DEF SeqsAgree
<1>3. ASSUME NEW a \in t.applied
      PROVE  a.seq \in 1..t.lastSeq /\ UpdateAt(t, a.seq) = a.update
  BY <1>1, <1>2, UpdateAtIs DEF SeqsAgree, UpdateAt
<1>4. ASSUME NEW n \in 1..t.lastSeq
      PROVE  \E a \in t.applied : a.seq = n /\ UpdateAt(t, n) = a.update
  <2>1. PICK a \in t.applied : a.seq = n
    BY DEF SeqsAgree
  <2> QED
    BY <1>3, <2>1
<1>5. \A n \in 1..t.lastSeq : UpdateAt(t, n) \in Update
  BY <1>1, <1>4 DEF AppliedRow
<1>6. LogOf(t) \in Seq(Update) /\ Len(LogOf(t)) = t.lastSeq
  BY <1>1, <1>5 DEF LogOf
<1> QED
  BY <1>1, <1>3, <1>4, <1>6 DEF LogOf

LEMMA LogInit == Init => Log!Init
<1> SUFFICES ASSUME Init
             PROVE  LogOf(disk) = <<>>
  BY DEF Log!Init
<1>1. disk.lastSeq = 0
  BY DEF Init, EmptyTables
<1> QED
  BY <1>1 DEF LogOf

(* The log after a commit: the old entries, then the pending updates.      *)
LEMMA LogAfterCommit ==
  ASSUME IInv, IInv', Commit
  PROVE  LET L == disk.lastSeq
             n == Len(pending)
         IN  /\ LogOf(disk') \in Seq(Update) /\ Len(LogOf(disk')) = L + n
             /\ DOMAIN LogOf(disk') = 1..(L + n)
             /\ \A i \in 1..L : LogOf(disk')[i] = LogOf(disk)[i]
             /\ \A i \in 1..n : LogOf(disk')[L + i] = pending[i]
<1> DEFINE L == disk.lastSeq
           n == Len(pending)
<1>1. /\ L \in Nat /\ n \in Nat \ {0} /\ disk'.lastSeq = L + n
      /\ disk'.applied = disk.applied \cup
           {[update |-> pending[i], seq |-> disk.lastSeq + i] : i \in 1..n}
  BY CommitFacts
<1>0. /\ disk \in Tables /\ SeqsAgree(disk)
      /\ disk' \in Tables /\ SeqsAgree(disk')
  BY CommitFacts, CommitSeqs DEF IInv, TablesAgree
<1>2. /\ LogOf(disk') \in Seq(Update) /\ Len(LogOf(disk')) = disk'.lastSeq
      /\ DOMAIN LogOf(disk') = 1..disk'.lastSeq
      /\ \A a \in disk'.applied : LogOf(disk')[a.seq] = a.update
  BY <1>0, LogIs
<1>3. ASSUME NEW i \in 1..L
      PROVE  LogOf(disk')[i] = LogOf(disk)[i]
  <2>1. PICK a \in disk.applied : a.seq = i /\ LogOf(disk)[i] = a.update
    BY <1>0, LogIs
  <2> QED
    BY <1>1, <1>2, <2>1
<1>4. ASSUME NEW i \in 1..n
      PROVE  LogOf(disk')[L + i] = pending[i]
  <2> DEFINE a == [update |-> pending[i], seq |-> disk.lastSeq + i]
  <2>1. a \in disk'.applied /\ a.seq = L + i /\ a.update = pending[i]
    BY <1>1
  <2> QED
    BY <1>2, <2>1
<1> QED
  BY <1>1, <1>2, <1>3, <1>4

LEMMA CommitPushes ==
  ASSUME IInv, IInv', Commit
  PROVE  Log!Push(batch)
<1> DEFINE L == disk.lastSeq
           n == Len(pending)
           old == LogOf(disk)
           new == LogOf(disk')
<1>1. /\ L \in Nat /\ n \in Nat \ {0} /\ DOMAIN pending = 1..n
  BY CommitFacts
<1>2. /\ Len(new) = L + n /\ DOMAIN new = 1..(L + n)
      /\ \A i \in 1..L : new[i] = old[i]
      /\ \A i \in 1..n : new[L + i] = pending[i]
  BY LogAfterCommit
<1>0. /\ disk \in Tables /\ SeqsAgree(disk)
      /\ disk' \in Tables /\ SeqsAgree(disk')
  BY CommitFacts, CommitSeqs DEF IInv, TablesAgree
<1>3. Len(old) = L /\ DOMAIN old = 1..L
  BY <1>0, LogIs
<1>4. /\ PendingIsNew /\ phase = "append"
  BY DEF IInv, Commit
<1>5. /\ \A a \in disk'.applied : new[a.seq] = a.update
      /\ \A i \in DOMAIN new :
           \E a \in disk'.applied : a.seq = i /\ new[i] = a.update
      /\ \A a, b \in disk'.applied : a.update.id = b.update.id => a = b
  BY <1>0, LogIs DEF SeqsAgree
<1>6. \A a \in disk.applied : \E i \in DOMAIN old : old[i] = a.update
  BY <1>0, LogIs DEF SeqsAgree
<1>7. \A i \in DOMAIN old : old[i] \in AppliedUpdates(disk)
  BY <1>0, LogIs DEF AppliedUpdates
<1> HIDE DEF L, n, old, new
<1>8. Log!IsExtension(old, new)
  BY <1>1, <1>2, <1>3 DEF Log!IsExtension
<1>9. Log!IdsOnce(new)
  BY <1>5 DEF Log!IdsOnce
<1>10. \A i \in DOMAIN new :
         \/ i \in DOMAIN old /\ new[i] = old[i]
         \/ \E j \in 1..n : i = L + j /\ new[i] = pending[j]
  <2> TAKE i \in DOMAIN new
  <2>1. CASE i \in 1..L
    BY <1>2, <1>3, <2>1
  <2>2. CASE i \notin 1..L
    <3>1. i - L \in 1..n /\ i = L + (i - L)
      BY <1>1, <1>2, <2>2
    <3> QED
      BY <1>2, <3>1
  <2> QED
    BY <2>1, <2>2
<1>11. Log!Elements(new) = Log!Elements(old) \cup Log!Elements(batch)
  <2>1. ASSUME NEW i \in DOMAIN new
        PROVE  new[i] \in Log!Elements(old) \cup Log!Elements(batch)
    BY <1>1, <1>4, <1>10 DEF Log!Elements, PendingIsNew
  <2>2. ASSUME NEW i \in DOMAIN old
        PROVE  old[i] \in Log!Elements(new)
    <3>1. i \in DOMAIN new /\ new[i] = old[i]
      BY <1>1, <1>2, <1>3
    <3> QED
      BY <3>1 DEF Log!Elements
  <2>3. ASSUME NEW i \in DOMAIN batch
        PROVE  batch[i] \in Log!Elements(new)
    <3>1. CASE batch[i] \in AppliedUpdates(disk)
      <4>1. PICK j \in DOMAIN old : old[j] = batch[i]
        BY <1>6, <3>1 DEF AppliedUpdates
      <4> QED
        BY <2>2, <4>1
    <3>2. ASSUME NEW j \in DOMAIN pending, pending[j] = batch[i]
          PROVE  batch[i] \in Log!Elements(new)
      <4>1. L + j \in DOMAIN new /\ new[L + j] = batch[i]
        BY <1>1, <1>2, <3>2
      <4> QED
        BY <4>1 DEF Log!Elements
    <3> QED
      BY <1>4, <3>1, <3>2 DEF PendingIsNew, Seen
  <2> QED
    BY <2>1, <2>2, <2>3 DEF Log!Elements
<1>12. Log!InBatchOrder(old, new, batch)
  <2> SUFFICES ASSUME NEW p \in (L + 1)..(L + n), NEW q \in (L + 1)..(L + n),
                      p < q
               PROVE  \E i, j \in DOMAIN batch :
                        i < j /\ batch[i] = new[p] /\ batch[j] = new[q]
    BY <1>2, <1>3 DEF Log!InBatchOrder
  <2>1. /\ p - L \in 1..n /\ q - L \in 1..n /\ p - L < q - L
        /\ p = L + (p - L) /\ q = L + (q - L)
    BY <1>1
  <2>2. new[p] = pending[p - L] /\ new[q] = pending[q - L]
    BY <1>2, <2>1
  <2>3. \E i, j \in DOMAIN batch :
          i < j /\ batch[i] = pending[p - L] /\ batch[j] = pending[q - L]
    <3>1. \A g, h \in 1..n :
            g < h => \E i, j \in DOMAIN batch :
                       i < j /\ batch[i] = pending[g] /\ batch[j] = pending[h]
      <4>1. \A g, h \in DOMAIN pending :
              g < h => \E i, j \in DOMAIN batch :
                         /\ i < j /\ Seen(j)
                         /\ batch[i] = pending[g] /\ batch[j] = pending[h]
        BY <1>4, Zenon DEF PendingIsNew
      <4> QED
        BY <1>1, <4>1
    <3> QED
      BY <2>1, <3>1
  <2> QED
    BY <2>2, <2>3
<1> QED
  BY <1>8, <1>9, <1>11, <1>12 DEF Log!Push, old, new

LEMMA StepRefines == IInv /\ IInv' /\ [Next]_vars => [Log!Next]_(LogOf(disk))
<1> SUFFICES ASSUME IInv, IInv', [Next]_vars
             PROVE  [Log!Next]_(LogOf(disk))
  OBVIOUS
<1>1. CASE Commit
  <2>1. batch \in Batches
    BY <1>1 DEF Commit, IInv, WorkAgrees
  <2> QED
    BY <1>1, <2>1, CommitPushes DEF Log!Next
<1>2. CASE UNCHANGED disk
  BY <1>2 DEF LogOf, UpdateAt
<1>3. Commit \/ UNCHANGED disk
  BY DEF Next, vars, Receive, LimitRate, Refuse, DedupUpdate, AcceptRetry, DedupDone,
         ApplyUpdate, ApplyDone, AppendChange, Throw, Evict
<1> QED
  BY <1>1, <1>2, <1>3

(* The transaction, with its loops, its rollbacks and its evictions,       *)
(* implements the atomic log.                                              *)
THEOREM Refinement == Spec => ImplementsLog
<1>1. Init => Log!Init
  BY LogInit
<1>2. IInv /\ IInv' /\ [Next]_vars => [Log!Next]_(LogOf(disk))
  BY StepRefines
<1> QED
  BY <1>1, <1>2, Invariance, PTL DEF Spec, Log!Spec, ImplementsLog

-----------------------------------------------------------------------------
(* The rows are the replay of the applied updates.  A replay is written    *)
(* here as the function g of the rows after each of the first n entries of *)
(* a log.                                                                  *)
ReplayStep(rows, u) ==
  IF u.scope \notin StoredScopes THEN rows ELSE WriteRow(rows, u)

IsReplay(g, base, log, n) ==
  /\ g = [i \in 0..n |-> g[i]]
  /\ g[0] = base
  /\ \A i \in 1..n : g[i] = ReplayStep(g[i - 1], log[i])

Reaches(base, log, n, rows) == \E g : IsReplay(g, base, log, n) /\ g[n] = rows

LEMMA ReplayNothing ==
  ASSUME NEW base, NEW log
  PROVE  Reaches(base, log, 0, base)
<1> DEFINE g == [i \in 0..0 |-> base]
<1>1. g[0] = base /\ 1..0 = {}
  OBVIOUS
<1>2. IsReplay(g, base, log, 0)
  BY <1>1 DEF IsReplay
<1> QED
  BY <1>1, <1>2 DEF Reaches

LEMMA ReplayOneMore ==
  ASSUME NEW base, NEW log, NEW n \in Nat, NEW rows,
         Reaches(base, log, n, rows)
  PROVE  Reaches(base, log, n + 1, ReplayStep(rows, log[n + 1]))
<1>1. PICK g : IsReplay(g, base, log, n) /\ g[n] = rows
  BY DEF Reaches
<1> DEFINE last == ReplayStep(rows, log[n + 1])
           h == [i \in 0..(n + 1) |-> IF i = n + 1 THEN last ELSE g[i]]
<1>2. h[n + 1] = last /\ \A i \in 0..n : h[i] = g[i]
  OBVIOUS
<1>3. ASSUME NEW i \in 1..(n + 1)
      PROVE  h[i] = ReplayStep(h[i - 1], log[i])
  <2>1. CASE i = n + 1
    <3>1. i - 1 = n /\ n \in 0..n
      BY <2>1
    <3> QED
      BY <1>1, <1>2, <2>1, <3>1
  <2>2. CASE i # n + 1
    <3>1. i \in 1..n /\ i \in 0..n /\ i - 1 \in 0..n
      BY <2>2
    <3> QED
      BY <1>1, <1>2, <3>1 DEF IsReplay
  <2> QED
    BY <2>1, <2>2
<1>4. h[0] = base
  BY <1>1, <1>2 DEF IsReplay
<1>5. h = [i \in 0..(n + 1) |-> h[i]]
  OBVIOUS
<1> HIDE DEF h, last
<1>6. IsReplay(h, base, log, n + 1)
  BY <1>3, <1>4, <1>5 DEF IsReplay
<1> QED
  BY <1>2, <1>6 DEF Reaches, last

(* A replay looks only at the entries it replays.                          *)
LEMMA ReplayOfSame ==
  ASSUME NEW base, NEW log, NEW other, NEW n \in Nat, NEW rows,
         \A i \in 1..n : other[i] = log[i],
         Reaches(base, log, n, rows)
  PROVE  Reaches(base, other, n, rows)
<1>1. PICK g : IsReplay(g, base, log, n) /\ g[n] = rows
  BY DEF Reaches
<1>2. IsReplay(g, base, other, n)
  BY <1>1 DEF IsReplay
<1> QED
  BY <1>1, <1>2 DEF Reaches

LEMMA ReplayJoin ==
  ASSUME NEW base, NEW log, NEW more, NEW n \in Nat, NEW k \in Nat,
         NEW mid, NEW rows,
         Reaches(base, log, n, mid),
         Reaches(mid, more, k, rows),
         \A i \in 1..k : log[n + i] = more[i]
  PROVE  Reaches(base, log, n + k, rows)
<1>1. PICK g : IsReplay(g, base, log, n) /\ g[n] = mid
  BY DEF Reaches
<1>2. PICK h : IsReplay(h, mid, more, k) /\ h[k] = rows
  BY DEF Reaches
<1> DEFINE f == [i \in 0..(n + k) |-> IF i <= n THEN g[i] ELSE h[i - n]]
<1>3. \A i \in 0..n : f[i] = g[i]
  OBVIOUS
<1>4. \A i \in 0..k : f[n + i] = h[i]
  <2> TAKE i \in 0..k
  <2>1. CASE i = 0
    BY <1>1, <1>2, <1>3, <2>1 DEF IsReplay
  <2>2. CASE i # 0
    <3>1. n + i \in 0..(n + k) /\ ~(n + i <= n) /\ (n + i) - n = i
      BY <2>2
    <3> QED
      BY <3>1
  <2> QED
    BY <2>1, <2>2
<1>5. f = [i \in 0..(n + k) |-> f[i]]
  OBVIOUS
<1> HIDE DEF f
<1>6. ASSUME NEW i \in 1..(n + k)
      PROVE  f[i] = ReplayStep(f[i - 1], log[i])
  <2>1. CASE i <= n
    <3>1. i \in 1..n /\ i \in 0..n /\ i - 1 \in 0..n
      BY <2>1
    <3> QED
      BY <1>1, <1>3, <3>1 DEF IsReplay
  <2>2. CASE ~(i <= n)
    <3>1. PICK j \in 1..k : i = n + j
      <4>1. i - n \in 1..k /\ i = n + (i - n)
        BY <2>2
      <4> QED
        BY <4>1
    <3>2. i - 1 = n + (j - 1) /\ j \in 0..k /\ j - 1 \in 0..k
      BY <3>1
    <3>3. f[i] = h[j] /\ f[i - 1] = h[j - 1] /\ log[i] = more[j]
      BY <1>4, <3>1, <3>2
    <3> QED
      BY <1>2, <3>3 DEF IsReplay
  <2> QED
    BY <2>1, <2>2
<1>7. f[0] = base
  BY <1>1, <1>3 DEF IsReplay
<1>8. IsReplay(f, base, log, n + k)
  BY <1>5, <1>6, <1>7 DEF IsReplay
<1>9. f[n + k] = rows
  BY <1>2, <1>4
<1> QED
  BY <1>8, <1>9 DEF Reaches

(* Every log can be replayed to every length, in one way.                  *)
LEMMA ReplayReaches ==
  ASSUME NEW base, NEW log, NEW n \in Nat
  PROVE  \E rows : Reaches(base, log, n, rows)
<1> DEFINE stuck == {k \in Nat : ~ \E rows : Reaches(base, log, k, rows)}
<1>1. ASSUME stuck # {}
      PROVE  FALSE
  <2>1. PICK m \in stuck : \A k \in stuck : m <= k
    BY <1>1, LeastNumber
  <2>2. m # 0
    BY <2>1, ReplayNothing
  <2>3. m - 1 \in Nat /\ m - 1 \notin stuck /\ (m - 1) + 1 = m
    BY <2>1, <2>2
  <2>4. PICK rows : Reaches(base, log, m - 1, rows)
    BY <2>3
  <2>5. Reaches(base, log, (m - 1) + 1, ReplayStep(rows, log[(m - 1) + 1]))
    BY <2>3, <2>4, ReplayOneMore
  <2> QED
    BY <2>1, <2>3, <2>5
<1> QED
  BY <1>1

LEMMA ReplayIsUnique ==
  ASSUME NEW base, NEW log, NEW p \in Nat, NEW q \in Nat, NEW g, NEW h,
         IsReplay(g, base, log, p), IsReplay(h, base, log, q)
  PROVE  \A i \in Nat : i <= p /\ i <= q => g[i] = h[i]
<1> DEFINE differ == {i \in Nat : i <= p /\ i <= q /\ g[i] # h[i]}
<1>1. ASSUME differ # {}
      PROVE  FALSE
  <2>1. PICK m \in differ : \A i \in differ : m <= i
    BY <1>1, LeastNumber
  <2>2. m # 0
    BY <2>1 DEF IsReplay
  <2>3. m - 1 \in Nat /\ m - 1 \notin differ /\ m \in 1..p /\ m \in 1..q
    BY <2>1, <2>2
  <2>4. g[m - 1] = h[m - 1]
    BY <2>3
  <2> QED
    BY <2>1, <2>3, <2>4 DEF IsReplay
<1> QED
  BY <1>1

IsFullReplay(f, base, log) ==
  /\ f = [n \in Nat |-> f[n]]
  /\ \A n \in Nat : f[n] = IF n = 0 THEN base
                       ELSE ReplayStep(f[n - 1], log[n])

(* The recursive definition of Replay has a solution, and so satisfies its *)
(* equation.                                                               *)
LEMMA ReplayIsDefined ==
  ASSUME NEW base, NEW log
  PROVE  \E f : IsFullReplay(f, base, log)
<1> DEFINE to(n) == CHOOSE g : IsReplay(g, base, log, n)
           f == [n \in Nat |-> to(n)[n]]
<1>1. \A n \in Nat : IsReplay(to(n), base, log, n)
  BY ReplayReaches DEF Reaches
<1>2. \A n \in Nat : f[n] = to(n)[n]
  OBVIOUS
<1>3. f = [n \in Nat |-> f[n]]
  OBVIOUS
<1> HIDE DEF to, f
<1>4. f[0] = base
  BY <1>1, <1>2 DEF IsReplay
<1>5. ASSUME NEW n \in Nat, n # 0
      PROVE  f[n] = ReplayStep(f[n - 1], log[n])
  <2>1. n - 1 \in Nat /\ n - 1 <= n /\ n \in 1..n
    BY <1>5
  <2>2. to(n)[n - 1] = to(n - 1)[n - 1]
    BY <1>1, <2>1, ReplayIsUnique
  <2>3. to(n)[n] = ReplayStep(to(n)[n - 1], log[n])
    BY <1>1, <2>1 DEF IsReplay
  <2> QED
    BY <1>2, <2>1, <2>2, <2>3
<1>6. \A n \in Nat : f[n] = IF n = 0 THEN base
                            ELSE ReplayStep(f[n - 1], log[n])
  BY <1>4, <1>5
<1> QED
  BY <1>3, <1>6 DEF IsFullReplay

LEMMA ReplayIs ==
  \A n \in Nat : Replay[n] = IF n = 0 THEN Seed
                             ELSE ReplayStep(Replay[n - 1], UpdateAt(disk, n))
<1>0. PICK log : log = [n \in Nat |-> UpdateAt(disk, n)]
  OBVIOUS
<1> DEFINE E(f) == [n \in Nat |-> IF n = 0 THEN Seed
                                  ELSE ReplayStep(f[n - 1], log[n])]
           D(f) == [n \in Nat |->
                      IF n = 0 THEN Seed
                      ELSE LET u == UpdateAt(disk, n) IN
                           IF u.scope \notin StoredScopes THEN f[n - 1]
                           ELSE WriteRow(f[n - 1], u)]
<1>1. \A f : E(f) = D(f)
  BY <1>0 DEF ReplayStep
<1>2. \E f : f = E(f)
  <2>1. PICK f : IsFullReplay(f, Seed, log)
    BY ReplayIsDefined
  <2>2. f = E(f)
    BY <2>1 DEF IsFullReplay
  <2> QED
    BY <2>2
<1>3. Replay = CHOOSE f : f = D(f)
  BY DEF Replay
<1>4. Replay = D(Replay)
  <2> HIDE DEF D, E
  <2>1. \E f : f = D(f)
    BY <1>1, <1>2
  <2> QED
    BY <1>3, <2>1
<1>5. Replay = E(Replay)
  BY <1>1, <1>4
<1> QED
  BY <1>0, <1>5

(* The rows that a trace of the replay ends with are those of Replay.      *)
LEMMA ReplayEnds ==
  \A g : \A n \in Nat :
    IsReplay(g, Seed, LogOf(disk), n) /\ n <= disk.lastSeq
      /\ disk.lastSeq \in Nat => Replay[n] = g[n]
<1> SUFFICES ASSUME NEW g, NEW n \in Nat,
                    IsReplay(g, Seed, LogOf(disk), n), n <= disk.lastSeq,
                    disk.lastSeq \in Nat
             PROVE  Replay[n] = g[n]
  OBVIOUS
<1> DEFINE differ == {i \in Nat : i <= n /\ Replay[i] # g[i]}
<1>1. ASSUME differ # {}
      PROVE  FALSE
  <2>1. PICK m \in differ : \A i \in differ : m <= i
    BY <1>1, LeastNumber
  <2>2. m # 0
    <3>1. Replay[0] = Seed
      BY ReplayIs
    <3> QED
      BY <2>1, <3>1 DEF IsReplay
  <2>3. /\ m \in Nat /\ m - 1 \in Nat /\ m - 1 \notin differ
        /\ m \in 1..n /\ m \in 1..disk.lastSeq
    BY <2>1, <2>2
  <2>4. Replay[m - 1] = g[m - 1]
    BY <2>3
  <2>5. LogOf(disk)[m] = UpdateAt(disk, m)
    BY <2>3 DEF LogOf
  <2>6. Replay[m] = ReplayStep(Replay[m - 1], UpdateAt(disk, m))
    BY <2>2, <2>3, ReplayIs
  <2>7. g[m] = ReplayStep(g[m - 1], LogOf(disk)[m])
    BY <2>3 DEF IsReplay
  <2> QED
    BY <2>1, <2>4, <2>5, <2>6, <2>7
<1> QED
  BY <1>1

(* The committed rows are a replay of the log; those of the transaction    *)
(* are the committed rows with what it has applied of the batch, which is  *)
(* all of it once the changes are appended.                                *)
CommittedIsReplay == Reaches(Seed, LogOf(disk), disk.lastSeq, disk.rows)

WorkIsReplay ==
  /\ phase = "apply" =>
       pos - 1 <= Len(pending) /\ Reaches(disk.rows, pending, pos - 1, work.rows)
  /\ phase = "append" => Reaches(disk.rows, pending, Len(pending), work.rows)

LEMMA CommitIsReplay ==
  ASSUME IInv, IInv', CommittedIsReplay, WorkIsReplay, Commit
  PROVE  CommittedIsReplay'
<1> DEFINE L == disk.lastSeq
           n == Len(pending)
<1>1. /\ L \in Nat /\ n \in Nat /\ disk'.lastSeq = L + n
      /\ disk'.rows = work.rows
  BY CommitFacts
<1>2. /\ \A i \in 1..L : LogOf(disk')[i] = LogOf(disk)[i]
      /\ \A i \in 1..n : LogOf(disk')[L + i] = pending[i]
  BY LogAfterCommit
<1>3. Reaches(Seed, LogOf(disk), L, disk.rows)
  BY DEF CommittedIsReplay
<1>4. Reaches(disk.rows, pending, n, work.rows)
  BY DEF WorkIsReplay, Commit
<1> HIDE DEF L, n
<1>5. PICK old : old = LogOf(disk)
  OBVIOUS
<1>6. PICK new : new = LogOf(disk')
  OBVIOUS
<1>7. PICK mid : mid = disk.rows
  OBVIOUS
<1>8. PICK rows : rows = work.rows
  OBVIOUS
<1>9. PICK more : more = pending
  OBVIOUS
<1>10. PICK l \in Nat : l = L
  BY <1>1
<1>11. PICK k \in Nat : k = n
  BY <1>1
<1>12. Reaches(Seed, new, l, mid)
  <2>1. Reaches(Seed, old, l, mid) /\ \A i \in 1..l : new[i] = old[i]
    BY <1>2, <1>3, <1>5, <1>6, <1>7, <1>10
  <2> QED
    BY <2>1, ReplayOfSame
<1>13. Reaches(mid, more, k, rows) /\ \A i \in 1..k : new[l + i] = more[i]
  BY <1>2, <1>4, <1>6, <1>7, <1>8, <1>9, <1>10, <1>11
<1>14. Reaches(Seed, new, l + k, rows)
  BY <1>12, <1>13, ReplayJoin
<1>15. Reaches(Seed, LogOf(disk'), disk'.lastSeq, disk'.rows)
  BY <1>1, <1>6, <1>8, <1>10, <1>11, <1>14
<1> QED
  BY <1>15 DEF CommittedIsReplay

LEMMA ApplyIsReplay ==
  ASSUME IInv, WorkIsReplay, ApplyUpdate
  PROVE  WorkIsReplay'
<1>1. /\ phase = "apply" /\ phase' = "apply" /\ pos' = pos + 1
      /\ disk' = disk /\ pending' = pending /\ pos <= Len(pending)
      /\ pos \in Nat \ {0} /\ work \in Tables
  BY DEF ApplyUpdate, IInv, TypeOK
<1>2. work'.rows = ReplayStep(work.rows, pending[pos])
  BY <1>1 DEF ApplyUpdate, ReplayStep, Tables
<1>3. PICK n \in Nat : n = pos - 1
  BY <1>1
<1>4. Reaches(disk.rows, pending, n, work.rows)
  BY <1>1, <1>3 DEF WorkIsReplay
<1>5. Reaches(disk.rows, pending, n + 1, ReplayStep(work.rows, pending[n + 1]))
  BY <1>4, ReplayOneMore
<1>6. n + 1 = pos /\ pos' - 1 = pos
  BY <1>1, <1>3
<1>7. Reaches(disk'.rows, pending', pos' - 1, work'.rows)
  BY <1>1, <1>2, <1>5, <1>6
<1> QED
  BY <1>1, <1>6, <1>7 DEF WorkIsReplay

(* Each step keeps the rows a replay.                                      *)
LEMMA StepIsReplay ==
  ASSUME IInv, IInv', CommittedIsReplay, WorkIsReplay, [Next]_vars
  PROVE  CommittedIsReplay' /\ WorkIsReplay'
<1>1. CASE Commit
  <2>1. phase' = "idle"
    BY <1>1 DEF Commit, EndTransaction
  <2> QED
    BY <1>1, <2>1, CommitIsReplay DEF WorkIsReplay
<1>2. CASE ApplyUpdate
  <2>1. disk' = disk
    BY <1>2 DEF ApplyUpdate
  <2> QED
    BY <1>2, <2>1, ApplyIsReplay DEF CommittedIsReplay
<1>3. CASE DedupDone
  <2>1. /\ disk' = disk /\ work' = disk /\ phase' = "apply" /\ pos' = 1
        /\ pending' \in Seq(Update)
    BY <1>3 DEF DedupDone, NextLoop, IInv, WorkAgrees, TypeOK
  <2>2. Reaches(disk'.rows, pending', 0, disk'.rows)
    BY ReplayNothing
  <2>3. pos' - 1 = 0 /\ 0 <= Len(pending')
    BY <2>1
  <2> QED
    BY <2>1, <2>2, <2>3 DEF WorkIsReplay, CommittedIsReplay
<1>4. CASE ApplyDone
  <2>1. /\ phase = "apply" /\ phase' = "append" /\ pos > Len(pending)
        /\ disk' = disk /\ work' = work /\ pending' = pending
        /\ pos \in Nat \ {0} /\ pending \in Seq(Update)
    BY <1>4 DEF ApplyDone, NextLoop, IInv, TypeOK
  <2>2. pos - 1 = Len(pending)
    BY <2>1 DEF WorkIsReplay
  <2> QED
    BY <2>1, <2>2 DEF WorkIsReplay, CommittedIsReplay
<1>5. CASE AppendChange
  <2>1. /\ disk' = disk /\ work'.rows = work.rows /\ pending' = pending
        /\ phase = "append" /\ phase' = "append"
    BY <1>5 DEF AppendChange, IInv, TypeOK, Tables
  <2> QED
    BY <2>1 DEF WorkIsReplay, CommittedIsReplay
<1>6. CASE UNCHANGED vars
  BY <1>6 DEF vars, WorkIsReplay, CommittedIsReplay
<1>7. CASE disk' = disk /\ phase' \notin {"apply", "append"}
  BY <1>7 DEF WorkIsReplay, CommittedIsReplay
<1>8. \/ Commit \/ ApplyUpdate \/ DedupDone \/ ApplyDone \/ AppendChange
      \/ UNCHANGED vars \/ (disk' = disk /\ phase' \notin {"apply", "append"})
  <2>1. \A b \in Batches : Receive(b) =>
          disk' = disk /\ phase' \notin {"apply", "append"}
    BY DEF Receive, NextLoop
  <2>2. \A b \in Batches : LimitRate(b) \/ Refuse(b) =>
          disk' = disk /\ phase' \notin {"apply", "append"}
    BY DEF LimitRate, Refuse
  <2>3. DedupUpdate \/ AcceptRetry \/ Throw \/ Evict =>
          disk' = disk /\ phase' \notin {"apply", "append"}
    BY DEF DedupUpdate, AcceptRetry, Throw, Evict, EndTransaction
  <2> QED
    BY <2>1, <2>2, <2>3 DEF Next
<1> QED
  BY <1>1, <1>2, <1>3, <1>4, <1>5, <1>6, <1>7, <1>8

(* The rows are what the applied updates make of the initial data, in the  *)
(* order of their sequence numbers, also after failures and evictions in   *)
(* the middle of a batch (RowsAreReplay).                                  *)
THEOREM RowsAreReplayHolds == Spec => []RowsAreReplay
<1>1. Init => CommittedIsReplay /\ WorkIsReplay
  <2> SUFFICES ASSUME Init
               PROVE  CommittedIsReplay /\ WorkIsReplay
    OBVIOUS
  <2>1. disk.lastSeq = 0 /\ disk.rows = Seed /\ phase = "idle"
    BY DEF Init, EmptyTables
  <2>2. Reaches(Seed, LogOf(disk), 0, Seed)
    BY ReplayNothing
  <2> QED
    BY <2>1, <2>2 DEF CommittedIsReplay, WorkIsReplay
<1>2. IInv /\ IInv' /\ CommittedIsReplay /\ WorkIsReplay /\ [Next]_vars
        => CommittedIsReplay' /\ WorkIsReplay'
  BY StepIsReplay
<1>3. IInv /\ CommittedIsReplay => RowsAreReplay
  <2> SUFFICES ASSUME IInv, CommittedIsReplay
               PROVE  disk.rows = Replay[disk.lastSeq]
    BY DEF RowsAreReplay
  <2>1. disk.lastSeq \in Nat
    BY DEF IInv, TypeOK, Tables
  <2>2. PICK n \in Nat : n = disk.lastSeq
    BY <2>1
  <2>3. PICK g : IsReplay(g, Seed, LogOf(disk), n) /\ g[n] = disk.rows
    BY <2>2 DEF CommittedIsReplay, Reaches
  <2>4. Replay[n] = g[n]
    BY <2>1, <2>2, <2>3, ReplayEnds
  <2> QED
    BY <2>2, <2>3, <2>4
<1> QED
  BY <1>1, <1>2, <1>3, Invariance, PTL DEF Spec

-----------------------------------------------------------------------------
(***************************************************************************)
(* CatchUp.                                                                *)
(***************************************************************************)
(* The cursors of the requests lie between those that the client came back *)
(* with and the last number given out, and what it has received are the    *)
(* updates between the two.                                                *)
CursorsOk ==
  /\ status \in {"away", "reading", "done", "stale"}
  /\ DOMAIN cursors \in SUBSET Scopes
  /\ start \in [DOMAIN cursors -> Nat] /\ cursors \in [DOMAIN cursors -> Nat]
  /\ \A s \in DOMAIN cursors : start[s] <= cursors[s] /\ cursors[s] <= disk.lastSeq

GotIsApplied ==
  \A n \in got : \E s \in DOMAIN cursors : n \in Applied(s, start[s], cursors[s])

ReaderInv == CursorsOk /\ GotIsApplied /\ NothingSkipped

-----------------------------------------------------------------------------
(* The shard does not notice its reader.                                   *)
LEMMA ShardInvariance == CSpec => []IInv
<1>1. CInit => IInv
  BY InitIInv DEF CInit
<1>2. IInv /\ [CNext]_allVars => IInv'
  <2>1. [CNext]_allVars => [Next]_vars
    BY DEF CNext, allVars, ComeBack, ReadPage, GoAway
  <2> QED
    BY <2>1, StepIInv
<1> QED
  BY <1>1, <1>2, PTL DEF CSpec

(* The tables of a shard, as its readers need to know them.                *)
LEMMA TablesAre ==
  ASSUME IInv
  PROVE  /\ disk \in Tables /\ TablesAgree(disk)
         /\ disk.lastSeq \in Nat
         /\ \A a \in disk.applied : a.seq \in Nat /\ a.seq <= disk.lastSeq
         /\ Numbered(disk.changes)
         /\ \A c \in disk.changes : \E a \in disk.applied :
              c.seq = a.seq /\ c.scope = a.update.scope
         /\ ReadWatermark(disk.changes) \in Nat
         /\ ReadWatermark(disk.changes) <= disk.lastSeq
<1>1. disk \in Tables /\ TablesAgree(disk)
  BY DEF IInv, TypeOK
<1>2. disk.lastSeq \in Nat /\ disk.applied \in SUBSET AppliedRow
  BY <1>1 DEF Tables
<1>3. \A a \in disk.applied : a.seq \in Nat /\ a.seq <= disk.lastSeq
  BY <1>1, <1>2 DEF TablesAgree, SeqsAgree
<1>4. \A c \in disk.changes : \E a \in disk.applied :
        c = [seq |-> a.seq, scope |-> a.update.scope, update |-> a.update]
  BY <1>1 DEF TablesAgree, Newest
<1>5. \A a, b \in disk.applied : a.seq = b.seq => a = b
  BY <1>1 DEF TablesAgree, SeqsAgree
<1>6. \A c \in disk.changes : c.seq \in 0..disk.lastSeq
  BY <1>2, <1>3, <1>4
<1>7. \A c, d \in disk.changes : c.seq = d.seq => c = d
  <2> SUFFICES ASSUME NEW c \in disk.changes, NEW d \in disk.changes, c.seq = d.seq
               PROVE  c = d
    OBVIOUS
  <2>1. PICK a \in disk.applied :
          c = [seq |-> a.seq, scope |-> a.update.scope, update |-> a.update]
    BY <1>4
  <2>2. PICK b \in disk.applied :
          d = [seq |-> b.seq, scope |-> b.update.scope, update |-> b.update]
    BY <1>4
  <2> QED
    BY <1>5, <2>1, <2>2
<1>8. IsFiniteSet(disk.changes)
  <2> DEFINE number == [c \in disk.changes |-> c.seq]
  <2>1. number \in Injection(disk.changes, 0..disk.lastSeq)
    BY <1>6, <1>7 DEF Injection, IsInjective
  <2>2. IsFiniteSet(0..disk.lastSeq)
    BY <1>2, FS_Interval
  <2> QED
    BY <2>1, <2>2, FS_Injection
<1>9. ReadWatermark(disk.changes) \in Nat /\ ReadWatermark(disk.changes) <= disk.lastSeq
  <2>1. CASE MaxChanges # 0
    BY <1>1, <1>2, <2>1, WatermarkIsLast
  <2>2. CASE MaxChanges = 0
    <3>1. disk.changes = {}
      BY <1>1, <1>2, <1>3, <2>2 DEF TablesAgree, Newest
    <3> QED
      BY <1>2, <3>1 DEF ReadWatermark
  <2> QED
    BY <2>1, <2>2
<1> QED
  BY <1>1, <1>2, <1>3, <1>4, <1>6, <1>7, <1>8, <1>9 DEF Numbered

-----------------------------------------------------------------------------
(* The rows of a page: all those of the requested collections after the    *)
(* cursors, up to the last one of the page.                                *)
Selected == {c \in disk.changes : /\ c.scope \in DOMAIN cursors
                                  /\ c.seq > cursors[c.scope]}

(* An update after the cursor of its collection is selected, since the     *)
(* cursor is not stale.                                                    *)
LEMMA SelectedAll ==
  ASSUME IInv, ReaderInv, Page.type = "changes",
         NEW s \in DOMAIN cursors, NEW a \in disk.applied,
         a.update.scope = s, a.seq > cursors[s]
  PROVE  \E c \in Selected : c.scope = s /\ c.seq = a.seq
<1> USE DEF ReaderInv, CursorsOk
<1>1. ~IsCursorStale(disk.changes, disk.latest, s, cursors[s])
  BY DEF Page, ReadChanges
<1>2. disk \in Tables /\ TablesAgree(disk) /\ s \in Scopes /\ cursors[s] \in Nat
  BY TablesAre
<1> DEFINE c == [seq |-> a.seq, scope |-> s, update |-> a.update]
<1>3. c \in InScope(disk.changes, s)
  BY <1>1, <1>2, CursorReaches
<1> QED
  BY <1>3 DEF InScope, Selected

LEMMA PageIs ==
  ASSUME IInv, ReaderInv, Page.type = "changes"
  PROVE  /\ Numbered(Selected) /\ Numbered(Page.updates)
         /\ Page.updates \in SUBSET Selected
         /\ \A c \in Page.updates, d \in Selected : d.seq <= c.seq => d \in Page.updates
         /\ Page.hasMore \in BOOLEAN
         /\ ~Page.hasMore => Page.updates = Selected
         /\ Page.hasMore => Page.updates # {}
         /\ Page.cursors =
              [s \in DOMAIN cursors |->
                 IF Page.hasMore
                 THEN IF InScope(Page.updates, s) = {} THEN cursors[s]
                      ELSE Max(SeqNumbers(InScope(Page.updates, s)))
                 ELSE ReadWatermark(disk.changes)]
<1> DEFINE rows == FirstRows(Selected, PageLimit + 1)
           page == FirstRows(rows, PageLimit)
<1>1. PageLimit \in Nat \ {0} /\ PageLimit + 1 \in Nat
  BY CatchUpAssumption
<1>2. /\ Page.updates = page
      /\ Page.hasMore = (Cardinality(rows) > PageLimit)
      /\ Page.cursors =
           [s \in DOMAIN cursors |->
              IF Cardinality(rows) > PageLimit
              THEN IF InScope(page, s) = {} THEN cursors[s]
                   ELSE Max(SeqNumbers(InScope(page, s)))
              ELSE ReadWatermark(disk.changes)]
  BY DEF Page, ReadChanges, SelectChanges, Selected
<1>3. Numbered(Selected)
  BY TablesAre, NumberedSubset DEF Selected
<1>4. /\ rows \in SUBSET Selected
      /\ \A c \in rows, d \in Selected : d.seq <= c.seq => d \in rows
      /\ Cardinality(Selected) \in Nat
      /\ Cardinality(rows) = IF Cardinality(Selected) <= PageLimit + 1
                             THEN Cardinality(Selected) ELSE PageLimit + 1
      /\ Cardinality(Selected) <= PageLimit + 1 => rows = Selected
  BY <1>1, <1>3, FirstRowsAre
<1>5. Numbered(rows)
  BY <1>3, <1>4, NumberedSubset
<1> HIDE DEF rows
<1>6. /\ page \in SUBSET rows /\ IsFiniteSet(page)
      /\ \A c \in page, d \in rows : d.seq <= c.seq => d \in page
      /\ Cardinality(rows) \in Nat
      /\ Cardinality(page) = IF Cardinality(rows) <= PageLimit
                             THEN Cardinality(rows) ELSE PageLimit
      /\ Cardinality(rows) <= PageLimit => page = rows
  BY <1>1, <1>5, FirstRowsAre
<1> HIDE DEF page
<1>7. Numbered(page)
  BY <1>5, <1>6, NumberedSubset
<1>8. ~(Cardinality(rows) > PageLimit) => page = Selected
  BY <1>1, <1>4, <1>6
<1>9. Cardinality(rows) > PageLimit => page # {}
  BY <1>1, <1>6, FS_EmptySet
<1>10. \A c \in page, d \in Selected : d.seq <= c.seq => d \in page
  BY <1>4, <1>6
<1>11. Page.hasMore \in BOOLEAN /\ (Page.hasMore <=> Cardinality(rows) > PageLimit)
  <2>1. Page.hasMore = (Cardinality(rows) > PageLimit)
    BY <1>2
  <2>2. (Cardinality(rows) > PageLimit) \in BOOLEAN
    OBVIOUS
  <2> QED
    BY <2>1, <2>2, Zenon
<1>12. Page.cursors =
         [s \in DOMAIN cursors |->
            IF Page.hasMore
            THEN IF InScope(page, s) = {} THEN cursors[s]
                 ELSE Max(SeqNumbers(InScope(page, s)))
            ELSE ReadWatermark(disk.changes)]
  BY <1>2, <1>11
<1>13. Page.updates = page
  BY <1>2
<1>14. page \in SUBSET Selected
  BY <1>4, <1>6
<1>15. (~Page.hasMore => page = Selected) /\ (Page.hasMore => page # {})
  BY <1>8, <1>9, <1>11
<1> HIDE DEF Page, Selected
<1> QED
  BY <1>3, <1>7, <1>10, <1>11, <1>12, <1>13, <1>14, <1>15

(* The cursors of a page lie beyond its updates, and beyond no update that *)
(* it does not hold.                                                       *)
LEMMA PageCursors ==
  ASSUME IInv, ReaderInv, Page.type = "changes", NEW s \in DOMAIN cursors
  PROVE  LET next == Larger(cursors[s], Page.cursors[s]) IN
         /\ next \in Nat /\ cursors[s] <= next /\ next <= disk.lastSeq
         /\ \A c \in InScope(Page.updates, s) : c.seq \in Nat /\ c.seq <= next
         /\ Page.hasMore => \A c \in InScope(Page.updates, s) : c.seq <= Page.cursors[s]
         /\ \A a \in disk.applied :
              a.update.scope = s /\ cursors[s] < a.seq
                /\ (Page.hasMore => a.seq <= next)
              => a.seq \in SeqNumbers(Page.updates)
<1> USE DEF ReaderInv, CursorsOk
<1> DEFINE here == InScope(Page.updates, s)
           last == Page.cursors[s]
           next == Larger(cursors[s], last)
<1>0. /\ cursors[s] \in Nat /\ cursors[s] <= disk.lastSeq /\ disk.lastSeq \in Nat
      /\ \A c \in Selected : c.seq \in Nat /\ c.seq <= disk.lastSeq
      /\ \A a \in disk.applied : a.seq \in Nat
      /\ ReadWatermark(disk.changes) \in Nat /\ ReadWatermark(disk.changes) <= disk.lastSeq
  BY TablesAre DEF Selected
<1>1. /\ Page.updates \in SUBSET Selected
      /\ last = IF Page.hasMore
                THEN IF here = {} THEN cursors[s] ELSE Max(SeqNumbers(here))
                ELSE ReadWatermark(disk.changes)
      /\ ~Page.hasMore => Page.updates = Selected
      /\ \A c \in Page.updates, d \in Selected : d.seq <= c.seq => d \in Page.updates
  BY PageIs
<1>2. \A a \in disk.applied : a.update.scope = s /\ cursors[s] < a.seq =>
        \E c \in Selected : c.scope = s /\ c.seq = a.seq
  BY SelectedAll, <1>0
<1> HIDE DEF last
<1>3. CASE ~Page.hasMore
  <2>1. last \in Nat /\ last <= disk.lastSeq
    BY <1>0, <1>1, <1>3
  <2>2. next \in Nat /\ cursors[s] <= next /\ next <= disk.lastSeq
    BY <1>0, <2>1 DEF Larger
  <2>3. \A c \in here : c.seq \in Nat /\ c.seq <= last
    <3> SUFFICES ASSUME NEW c \in here
                 PROVE  c.seq \in Nat /\ c.seq <= last
      OBVIOUS
    <3>1. c \in disk.changes /\ c.seq \in Nat /\ c.seq <= disk.lastSeq
      BY <1>0, <1>1 DEF InScope, Selected
    <3>2. MaxChanges # 0
      BY <3>1, TablesAre DEF TablesAgree, Newest
    <3>3. last = disk.lastSeq
      BY <1>1, <1>3, <3>2, TablesAre, WatermarkIsLast
    <3> QED
      BY <3>1, <3>3
  <2>4. \A c \in here : c.seq \in Nat /\ c.seq <= next
    BY <1>0, <2>1, <2>3 DEF Larger
  <2>5. \A a \in disk.applied : a.update.scope = s /\ cursors[s] < a.seq
          => a.seq \in SeqNumbers(Page.updates)
    BY <1>1, <1>2, <1>3 DEF SeqNumbers
  <2> QED
    BY <1>3, <2>2, <2>4, <2>5 DEF last
<1>4. CASE Page.hasMore /\ here = {}
  <2>1. last = cursors[s] /\ next = cursors[s]
    BY <1>0, <1>1, <1>4 DEF Larger
  <2> QED
    BY <1>0, <1>4, <2>1 DEF last
<1>5. CASE Page.hasMore /\ here # {}
  <2>1. SeqNumbers(here) \in SUBSET Nat /\ SeqNumbers(here) # {}
    BY <1>0, <1>1, <1>5 DEF SeqNumbers, InScope
  <2>2. last = Max(SeqNumbers(here))
    BY <1>1, <1>5
  <2>3. \A n \in SeqNumbers(here) : n <= disk.lastSeq
    BY <1>0, <1>1 DEF SeqNumbers, InScope
  <2>4. last \in SeqNumbers(here) /\ \A n \in SeqNumbers(here) : n <= last
    BY <1>0, <2>1, <2>2, <2>3, MaxIsGreatest
  <2>5. PICK c \in here : c.seq = last
    BY <2>4 DEF SeqNumbers
  <2>6. last \in Nat /\ last > cursors[s] /\ last <= disk.lastSeq
    BY <1>0, <1>1, <2>5 DEF InScope, Selected
  <2>7. next = last
    BY <1>0, <2>6 DEF Larger
  <2>8. \A d \in here : d.seq \in Nat /\ d.seq <= last
    BY <1>0, <1>1, <2>4 DEF SeqNumbers, InScope
  <2>9. ASSUME NEW a \in disk.applied, a.update.scope = s, cursors[s] < a.seq, a.seq <= last
        PROVE  a.seq \in SeqNumbers(Page.updates)
    <3>1. PICK d \in Selected : d.scope = s /\ d.seq = a.seq
      BY <1>2, <2>9
    <3>2. d \in Page.updates
      BY <1>1, <2>5, <2>9, <3>1 DEF InScope
    <3> QED
      BY <3>1, <3>2 DEF SeqNumbers
  <2>10. next \in Nat /\ cursors[s] <= next /\ next <= disk.lastSeq
    BY <1>0, <2>6, <2>7
  <2> HIDE DEF next
  <2>11. (\A d \in here : d.seq \in Nat /\ d.seq <= next) /\ (\A d \in here : d.seq <= last)
    BY <2>7, <2>8
  <2>12. \A a \in disk.applied :
            a.update.scope = s /\ cursors[s] < a.seq /\ (Page.hasMore => a.seq <= next)
              => a.seq \in SeqNumbers(Page.updates)
    BY <1>5, <2>7, <2>9
  <2> QED
    BY <2>10, <2>11, <2>12 DEF last, next
<1> QED
  BY <1>3, <1>4, <1>5, PageIs

-----------------------------------------------------------------------------
(* The steps keep the invariant.                                           *)
LEMMA ReaderInit == CInit => ReaderInv
<1> SUFFICES ASSUME CInit PROVE ReaderInv
  OBVIOUS
<1>1. DOMAIN cursors = {} /\ cursors = <<>> /\ start = <<>> /\ got = {} /\ status = "away"
  BY DEF CInit
<1>2. CursorsOk
  BY <1>1 DEF CursorsOk
<1> QED
  BY <1>1, <1>2 DEF ReaderInv, GotIsApplied, NothingSkipped

(* A commit adds updates under numbers that no cursor has reached.         *)
LEMMA AppliedBefore ==
  ASSUME IInv, [Next]_vars
  PROVE  /\ disk.lastSeq <= disk'.lastSeq
         /\ disk.lastSeq \in Nat /\ disk'.lastSeq \in Nat
         /\ \A a : a \in disk.applied => a \in disk'.applied
         /\ \A a \in disk'.applied : a.seq <= disk.lastSeq => a \in disk.applied
<1>1. Commit \/ UNCHANGED disk
  BY DEF Next, vars, Receive, LimitRate, Refuse, DedupUpdate, AcceptRetry, DedupDone,
         ApplyUpdate, ApplyDone, AppendChange, Throw, Evict
<1>2. CASE Commit
  <2> DEFINE new == {[update |-> pending[i], seq |-> disk.lastSeq + i] : i \in 1..Len(pending)}
  <2>1. /\ disk.lastSeq \in Nat /\ Len(pending) \in Nat
        /\ disk'.lastSeq = disk.lastSeq + Len(pending)
        /\ disk'.applied = disk.applied \cup new
    BY <1>2, CommitFacts
  <2>2. \A a \in new : ~(a.seq <= disk.lastSeq)
    BY <2>1
  <2> QED
    BY <2>1, <2>2
<1>3. CASE UNCHANGED disk
  BY <1>3, TablesAre
<1> QED
  BY <1>1, <1>2, <1>3

LEMMA ShardMoves ==
  ASSUME IInv, ReaderInv, [Next]_vars, UNCHANGED reader
  PROVE  ReaderInv'
<1> USE DEF ReaderInv
<1>1. UNCHANGED <<status, start, cursors, got>>
  BY DEF reader
<1>2. CursorsOk'
  BY <1>1, AppliedBefore DEF CursorsOk
<1>3. \A s \in DOMAIN cursors :
        Applied(s, start[s], cursors[s])' = Applied(s, start[s], cursors[s])
  <2> TAKE s \in DOMAIN cursors
  <2>1. /\ start[s] \in Nat /\ cursors[s] \in Nat /\ cursors[s] <= disk.lastSeq
        /\ disk.lastSeq \in Nat
    BY AppliedBefore DEF CursorsOk
  <2>2. \A a \in disk.applied : a.seq \in Nat
    BY TablesAre
  <2>3. {b \in disk'.applied : b.update.scope = s /\ start[s] < b.seq /\ b.seq <= cursors[s]}
          = {b \in disk.applied : b.update.scope = s /\ start[s] < b.seq /\ b.seq <= cursors[s]}
    <3>1. ASSUME NEW b \in disk'.applied, b.seq <= cursors[s]
          PROVE  b \in disk.applied
      <4>1. b.seq \in Int
        BY StepIInv, TablesAre DEF IInv, TypeOK, Tables, AppliedRow
      <4> QED
        BY <2>1, <3>1, <4>1, AppliedBefore
    <3> QED
      BY <3>1, AppliedBefore
  <2> QED
    BY <1>1, <2>3 DEF Applied
<1>4. GotIsApplied' /\ NothingSkipped'
  BY <1>1, <1>3 DEF GotIsApplied, NothingSkipped
<1> QED
  BY <1>2, <1>4

LEMMA ComeBackInv ==
  ASSUME IInv, NEW from \in Cursors, ComeBack(from)
  PROVE  ReaderInv'
<1>1. /\ start' = from /\ cursors' = from /\ got' = {} /\ status' = "reading"
      /\ disk' = disk
  BY DEF ComeBack, vars
<1>2. /\ DOMAIN from \in SUBSET Scopes /\ from \in [DOMAIN from -> 0..disk.lastSeq]
      /\ disk.lastSeq \in Nat
  BY TablesAre DEF Cursors
<1>3. CursorsOk'
  BY <1>1, <1>2 DEF CursorsOk
<1>4. \A s \in DOMAIN from : Applied(s, from[s], from[s])' = {}
  <2>1. \A a \in disk.applied : a.seq \in Nat
    BY TablesAre
  <2> QED
    BY <1>1, <1>2, <2>1 DEF Applied
<1>5. NothingSkipped' /\ GotIsApplied'
  BY <1>1, <1>4 DEF NothingSkipped, GotIsApplied
<1> QED
  BY <1>3, <1>5 DEF ReaderInv

LEMMA ReadPageInv ==
  ASSUME IInv, ReaderInv, ReadPage
  PROVE  ReaderInv'
<1> USE DEF ReaderInv
<1>1. disk' = disk /\ start' = start
  BY DEF ReadPage, vars
<1>2. CASE Page.type = "resyncRequired"
  <2>1. cursors' = cursors /\ got' = got /\ status' = "stale"
    BY <1>2 DEF ReadPage
  <2> QED
    BY <1>1, <2>1 DEF CursorsOk, GotIsApplied, NothingSkipped, Applied
<1>3. CASE Page.type # "resyncRequired"
  <2> DEFINE next(s) == Larger(cursors[s], Page.cursors[s])
  <2>1. Page.type = "changes"
    BY <1>3 DEF Page, ReadChanges
  <2>2. /\ status' \in {"reading", "done"}
        /\ cursors' = [s \in DOMAIN cursors |-> next(s)]
        /\ got' = got \cup SeqNumbers(Page.updates)
    BY <1>3 DEF ReadPage
  <2>3. \A s \in DOMAIN cursors : next(s) \in Nat /\ cursors[s] <= next(s) /\ next(s) <= disk.lastSeq
    BY <2>1, PageCursors
  <2>4. DOMAIN cursors' = DOMAIN cursors /\ \A s \in DOMAIN cursors : cursors'[s] = next(s)
    BY <2>2
  <2>5. \A s \in DOMAIN cursors : start[s] \in Nat /\ cursors[s] \in Nat /\ start[s] <= cursors[s]
    BY DEF CursorsOk
  <2>6. \A a \in disk.applied : a.seq \in Nat
    BY TablesAre
  <2>7. CursorsOk'
    <3>1. cursors' \in [DOMAIN cursors -> Nat]
      BY <2>2, <2>3
    <3> HIDE DEF next
    <3> QED
      BY <1>1, <2>2, <2>3, <2>4, <2>5, <3>1 DEF CursorsOk
  <2>8. \A s \in DOMAIN cursors : Applied(s, start[s], next(s)) \subseteq got'
    <3> SUFFICES ASSUME NEW s \in DOMAIN cursors, NEW a \in disk.applied,
                        a.update.scope = s, start[s] < a.seq, a.seq <= next(s)
                 PROVE  a.seq \in got'
      BY DEF Applied
    <3>1. CASE a.seq <= cursors[s]
      <4>1. a.seq \in Applied(s, start[s], cursors[s])
        BY <3>1 DEF Applied
      <4> QED
        BY <2>2, <4>1 DEF NothingSkipped
    <3>2. CASE ~(a.seq <= cursors[s])
      <4>1. cursors[s] < a.seq
        BY <2>5, <2>6, <3>2
      <4>2. a.seq \in SeqNumbers(Page.updates)
        BY <2>1, <4>1, PageCursors
      <4> QED
        BY <2>2, <4>2
    <3> QED
      BY <3>1, <3>2
  <2>9. ASSUME NEW n \in got'
        PROVE  \E s \in DOMAIN cursors : n \in Applied(s, start[s], next(s))
    <3>1. CASE n \in got
      <4>1. PICK s \in DOMAIN cursors : n \in Applied(s, start[s], cursors[s])
        BY <3>1 DEF GotIsApplied
      <4>2. Applied(s, start[s], cursors[s]) \subseteq Applied(s, start[s], next(s))
        <5>1. \A a \in disk.applied : a.seq <= cursors[s] => a.seq <= next(s)
          BY <2>3, <2>5, <2>6
        <5> HIDE DEF next
        <5> QED
          BY <5>1 DEF Applied
      <4> QED
        BY <4>1, <4>2
    <3>2. CASE n \in SeqNumbers(Page.updates)
      <4>1. PICK c \in Page.updates : c.seq = n
        BY <3>2 DEF SeqNumbers
      <4>2. c \in disk.changes /\ c.scope \in DOMAIN cursors /\ c.seq > cursors[c.scope]
        BY <2>1, PageIs DEF Selected
      <4>3. PICK a \in disk.applied : c.seq = a.seq /\ c.scope = a.update.scope
        BY <4>2, TablesAre
      <4>4. c.seq <= next(c.scope)
        BY <2>1, <4>2, PageCursors DEF InScope
      <4>5. start[c.scope] < a.seq
        BY <2>5, <2>6, <4>2, <4>3
      <4>6. n \in Applied(c.scope, start[c.scope], next(c.scope))
        BY <4>1, <4>3, <4>4, <4>5 DEF Applied
      <4> QED
        BY <4>2, <4>6
    <3> QED
      BY <2>2, <2>9, <3>1, <3>2
  <2>10. \A s \in DOMAIN cursors :
           Applied(s, start[s], cursors[s])' = Applied(s, start[s], next(s))
    BY <1>1, <2>4 DEF Applied
  <2>11. NothingSkipped' /\ GotIsApplied'
    <3> HIDE DEF next
    <3> QED
      BY <2>4, <2>8, <2>9, <2>10 DEF NothingSkipped, GotIsApplied
  <2> QED
    BY <2>7, <2>11
<1> QED
  BY <1>2, <1>3

LEMMA ReaderStep == IInv /\ ReaderInv /\ [CNext]_allVars => ReaderInv'
<1> SUFFICES ASSUME IInv, ReaderInv, [CNext]_allVars
             PROVE  ReaderInv'
  OBVIOUS
<1>1. CASE Next /\ UNCHANGED reader
  BY <1>1, ShardMoves
<1>2. ASSUME NEW from \in Cursors, ComeBack(from)
      PROVE  ReaderInv'
  BY <1>2, ComeBackInv
<1>3. CASE ReadPage
  BY <1>3, ReadPageInv
<1>4. CASE GoAway
  <2>1. UNCHANGED <<disk, start, cursors, got>> /\ status' = "away"
    BY <1>4 DEF GoAway, vars
  <2> QED
    BY <2>1 DEF ReaderInv, CursorsOk, GotIsApplied, NothingSkipped, Applied
<1>5. CASE UNCHANGED allVars
  <2>1. [Next]_vars /\ UNCHANGED reader
    BY <1>5 DEF allVars
  <2> QED
    BY <2>1, ShardMoves
<1> QED
  BY <1>1, <1>2, <1>3, <1>4, <1>5 DEF CNext

(* What the client holds and has received is bounded by its cursors, at    *)
(* every moment of every catch-up.                                         *)
THEOREM ReaderInvariance == CSpec => []ReaderInv
<1>1. CInit => ReaderInv
  BY ReaderInit
<1>2. IInv /\ ReaderInv /\ [CNext]_allVars => ReaderInv'
  BY ReaderStep
<1> QED
  BY <1>1, <1>2, ShardInvariance, PTL DEF CSpec

-----------------------------------------------------------------------------
(* A cursor never jumps over an update, for every page limit, every        *)
(* retention limit and whatever is pushed between two pages.               *)
THEOREM NothingSkippedHolds == CSpec => []NothingSkipped
<1>1. ReaderInv => NothingSkipped
  BY DEF ReaderInv
<1> QED
  BY <1>1, ReaderInvariance, PTL

(* A client receives only what it asked for and does not have.             *)
THEOREM NothingForeignHolds == CSpec => []NothingForeign
<1>1. IInv /\ ReaderInv => NothingForeign
  <2> SUFFICES ASSUME IInv, ReaderInv, NEW n \in got
               PROVE  \E s \in DOMAIN cursors : n \in Applied(s, start[s], n)
    BY DEF NothingForeign
  <2>1. PICK s \in DOMAIN cursors : n \in Applied(s, start[s], cursors[s])
    BY DEF ReaderInv, GotIsApplied
  <2>2. PICK a \in disk.applied : a.seq = n /\ a.update.scope = s /\ start[s] < a.seq
    BY <2>1 DEF Applied
  <2>3. a.seq <= n
    BY <2>2, TablesAre
  <2> QED
    BY <2>2, <2>3 DEF Applied
<1> QED
  BY <1>1, ShardInvariance, ReaderInvariance, PTL

(* The last page ends the catch-up with everything that was ever applied.  *)
LEMMA LastPage ==
  ASSUME IInv, ReaderInv, [CNext]_allVars, status = "reading", status' = "done",
         NEW s \in DOMAIN cursors
  PROVE  Applied(s, start[s], disk.lastSeq) \subseteq got'
<1> SUFFICES ASSUME NEW a \in disk.applied, a.update.scope = s, start[s] < a.seq
             PROVE  a.seq \in got'
  BY DEF Applied
<1>1. ReadPage
  BY DEF CNext, allVars, reader, ComeBack, GoAway
<1>2. /\ Page.type = "changes" /\ ~Page.hasMore
      /\ got' = got \cup SeqNumbers(Page.updates)
  BY <1>1 DEF ReadPage, Page, ReadChanges
<1>3. a.seq \in Nat /\ cursors[s] \in Nat
  BY TablesAre DEF ReaderInv, CursorsOk
<1>4. CASE a.seq <= cursors[s]
  <2>1. a.seq \in Applied(s, start[s], cursors[s])
    BY <1>4 DEF Applied
  <2> QED
    BY <1>2, <2>1 DEF ReaderInv, NothingSkipped
<1>5. CASE cursors[s] < a.seq
  <2>1. a.seq \in SeqNumbers(Page.updates)
    BY <1>2, <1>5, PageCursors
  <2> QED
    BY <1>2, <2>1
<1> QED
  BY <1>3, <1>4, <1>5

THEOREM LastPageIsLastHolds == CSpec => LastPageIsLast
<1>1. IInv /\ ReaderInv /\ [CNext]_allVars =>
        [(status = "reading" /\ status' = "done") =>
           \A s \in DOMAIN cursors :
             Applied(s, start[s], disk.lastSeq) \subseteq got']_allVars
  BY LastPage
<1> QED
  BY <1>1, ShardInvariance, ReaderInvariance, PTL DEF CSpec, LastPageIsLast

(* No update comes twice, and a page that is not the last moves a cursor.  *)
LEMMA PageAdvances ==
  ASSUME IInv, ReaderInv, ReadPage, Page.type = "changes"
  PROVE  /\ SeqNumbers(Page.updates) \cap got = {}
         /\ Page.hasMore => \E s \in DOMAIN cursors : cursors'[s] > cursors[s]
<1>1. /\ Page.updates \in SUBSET Selected
      /\ Page.hasMore => Page.updates # {}
  BY PageIs
<1>2. \A s \in DOMAIN cursors : cursors[s] \in Nat
  BY DEF ReaderInv, CursorsOk
<1>3. ASSUME NEW c \in Page.updates, c.seq \in got
      PROVE  FALSE
  <2>1. c \in disk.changes /\ c.scope \in DOMAIN cursors /\ c.seq > cursors[c.scope]
    BY <1>1 DEF Selected
  <2>2. PICK b \in disk.applied : c.seq = b.seq /\ c.scope = b.update.scope
    BY <2>1, TablesAre
  <2>3. PICK s \in DOMAIN cursors : c.seq \in Applied(s, start[s], cursors[s])
    BY <1>3 DEF ReaderInv, GotIsApplied
  <2>4. PICK a \in disk.applied : /\ a.seq = c.seq /\ a.update.scope = s
                                  /\ a.seq <= cursors[s]
    BY <2>3 DEF Applied
  <2>5. a = b
    BY <2>2, <2>4, TablesAre DEF TablesAgree, SeqsAgree
  <2>6. a.seq \in Nat
    BY TablesAre
  <2> QED
    BY <1>2, <2>1, <2>2, <2>4, <2>5, <2>6
<1>4. ASSUME Page.hasMore
      PROVE  \E s \in DOMAIN cursors : cursors'[s] > cursors[s]
  <2>1. PICK c \in Page.updates : TRUE
    BY <1>1, <1>4
  <2>2. c \in disk.changes /\ c.scope \in DOMAIN cursors /\ c.seq > cursors[c.scope]
    BY <1>1 DEF Selected
  <2> DEFINE next == Larger(cursors[c.scope], Page.cursors[c.scope])
  <2>3. c.seq \in Nat /\ c.seq <= next /\ next \in Nat
    BY <2>2, PageCursors DEF InScope
  <2>4. cursors'[c.scope] = next
    BY <2>2 DEF ReadPage
  <2> QED
    BY <1>2, <2>2, <2>3, <2>4
<1> QED
  BY <1>3, <1>4 DEF SeqNumbers

THEOREM PagesAdvanceHolds == CSpec => PagesAdvance
<1>1. IInv /\ ReaderInv /\ [CNext]_allVars =>
        [ReadPage /\ Page.type = "changes" =>
           /\ SeqNumbers(Page.updates) \cap got = {}
           /\ Page.hasMore => \E s \in DOMAIN cursors : cursors'[s] > cursors[s]
        ]_allVars
  BY PageAdvances
<1> QED
  BY <1>1, ShardInvariance, ReaderInvariance, PTL DEF CSpec, PagesAdvance
=============================================================================
