------------------------------- MODULE History -------------------------------
(***************************************************************************)
(* The durable state of one shard and the transaction that changes it:     *)
(* persistSQLiteJsonBatchWithHistory inside storage.transactionSync        *)
(* (packages/server/src/durable-object.ts, history.ts, storage.ts,         *)
(* mutation-dedup.ts, history-watermarks.ts).                              *)
(*                                                                         *)
(* The function loops over the batch four times: to drop what was already  *)
(* applied, to change the rows, to append to the history, and to record    *)
(* the mutation ids.  Each pass of a loop is a step here, on a working     *)
(* copy that replaces the durable tables only at the end of the            *)
(* transaction.  A statement that throws and a shard that is evicted both  *)
(* abandon the copy.  The code is synchronous: no other message is handled *)
(* before the transaction has ended, so every step but Receive requires a  *)
(* transaction in progress and Receive requires that there is none.        *)
(***************************************************************************)
EXTENDS ChangeLog, Sequences

CONSTANTS
  Names,         \* the collections that a client may name
  Scopes,        \* the collections of the shard, each its own path
  StoredScopes,  \* those whose rows are kept with SQLite JSON storage
  Keys,          \* row keys
  Fields, Vals,  \* a row is a function from some fields to values
  NoRow,         \* "the table has no such row"
  NotAnObject,   \* any value that is not a JSON object
  Ids,           \* mutation ids
  Batches,       \* the batches that clients push
  Seed,          \* initialData, written when the tables are created
  MaxChanges,    \* options.history.maxChanges
  MaxSequence    \* bound: batches are received while the history fits

Row == UNION {[fields -> Vals] : fields \in SUBSET Fields}
Types == {"insert", "update", "delete"}
Rows == [StoredScopes -> [Keys -> Row \cup {NoRow}]]

(* What a client may send.  A name outside Scopes is a collection that no  *)
(* configured pattern matches.                                             *)
Update == [id : Ids, scope : Names, key : Keys, type : Types,
           value : Row \cup {NotAnObject}]

ASSUME HistoryAssumption ==
  /\ StoredScopes \subseteq Scopes /\ Scopes \subseteq Names
  /\ NoRow \notin Row /\ NotAnObject \notin Row
  /\ Seed \in Rows
  /\ MaxChanges \in Int
  /\ MaxSequence \in Nat
  /\ Batches \subseteq Seq(Update)

VARIABLES
  disk,     \* the committed tables of the shard
  work,     \* the tables as the open transaction sees them
  phase,    \* which loop of the transaction runs, or "idle"
  batch,    \* the batch being persisted
  pending,  \* what deduplicateMutations has kept of it so far
  pos,      \* the position of the running loop
  reply     \* the last answer of the shard, and what it published with it

vars == <<disk, work, phase, batch, pending, pos, reply>>

(* The tables: rows of every stored scope, _lsync_changes,                 *)
(* _lsync_collection_watermarks, _lsync_applied_updates, and the counter   *)
(* that SQLite keeps for the AUTOINCREMENT column of _lsync_changes.       *)
EmptyTables ==
  [rows |-> Seed, changes |-> {}, latest |-> [s \in Scopes |-> 0],
   applied |-> {}, lastSeq |-> 0]

NoReply == [type |-> "none"]

Init ==
  /\ disk = EmptyTables
  /\ work = disk
  /\ phase = "idle" /\ batch = <<>> /\ pending = <<>> /\ pos = 1
  /\ reply = NoReply

EndTransaction ==
  phase' = "idle" /\ batch' = <<>> /\ pending' = <<>> /\ pos' = 1

NextLoop(name) == phase' = name /\ pos' = 1

Accept(updates, watermark) ==
  reply' = [type |-> "accepted", batch |-> batch, updates |-> updates,
            watermark |-> watermark]

Reject(b, code) == reply' = [type |-> "error", batch |-> b, code |-> code]

AppliedUpdates(tables) == {a.update : a \in tables.applied}

-----------------------------------------------------------------------------
(* A push arrives and transactionSync begins.                              *)
Receive(b) ==
  /\ phase = "idle"
  /\ disk.lastSeq + Len(b) <= MaxSequence
  /\ batch' = b /\ NextLoop("dedup")
  /\ reply' = NoReply
  /\ UNCHANGED <<disk, work, pending>>

(* enforceRateLimit comes before everything else that is done with a       *)
(* message: any push may be answered RATE_LIMITED, one whose updates were  *)
(* all applied before as well.                                             *)
LimitRate(b) ==
  /\ phase = "idle"
  /\ Reject(b, "RATE_LIMITED")
  /\ UNCHANGED <<disk, work, phase, batch, pending, pos>>

(* Mutant of Refuse: validation and authorization see the whole batch.     *)
RefuseBeforeDedup(b) ==
  /\ phase = "idle"
  /\ Reject(b, "failed")
  /\ UNCHANGED <<disk, work, phase, batch, pending, pos>>

(* Before the transaction, mutate drops what was already applied and lets  *)
(* validation and the access rules throw on the rest: any rest may be      *)
(* refused, an empty one cannot be.                                        *)
Refuse(b) ==
  /\ phase = "idle"
  /\ \E i \in DOMAIN b : b[i] \notin AppliedUpdates(disk)
  /\ Reject(b, "failed")
  /\ UNCHANGED <<disk, work, phase, batch, pending, pos>>

-----------------------------------------------------------------------------
(* Mutant of PriorPayloads: the updates of this batch are not looked at.   *)
PriorPayloadsAppliedOnly(id) == {u \in AppliedUpdates(work) : u.id = id}

(* Mutant of PriorPayloads: ids are remembered only while their change is  *)
(* in the history.                                                         *)
PriorPayloadsFromHistory(id) ==
  {u \in {pending[i] : i \in DOMAIN pending}
           \cup {c.update : c \in work.changes} : u.id = id}

(* The payloads on record for an id: from the updates of this batch that   *)
(* deduplicateMutations kept, or from _lsync_applied_updates.              *)
PriorPayloads(id) ==
  {u \in {pending[i] : i \in DOMAIN pending} \cup AppliedUpdates(work) :
     u.id = id}

(* deduplicateMutations: one pass of the filter that keeps new updates and *)
(* drops those already on record with the same payload.                    *)
DedupUpdate ==
  /\ phase = "dedup" /\ pos <= Len(batch)
  /\ LET u == batch[pos] IN
       /\ PriorPayloads(u.id) \subseteq {u}
       /\ pending' = IF PriorPayloads(u.id) = {} THEN Append(pending, u)
                                                 ELSE pending
  /\ pos' = pos + 1
  /\ UNCHANGED <<disk, work, phase, batch, reply>>

(* An id was reused with another payload: the code throws.                 *)
DedupThrows ==
  phase = "dedup" /\ pos <= Len(batch)
    /\ ~(PriorPayloads(batch[pos].id) \subseteq {batch[pos]})

(* Nothing is left to do: the answer carries the current watermark.        *)
AcceptRetry ==
  /\ phase = "dedup" /\ pos > Len(batch) /\ pending = <<>>
  /\ Accept(<<>>, ReadWatermark(work.changes))
  /\ EndTransaction
  /\ UNCHANGED <<disk, work>>

DedupDone ==
  /\ phase = "dedup" /\ pos > Len(batch) /\ pending # <<>>
  /\ NextLoop("apply")
  /\ UNCHANGED <<disk, work, batch, pending, reply>>

-----------------------------------------------------------------------------
(* mergeRows: the fields of the update over those of the row.              *)
MergeRows(existing, changes) ==
  [f \in DOMAIN existing \cup DOMAIN changes |->
     IF f \in DOMAIN changes THEN changes[f] ELSE existing[f]]

RowAfter(existing, u) ==
  CASE u.type = "delete" -> NoRow
    [] u.type = "insert" -> u.value
    [] u.type = "update" -> MergeRows(existing, u.value)

(* The statement that applySQLiteJsonBatch runs for one update.            *)
WriteRow(rows, u) ==
  [rows EXCEPT ![u.scope][u.key] = RowAfter(rows[u.scope][u.key], u)]

(* What applySQLiteJsonBatch refuses: a row that is not an object, and an  *)
(* update of a row that is not there.                                      *)
Applies(existing, u) ==
  /\ u.type # "delete" => u.value # NotAnObject
  /\ u.type = "update" => existing # NoRow

(* applySQLiteJsonBatch: one pass of its loop.  Collections without SQLite *)
(* JSON storage are skipped.                                               *)
ApplyUpdate ==
  /\ phase = "apply" /\ pos <= Len(pending)
  /\ LET u == pending[pos] IN
     \/ /\ u.scope \notin StoredScopes
        /\ UNCHANGED work
     \/ /\ u.scope \in StoredScopes
        /\ Applies(work.rows[u.scope][u.key], u)
        /\ work' = [work EXCEPT !.rows = WriteRow(work.rows, u)]
  /\ pos' = pos + 1
  /\ UNCHANGED <<disk, phase, batch, pending, reply>>

ApplyThrows ==
  phase = "apply" /\ pos <= Len(pending)
    /\ LET u == pending[pos] IN
         u.scope \in StoredScopes /\ ~Applies(work.rows[u.scope][u.key], u)

ApplyDone ==
  /\ phase = "apply" /\ pos > Len(pending)
  /\ NextLoop("append")
  /\ UNCHANGED <<disk, work, batch, pending, reply>>

-----------------------------------------------------------------------------
(* Mutant of AppendChange: the watermark of the scope is not recorded.     *)
AppendChangeNoWatermark ==
  /\ phase = "append" /\ pos <= Len(pending)
  /\ pending[pos].scope \in Scopes
  /\ work' = [work EXCEPT
       !.lastSeq = work.lastSeq + 1,
       !.changes = work.changes \cup {[seq |-> work.lastSeq + 1,
                            scope |-> pending[pos].scope,
                            update |-> pending[pos]]}]
  /\ pos' = pos + 1
  /\ UNCHANGED <<disk, phase, batch, pending, reply>>

(* appendChange: one pass of its loop.                                     *)
AppendChange ==
  /\ phase = "append" /\ pos <= Len(pending)
  /\ LET u == pending[pos]
         seq == work.lastSeq + 1
     IN  /\ u.scope \in Scopes
         /\ work' = [work EXCEPT
              !.lastSeq = seq,
              !.changes = work.changes \cup
                {[seq |-> seq, scope |-> u.scope, update |-> u]},
              !.latest[u.scope] = seq]
  /\ pos' = pos + 1
  /\ UNCHANGED <<disk, phase, batch, pending, reply>>

(* scopeForCollection finds no configured collection.                      *)
AppendThrows ==
  phase = "append" /\ pos <= Len(pending) /\ pending[pos].scope \notin Scopes

(* The pending updates with the sequence numbers they were given.          *)
SequencedUpdates ==
  [i \in DOMAIN pending |->
     [update |-> pending[i], seq |-> work.lastSeq - Len(pending) + i]]

(* Mutant of Commit: recordAppliedMutations records the last update only.  *)
CommitRecordingLast ==
  /\ phase = "append" /\ pos > Len(pending)
  /\ disk' = [work EXCEPT
       !.applied = work.applied \cup {SequencedUpdates[Len(pending)]},
       !.changes = PruneChanges(work.changes, work.lastSeq, MaxChanges)]
  /\ work' = disk'
  /\ Accept(SequencedUpdates, work.lastSeq)
  /\ EndTransaction

(* recordAppliedMutations, pruneChanges and the end of the transaction;    *)
(* then mutate publishes the sequenced updates and answers the client.     *)
Commit ==
  /\ phase = "append" /\ pos > Len(pending)
  /\ disk' = [work EXCEPT
       !.applied = work.applied \cup
                     {SequencedUpdates[i] : i \in DOMAIN pending},
       !.changes = PruneChanges(work.changes, work.lastSeq, MaxChanges)]
  /\ work' = disk'
  /\ Accept(SequencedUpdates, work.lastSeq)
  /\ EndTransaction

-----------------------------------------------------------------------------
(* Mutant of Throw: the statements already run are not rolled back.        *)
ThrowWithoutRollback ==
  /\ DedupThrows \/ ApplyThrows \/ AppendThrows
  /\ disk' = work
  /\ Reject(batch, "failed") /\ EndTransaction
  /\ UNCHANGED work

(* A statement throws: transactionSync rolls back, the client is told.     *)
Throw ==
  /\ DedupThrows \/ ApplyThrows \/ AppendThrows
  /\ work' = disk
  /\ Reject(batch, "failed") /\ EndTransaction
  /\ UNCHANGED disk

(* The shard is evicted, or the client's socket closes: an open            *)
(* transaction and an answer not yet delivered are lost.                   *)
Evict ==
  /\ phase # "idle" \/ reply # NoReply
  /\ work' = disk
  /\ EndTransaction
  /\ reply' = NoReply
  /\ UNCHANGED disk

Next ==
  \/ \E b \in Batches : Receive(b) \/ LimitRate(b) \/ Refuse(b)
  \/ DedupUpdate \/ AcceptRetry \/ DedupDone
  \/ ApplyUpdate \/ ApplyDone
  \/ AppendChange \/ Commit
  \/ Throw \/ Evict

Spec == Init /\ [][Next]_vars
-----------------------------------------------------------------------------
(***************************************************************************)
(* Properties.                                                             *)
(***************************************************************************)
Change == [seq : Nat, scope : Scopes, update : Update]
AppliedRow == [update : Update, seq : Nat]
Tables == [rows : Rows, changes : SUBSET Change, latest : [Scopes -> Nat],
           applied : SUBSET AppliedRow, lastSeq : Nat]

Reply ==
  {NoReply} \cup [type : {"error"}, batch : Seq(Update),
                  code : {"RATE_LIMITED", "failed"}]
            \cup [type : {"accepted"}, batch : Seq(Update),
                  updates : Seq(AppliedRow), watermark : Nat]

(* Every variable holds what its declaration says.                         *)
TypeOK ==
  /\ disk \in Tables /\ work \in Tables
  /\ phase \in {"idle", "dedup", "apply", "append"}
  /\ batch \in Seq(Update) /\ pending \in Seq(Update)
  /\ pos \in Nat \ {0}
  /\ reply \in Reply

(* A mutation id is applied once, whatever retries, duplicates inside a    *)
(* batch and evictions do, and two applied updates never share a sequence  *)
(* number (mutation-dedup.ts).                                             *)
AppliedOnce ==
  \A a, b \in disk.applied :
    (a.update.id = b.update.id \/ a.seq = b.seq) => a = b

(* The change history is exactly the newest MaxChanges applied updates,    *)
(* under the numbers and scopes they were applied with (history.ts).       *)
Newest(tables) ==
  {[seq |-> a.seq, scope |-> a.update.scope, update |-> a.update] :
     a \in {b \in tables.applied :
              MaxChanges >= 0 => b.seq > tables.lastSeq - MaxChanges}}

HistoryIsNewest == disk.changes = Newest(disk)

(* A cursor that isCursorStale lets pass misses nothing: every update      *)
(* applied to the scope after the cursor can still be read.                *)
NoSilentGap ==
  \A s \in Scopes, cursor \in 0..disk.lastSeq :
    ~IsCursorStale(disk.changes, disk.latest, s, cursor)
      => \A a \in disk.applied :
           (a.update.scope = s /\ a.seq > cursor)
             => \E c \in InScope(disk.changes, s) :
                  c.seq = a.seq /\ c.update = a.update

(* An accepted push is applied in full, also when it was a retry of which  *)
(* nothing was left to do, and unless the history keeps nothing at all the *)
(* watermark of the answer covers every update of the push.                *)
AcceptedIsApplied ==
  reply.type = "accepted" =>
    \A i \in DOMAIN reply.batch :
      \E a \in disk.applied :
        /\ a.update = reply.batch[i]
        /\ MaxChanges # 0 => a.seq <= reply.watermark

(* Only the rate limiter answers a push that had been applied in full with *)
(* an error: a client that retries after a lost answer is not told that    *)
(* the push failed because its rows are there already, or because the      *)
(* rules have changed since (mutate in durable-object.ts drops what was    *)
(* applied before it validates and authorizes).  The rate limiter knows    *)
(* nothing of what was applied, and the client does not retry its error    *)
(* (client-reconnect.ts:44): it rolls back rows that the shard keeps.      *)
OnlyLimiterRefusesRetry ==
  reply.type = "error" /\ reply.code # "RATE_LIMITED" =>
    \E i \in DOMAIN reply.batch : reply.batch[i] \notin AppliedUpdates(disk)

(* The rows are what the applied updates make of the initial data when     *)
(* they are replayed in the order of their sequence numbers, so a client   *)
(* that replays the history reaches the rows that a read returns           *)
(* (SQLITE_JSON_CONFLICT_POLICY, "server-sequence-last-write-wins").       *)
UpdateAt(tables, n) == (CHOOSE a \in tables.applied : a.seq = n).update

Replay[n \in Nat] ==
  IF n = 0 THEN Seed
  ELSE LET u == UpdateAt(disk, n) IN
       IF u.scope \notin StoredScopes THEN Replay[n - 1]
       ELSE WriteRow(Replay[n - 1], u)

RowsAreReplay == disk.rows = Replay[disk.lastSeq]

(* The tables implement the abstract log: its entries are the applied      *)
(* updates in the order of their sequence numbers.                         *)
LogOf(tables) == [n \in 1..tables.lastSeq |-> UpdateAt(tables, n)]

Log == INSTANCE SequencedLog WITH log <- LogOf(disk)
ImplementsLog == Log!Spec

-----------------------------------------------------------------------------
(***************************************************************************)
(* The inductive invariant behind the safety properties.                   *)
(***************************************************************************)
SeqsAgree(tables) ==
  /\ \A a \in tables.applied :
       a.seq \in 1..tables.lastSeq /\ a.update.scope \in Scopes
  /\ \A n \in 1..tables.lastSeq : \E a \in tables.applied : a.seq = n
  /\ \A a, b \in tables.applied :
       (a.update.id = b.update.id \/ a.seq = b.seq) => a = b

LatestAgrees(tables) ==
  \A s \in Scopes :
    /\ \A a \in tables.applied :
         a.update.scope = s => a.seq <= tables.latest[s]
    /\ tables.latest[s] # 0 =>
         \E a \in tables.applied :
           a.update.scope = s /\ a.seq = tables.latest[s]

TablesAgree(tables) ==
  SeqsAgree(tables) /\ LatestAgrees(tables) /\ tables.changes = Newest(tables)

(* What the transaction has kept of the batch is new, has no id twice, and *)
(* stands in the order of the batch; what it has dropped was applied.      *)
Seen(i) == phase = "dedup" => i < pos

PendingIsNew ==
  /\ \A i, j \in DOMAIN pending : pending[i].id = pending[j].id => i = j
  /\ \A i \in DOMAIN pending :
       \A a \in disk.applied : a.update.id # pending[i].id
  /\ \A j \in DOMAIN pending :
       \E i \in DOMAIN batch : Seen(i) /\ batch[i] = pending[j]
  /\ \A p, q \in DOMAIN pending :
       p < q => \E i, j \in DOMAIN batch :
                  /\ i < j /\ Seen(j)
                  /\ batch[i] = pending[p] /\ batch[j] = pending[q]
  /\ \A i \in DOMAIN batch :
       Seen(i) => \/ batch[i] \in AppliedUpdates(disk)
                  \/ \E j \in DOMAIN pending : pending[j] = batch[i]

(* The working tables after the first n updates were appended.             *)
Appended(n) ==
  /\ n <= Len(pending)
  /\ work.applied = disk.applied
  /\ work.lastSeq = disk.lastSeq + n
  /\ \A i \in 1..n : pending[i].scope \in Scopes
  /\ work.changes = disk.changes \cup
       {[seq |-> disk.lastSeq + i, scope |-> pending[i].scope,
         update |-> pending[i]] : i \in 1..n}
  /\ \A s \in Scopes :
       /\ disk.latest[s] <= work.latest[s]
       /\ \A i \in 1..n :
            pending[i].scope = s => disk.lastSeq + i <= work.latest[s]
       /\ \/ work.latest[s] = disk.latest[s]
          \/ \E i \in 1..n : /\ pending[i].scope = s
                             /\ work.latest[s] = disk.lastSeq + i

WorkAgrees ==
  /\ phase \in {"idle", "dedup"} => work = disk
  /\ phase = "apply" =>
       /\ work.applied = disk.applied /\ work.lastSeq = disk.lastSeq
       /\ work.changes = disk.changes /\ work.latest = disk.latest
  /\ phase = "append" => Appended(pos - 1)
  /\ IF phase = "idle" THEN pending = <<>> /\ batch = <<>>
                       ELSE batch \in Batches
  /\ phase \in {"apply", "append"} => pending # <<>>

(* The tables agree with each other, the open transaction agrees with      *)
(* them, and the last answer is true.                                      *)
IInv ==
  /\ TypeOK
  /\ TablesAgree(disk)
  /\ PendingIsNew
  /\ WorkAgrees
  /\ AcceptedIsApplied
  /\ OnlyLimiterRefusesRetry
=============================================================================
