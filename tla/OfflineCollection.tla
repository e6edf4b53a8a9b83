------------------------- MODULE OfflineCollection --------------------------
(***************************************************************************)
(* Local mutations of an eager collection with an offline cache: the push  *)
(* and its retries, the rows, and IndexedDB                                *)
(* (packages/tanstack-db/src/collection.ts, client.ts, batch.ts,           *)
(* collection-broadcast.ts, offline-sync.ts and offline-cache.ts).         *)
(*                                                                         *)
(* A row is the number of the mutation that wrote it; a mutation is a      *)
(* transaction of one change.  The load of SyncSession is one request      *)
(* here, whose answer holds the rows and their watermark, and the socket   *)
(* is lost only before or after it.  The shard keeps its whole history.    *)
(***************************************************************************)
EXTENDS Integers, SequencesExt

CONSTANTS Keys,
          MaxAttempts,  \* maxAttempts of the reconnect policy
          MaxLocal,     \* bounds of the instance: mutations of the client,
          MaxRemote,    \*   changes by other clients,
          MaxFaults,    \*   lost sockets, timeouts, refusals,
          MaxCrashes    \*   tabs closed

ASSUME OfflineAssumption ==
  /\ {MaxLocal, MaxRemote, MaxFaults, MaxCrashes} \subseteq Nat
  /\ MaxAttempts \in Nat \ {0}

VARIABLES log,       \* shard: applied changes; the index is the sequence number
          late,      \* pushes on a lost socket that may still reach the shard
          session,   \* closed, hydrating, subscribing, loading, storing, synced,
                     \*   disconnected or recovering
          up,        \* the socket is open and subscribed
          toServer, toClient,
          synced,    \* key |-> synced row of the collection, 0 if none
          txs,       \* local mutations in order, with the state of their push
          cursor, buffered,
          cache,     \* key |-> row in IndexedDB, 0 if none
          queue,     \* operations of IndexedDB that were not performed yet
          followed,  \* since the last load no push failed or was retried, and no
                     \*   row was deleted and inserted again on one page
          spent

vars == <<log, late, session, up, toServer, toClient, synced, txs, cursor, buffered,
          cache, queue, followed, spent>>

shard  == <<log, late>>
store  == <<cache, queue>>
sync   == <<session, cursor, buffered, synced>>

Txs == 1 .. Len(txs)
Open == {"waiting", "sent"}

Spend(what, bound) ==
  /\ spent[what] < bound
  /\ spent' = [spent EXCEPT ![what] = @ + 1]

NoRows == [k \in Keys |-> 0]

\* writes of changes, in order, to rows
Written(rows, changes) ==
  FoldLeft(LAMBDA r, c : [r EXCEPT ![c.key] = IF c.type = "delete" THEN 0 ELSE c.id],
           rows, changes)

\* Rows of the shard.
Rows == Written(NoRows, log)

\* The optimistic row: the last local mutation that is not settled, or the
\* synced row (collection.get of TanStack DB).
View(rows, k) ==
  LET mine == {i \in Txs : txs[i].key = k /\ txs[i].state \in Open} IN
  IF mine = {} THEN rows[k]
  ELSE LET tx == txs[CHOOSE i \in mine : \A j \in mine : j <= i] IN
       IF tx.type = "delete" THEN 0 ELSE tx.id

-----------------------------------------------------------------------------
\* The cache.
PutOp(rows)     == IF DOMAIN rows = {} THEN <<>> ELSE <<[op |-> "put", rows |-> rows]>>
DeleteOp(keys)  == IF keys = {} THEN <<>> ELSE <<[op |-> "delete", keys |-> keys]>>
ReplaceOp(rows) == <<[op |-> "replace", rows |-> rows]>>

\* enqueue: one operation of IndexedDB after the other, each a transaction.
Performed(op) ==
  CASE op.op = "put"     -> [k \in Keys |-> IF k \in DOMAIN op.rows THEN op.rows[k] ELSE cache[k]]
    [] op.op = "delete"  -> [k \in Keys |-> IF k \in op.keys THEN 0 ELSE cache[k]]
    [] op.op = "replace" -> op.rows

Perform ==
  /\ queue # <<>>
  /\ cache' = Performed(Head(queue))
  /\ queue' = Tail(queue)
  /\ UNCHANGED <<shard, sync, up, toServer, toClient, txs, followed, spent>>

\* persistChanges: the rows that the collection shows after the changes were
\* written, first; the deleted keys after them.
PersistChanges(rows, changes) ==
  LET put == {k \in Keys : /\ View(rows, k) # 0
                           /\ \E c \in ToSet(changes) : c.type # "delete" /\ c.key = k}
      deleted == {c.key : c \in {c \in ToSet(changes) : c.type = "delete"}} IN
  PutOp([k \in put |-> View(rows, k)]) \o DeleteOp(deleted)

\* persistTransaction
PersistTransaction(tx) ==
  IF tx.type = "delete" THEN DeleteOp({tx.key}) ELSE PutOp([k \in {tx.key} |-> tx.id])

\* applyCollectionBroadcast and persistChanges on rows and queue.
Apply(st, changes) ==
  LET rows == Written(st.rows, changes) IN
  [st EXCEPT !.rows = rows, !.queue = @ \o PersistChanges(rows, changes)]

\* SyncSession.applyBroadcast: a broadcast of one update.
ApplyBroadcast(st, update) ==
  IF update.seq <= st.cursor THEN st
  ELSE [Apply(st, <<update>>) EXCEPT !.cursor = update.seq]

\* The collection takes over rows, queue and cursor.
Becomes(st) ==
  /\ synced' = st.rows
  /\ queue' = st.queue
  /\ cursor' = st.cursor

\* flush and markSynchronized, after what recover or initialize did.
Synchronize(st) ==
  /\ Becomes(FoldLeft(ApplyBroadcast, st, buffered))
  /\ buffered' = <<>>
  /\ session' = "synced"

Current == [rows |-> synced, queue |-> queue, cursor |-> cursor]

-----------------------------------------------------------------------------
\* Mutant of MutationId: every attempt makes a batch with ids of its own.
MutationIdOfAttempt(i, attempt) == i + attempt * 10

\* createBatch, once for all attempts: the id of the mutation.
MutationId(i, attempt) == i

PushOf(i) ==
  [type |-> "push", tx |-> i, attempt |-> txs'[i].attempt,
   id |-> MutationId(i, txs'[i].attempt)]

\* onInsert, onUpdate and onDelete: an optimistic change and its push, sent at
\* once when the socket is open.
Mutate(k, type) ==
  /\ session \notin {"closed", "hydrating"}
  /\ Len(txs) < MaxLocal
  /\ (View(synced, k) = 0) <=> (type = "insert")
  /\ LET i == Len(txs) + 1 IN
     /\ txs' = Append(txs, [key |-> k, type |-> type, id |-> i, attempt |-> 1,
                            state |-> IF up THEN "sent" ELSE "waiting"])
     /\ toServer' = IF up THEN Append(toServer, PushOf(i)) ELSE toServer
  /\ UNCHANGED <<shard, sync, store, up, toClient, followed, spent>>

\* sendPush, after the wait and once there is a socket.
SendPush(i) ==
  /\ txs[i].state = "waiting"
  /\ up
  /\ txs' = [txs EXCEPT ![i].state = "sent"]
  /\ toServer' = Append(toServer, PushOf(i))
  /\ UNCHANGED <<shard, sync, store, up, toClient, followed, spent>>

\* client.push (catch): the next attempt, or the error.
AfterFailure(tx) ==
  IF tx.attempt < MaxAttempts
  THEN [tx EXCEPT !.state = "waiting", !.attempt = @ + 1]
  ELSE [tx EXCEPT !.state = "failed"]

Failed(ts) == \E i \in DOMAIN ts : ts[i].state = "failed" /\ txs[i].state # "failed"

\* sendRequest (timeout): the answer may still come, and is ignored.
Timeout(i) ==
  /\ txs[i].state = "sent"
  /\ Spend("faults", MaxFaults)
  /\ txs' = [txs EXCEPT ![i] = AfterFailure(@)]
  /\ followed' = (followed /\ ~Failed(txs'))
  /\ UNCHANGED <<shard, sync, store, up, toServer, toClient>>

\* open() fails: an error that push does not retry.
OpenFails(i) ==
  /\ txs[i].state = "waiting" /\ ~up
  /\ Spend("faults", MaxFaults)
  /\ txs' = [txs EXCEPT ![i].state = "failed"]
  /\ followed' = FALSE
  /\ UNCHANGED <<shard, sync, store, up, toServer, toClient>>

-----------------------------------------------------------------------------
PushesOf(messages) == {m \in ToSet(messages) : m.type = "push"}

\* The socket is lost with what is on it; a push may still reach the shard.
LoseSocket ==
  /\ up' = FALSE
  /\ toServer' = <<>> /\ toClient' = <<>>
  /\ late' = late \cup PushesOf(toServer)

\* Mutant of RejectPending: the requests of a lost socket stay pending.
RejectPendingNothing == UNCHANGED txs

\* rejectPending: every push that waits for an answer has failed.
RejectPending ==
  txs' = [i \in Txs |-> IF txs[i].state = "sent" THEN AfterFailure(txs[i]) ELSE txs[i]]

\* connectOnce (close)
Drop ==
  /\ up
  /\ session \in {"subscribing", "synced", "recovering"}
  /\ Spend("faults", MaxFaults)
  /\ LoseSocket
  /\ session' = IF session = "subscribing" THEN session ELSE "disconnected"
  /\ RejectPending
  /\ followed' = (followed /\ ~Failed(txs'))
  /\ UNCHANGED <<log, cursor, buffered, synced, store>>

\* The tab is closed: IndexedDB remains, without the operations in the queue.
Crash ==
  /\ session # "closed"
  /\ Spend("crashes", MaxCrashes)
  /\ LoseSocket
  /\ session' = "closed"
  /\ synced' = NoRows /\ cursor' = 0 /\ buffered' = <<>>
  /\ txs' = [i \in Txs |-> IF txs[i].state \in Open THEN [txs[i] EXCEPT !.state = "gone"]
                           ELSE txs[i]]
  /\ queue' = <<>>
  /\ UNCHANGED <<log, cache, followed>>

\* SyncSession.start: it subscribes, and hydrates meanwhile.
Start ==
  /\ session = "closed"
  /\ session' = "hydrating"
  /\ UNCHANGED <<shard, store, up, toServer, toClient, synced, txs, cursor, buffered,
                 followed, spent>>

\* hydrate: the rows of the cache, and the collection is ready.
Hydrate ==
  /\ session = "hydrating"
  /\ synced' = cache
  /\ session' = "subscribing"
  /\ UNCHANGED <<shard, store, up, toServer, toClient, txs, cursor, buffered, followed,
                 spent>>

\* connectOnce (open) and reconnected: recover asks for the changes.
Connect ==
  /\ ~up /\ session \in {"hydrating", "subscribing", "disconnected"}
  /\ up' = TRUE
  /\ IF session = "disconnected"
     THEN /\ session' = "recovering"
          /\ toServer' = <<[type |-> "changes", cursor |-> cursor]>>
     ELSE UNCHANGED <<session, toServer>>
  /\ UNCHANGED <<shard, store, toClient, synced, txs, cursor, buffered, followed, spent>>

\* initialize
Load ==
  /\ up /\ session = "subscribing"
  /\ session' = "loading"
  /\ toServer' = Append(toServer, [type |-> "read"])
  /\ UNCHANGED <<shard, store, up, toClient, synced, txs, cursor, buffered, followed, spent>>

-----------------------------------------------------------------------------
\* The change of a push was applied before (deduplicateMutations).
IsApplied(push) == \E n \in DOMAIN log : log[n].id = push.id

\* An update of a missing row throws (applySQLiteJsonBatch).
Throws(push) == txs[push.tx].type = "update" /\ Rows[txs[push.tx].key] = 0

Change(push) == [key |-> txs[push.tx].key, type |-> txs[push.tx].type, id |-> push.id,
                 tx |-> push.tx]

\* A change as it is told, with its sequence number.
Update(change, n) ==
  [key |-> change.key, type |-> change.type, id |-> change.id, seq |-> n]

Broadcast(change) == [type |-> "updates", update |-> Update(change, Len(log) + 1)]

Answer(push, ok) == [type |-> "answer", tx |-> push.tx, attempt |-> push.attempt, ok |-> ok]

\* mutate: a change is applied and published before it is answered.
HandlePush(push) ==
  IF IsApplied(push)   THEN UNCHANGED log /\ toClient' = Append(toClient, Answer(push, TRUE))
  ELSE IF Throws(push) THEN UNCHANGED log /\ toClient' = Append(toClient, Answer(push, FALSE))
  ELSE /\ log' = Append(log, Change(push))
       /\ toClient' = toClient \o <<Broadcast(Change(push)), Answer(push, TRUE)>>

\* The rate limiter refuses a push, also one that was applied, or validation or an
\* access rule refuses one that was not.
Refuse ==
  /\ toServer # <<>> /\ Head(toServer).type = "push"
  /\ Spend("faults", MaxFaults)
  /\ toServer' = Tail(toServer)
  /\ toClient' = Append(toClient, Answer(Head(toServer), FALSE))
  /\ UNCHANGED <<shard, sync, store, up, txs, followed>>

\* read and readChanges
Page(from) == [i \in 1 .. Len(log) - from |-> Update(log[from + i], from + i)]

Handle ==
  /\ toServer # <<>>
  /\ toServer' = Tail(toServer)
  /\ LET request == Head(toServer) IN
     \/ request.type = "push" /\ HandlePush(request)
     \/ /\ request.type = "read"
        /\ toClient' = Append(toClient, [type |-> "rows", rows |-> Rows, watermark |-> Len(log)])
        /\ UNCHANGED log
     \/ /\ request.type = "changes"
        /\ toClient' = Append(toClient, [type |-> "changes", updates |-> Page(request.cursor),
                                         watermark |-> Len(log)])
        /\ UNCHANGED log
  /\ UNCHANGED <<late, sync, store, up, txs, followed, spent>>

Publish(change) ==
  /\ log' = Append(log, change)
  /\ toClient' = IF up THEN Append(toClient, Broadcast(change)) ELSE toClient

\* A push on a lost socket reaches the shard after all: its answer is lost.
HandleLate(push) ==
  /\ push \in late
  /\ late' = late \ {push}
  /\ IF IsApplied(push) \/ Throws(push) THEN UNCHANGED <<log, toClient>>
     ELSE Publish(Change(push))
  /\ UNCHANGED <<sync, store, up, toServer, txs, followed, spent>>

\* Another client changes a row.
Remote(k, type) ==
  /\ Spend("remote", MaxRemote)
  /\ (Rows[k] = 0) <=> (type = "insert")
  /\ Publish([key |-> k, type |-> type, id |-> MaxLocal + spent'.remote, tx |-> 0])
  /\ UNCHANGED <<late, sync, store, up, toServer, txs, followed>>

-----------------------------------------------------------------------------
\* receive
Receive(update) ==
  /\ IF session = "synced"
     THEN Becomes(ApplyBroadcast(Current, update)) /\ UNCHANGED buffered
     ELSE buffered' = Append(buffered, update) /\ UNCHANGED <<synced, queue, cursor>>
  /\ UNCHANGED <<session, txs, followed>>

\* The answer to the attempt that is awaited: the optimistic change is dropped,
\* and the cache takes an accepted one.
Answered(message) ==
  /\ LET i == message.tx IN
     IF txs[i].state # "sent" \/ txs[i].attempt # message.attempt
     THEN UNCHANGED <<txs, queue, followed>>
     ELSE /\ txs' = [txs EXCEPT ![i].state = IF message.ok THEN "done" ELSE "failed"]
          /\ queue' = IF message.ok THEN queue \o PersistTransaction(txs[i]) ELSE queue
          /\ followed' = (followed /\ message.ok /\ message.attempt = 1)
  /\ UNCHANGED <<sync>>

\* Mutant of LoadedRows: the rows of the cache stay.
LoadedRowsMerged(rows) == [k \in Keys |-> IF rows[k] # 0 THEN rows[k] ELSE synced[k]]

\* loadEager(true): truncate, then write.
LoadedRows(rows) == rows

\* Mutant of StoreOp: the cache is not emptied first.
StoreOpPut(rows) == PutOp([k \in {k \in Keys : rows[k] # 0} |-> rows[k]])

\* loadEager(true): offline.replace.
StoreOp(rows) == ReplaceOp(rows)

\* loadEager: the session goes on when the rows are stored.
LoadEager(message) ==
  /\ synced' = LoadedRows(message.rows)
  /\ queue' = queue \o StoreOp(message.rows)
  /\ cursor' = message.watermark
  /\ session' = "storing"
  /\ followed' = TRUE
  /\ UNCHANGED <<buffered, txs>>

Stored ==
  /\ session = "storing"
  /\ \A n \in DOMAIN queue : queue[n].op # "replace"
  /\ Synchronize(Current)
  /\ UNCHANGED <<shard, up, toServer, toClient, txs, cache, followed, spent>>

\* A page that deletes a row and inserts it again.
Reinserts(changes) ==
  \E m, n \in DOMAIN changes :
    m < n /\ changes[m].key = changes[n].key /\ changes[m].type = "delete"

\* recover: one page, and the flush.
Recover(message) ==
  /\ Synchronize([Apply(Current, message.updates) EXCEPT !.cursor = message.watermark])
  /\ followed' = (followed /\ ~Reinserts(message.updates))
  /\ UNCHANGED txs

\* connectOnce (message)
Deliver ==
  /\ toClient # <<>>
  /\ toClient' = Tail(toClient)
  /\ LET message == Head(toClient) IN
     \/ message.type = "updates" /\ Receive(message.update)
     \/ message.type = "answer" /\ Answered(message)
     \/ message.type = "rows" /\ LoadEager(message)
     \/ message.type = "changes" /\ Recover(message)
  /\ UNCHANGED <<shard, up, toServer, cache, spent>>

-----------------------------------------------------------------------------
Init ==
  /\ log = <<>> /\ late = {}
  /\ session = "closed" /\ up = FALSE
  /\ toServer = <<>> /\ toClient = <<>>
  /\ synced = NoRows /\ cache = NoRows
  /\ txs = <<>> /\ cursor = 0 /\ buffered = <<>> /\ queue = <<>>
  /\ followed = TRUE
  /\ spent = [remote |-> 0, faults |-> 0, crashes |-> 0]

Types == {"insert", "update", "delete"}

Client ==
  \/ Start \/ Hydrate \/ Connect \/ Load \/ Stored \/ Deliver \/ Perform
  \/ \E i \in Txs : SendPush(i)

Environment ==
  \/ \E k \in Keys, type \in Types : Mutate(k, type) \/ Remote(k, type)
  \/ \E push \in late : HandleLate(push)
  \/ \E i \in Txs : Timeout(i) \/ OpenFails(i)
  \/ Refuse \/ Drop \/ Crash

Next == Client \/ Handle \/ Environment

Spec == Init /\ [][Next]_vars

-----------------------------------------------------------------------------
\* Everything has been sent, handled, delivered and stored.
AtRest ==
  /\ session = "synced" /\ up
  /\ toServer = <<>> /\ toClient = <<>> /\ queue = <<>>
  /\ \A i \in Txs : txs[i].state \notin Open

\* Whatever was lost, timed out and retried, a local mutation is applied at
\* most once, and an accepted one was applied (client.push, createBatch).
PushedOnce ==
  /\ \A m, n \in DOMAIN log : log[m].tx = log[n].tx /\ log[m].tx # 0 => m = n
  /\ \A i \in Txs : txs[i].state = "done" => \E n \in DOMAIN log : log[n].tx = i

\* At rest the collection shows the rows of the shard: a push that failed has
\* left no row, one that failed here and was applied there shows, and rows of
\* the cache that the shard has deleted meanwhile are gone.
ViewIsShard == AtRest => synced = Rows

\* At rest the cache holds the rows of the shard, whatever was written by
\* broadcasts, local mutations and loads in one queue, unless a push failed or
\* was retried or a page deleted and inserted a row since the last load.
CacheIsShard == AtRest /\ followed => cache = Rows

\* A push that waits for an answer will get one: it is on its way to the shard,
\* or the answer to this very attempt on its way back; whatever ends a socket
\* ends the waiting (rejectPending, takePending).
NoPushHangs ==
  \A i \in Txs : txs[i].state = "sent" =>
    \E m \in ToSet(toServer) \cup ToSet(toClient) :
      m.type \in {"push", "answer"} /\ m.tx = i /\ m.attempt = txs[i].attempt
=============================================================================
