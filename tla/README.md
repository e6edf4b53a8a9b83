# lsync in TLA+

lsync keeps collections of JSON rows in sync between browsers and a Cloudflare
Durable Object. A *shard* (one Durable Object) owns the rows in SQLite, orders
all writes by a sequence number, keeps the newest of them as a change history,
and publishes them over WebSockets. A *client* holds a copy of some
collections in TanStack DB, pushes local mutations, and follows the shard by
broadcasts, by catch-up reads of the history, and by reloading.

The question of this project is whether the copy is right: whether a write is
applied once whatever is retried or interrupted, whether a client that was away
can trust what it reads back, and whether its rows are those of the shard once
everything has settled.

## 1. The system

| part | code | state | operations |
|---|---|---|---|
| change history | `server/src/history.ts`, `history-watermarks.ts` | `_lsync_changes`, `_lsync_collection_watermarks` | append, prune, staleness test, catch-up page |
| mutation deduplication | `server/src/mutation-dedup.ts` | `_lsync_applied_updates` | filter a batch, record ids |
| row storage | `server/src/storage.ts`, `sqlite-json-read.ts` | one table per collection | create and seed, insert, merge, delete, paged read |
| shard | `server/src/durable-object.ts`, `socket-attachment.ts` | sockets with their auth and subscriptions | mutate, read, changes, subscribe, unsubscribe, publish, API calls |
| access | `server/src/access*.ts`, `subscription-invalidation.ts` | none (rules over rows) | authorize reads and writes, visibility of an update, invalidations |
| paths | `server/src/collections.ts`, `collection-normalize.ts` | none | resolve a name to a pattern and a scope |
| limits | `server/src/safeguards.ts`, `validation.ts` | none | subscription limit, rate limit, batch validation |
| connection | `tanstack-db/src/client.ts`, `client-rpc.ts`, `client-reconnect.ts`, `client-subscriptions.ts` | socket, connect loop, timer, pending requests, subscriptions | open, request, replay, dispatch, push with retry, close |
| sync session | `tanstack-db/src/sync-session.ts` | state, cursor, buffer, queue | initialize, receive, disconnected, reconnected, recover, stop |
| eager collection | `tanstack-db/src/collection.ts`, `initial-sync.ts`, `collection-broadcast.ts`, `batch.ts` | the rows the application sees | paged load, reload, apply a broadcast, push a transaction |
| on-demand subsets | `tanstack-db/src/subsets.ts`, `local-transaction.ts` | reference counts of subsets and keys, retention timers | load, unload, expire, reload, reconcile |
| offline cache | `tanstack-db/src/offline-cache.ts`, `offline-sync.ts` | IndexedDB rows, a queue of operations | load, put, delete, replace |
| leases and caches | `tanstack-db/src/client-shared.ts`, `collection-type-cache.ts` | reference counts, an LRU map | acquire, release, evict |
| transport | `transport/src/` | none | message schemas, predicates |

How they interact. A push arrives on a socket; `mutate` drops what was already
applied, validates and authorizes the rest, runs one SQLite transaction over
the whole batch (`persistSQLiteJsonBatchWithHistory`) and publishes the updates
with the watermark of the batch to every subscribed socket. A session
subscribes, asks for the watermark, reads the rows page by page, and applies
what was broadcast meanwhile. After a lost socket the client connects again,
restores its subscriptions, and each session asks for the changes after its
cursor; if they were pruned, it reloads.

What is hard, and what makes each part correct:

* *retries and duplicates*: a lost answer makes the client send a batch again;
  it must be applied once and must not be refused later;
* *failure and eviction inside a batch*: rows, history, watermarks and applied
  ids must never disagree;
* *pruning*: a cursor must be reported stale whenever a change after it was
  dropped, also when nothing of its collection is left in the history;
* *paging under writes*: pages are separate requests, with pushes in between;
* *buffering*: broadcasts overlap with what a load or a catch-up has read;
* *lost sockets at any await*: promises reject, others go on, and a recovery
  may be queued behind a job that still runs;
* *reference counts and timers* of subsets, leases and caches;
* *a cache written asynchronously* beside the rows.

The list of places in the code where these bite is in `PROJECT.json`
(`hazards`), each with the properties that cover it.

## 2. Modules

| module | what it is |
|---|---|
| `ChangeLog` | the queries over the history table as operators: `ReadWatermark`, `IsCursorStale`, `SelectChanges`, `ReadChanges`, `PruneChanges` |
| `SequencedLog` | abstract: one log that grows by whole batches, each update once, in order |
| `History` | the durable tables of a shard and the transaction of a push, statement by statement; implements `SequencedLog` |
| `CatchUp` | `History` and a client that reads the history page by page |
| `SyncSession` | one eager collection, from socket to rows, against a shard that others write to |
| `Subsets` | an on-demand collection: live queries, reference counts, retention timers, catch-up and reload |
| `Expressions` | values, expressions, predicates, and the comparison of two values |
| `Predicates` | access rules, predicates, their matching in JavaScript and in SQL, as operators |
| `Reads` | a live query that reads an ordered collection by pages through a rule, while rows are written |
| `Visibility` | a subscriber under a rule that depends on a referenced row |
| `Subscriptions` | the listeners of one client, their entries, replay, and the attachment of the socket |
| `SharedClients` | leases of shared clients, with a reference count |
| `CollectionCache` | the bounded cache of collections, each with a lease of `SharedClients` |
| `OfflineCollection` | local mutations, retried pushes, and the IndexedDB cache of an eager collection |
| `ChangeLogProofs` | lemmas on numbers, folds, the history table and its pages |
| `HistoryProofs` | theorems about `History` and `CatchUp` |
| `CollectionCacheProofs` | theorems about `SharedClients` and `CollectionCache` |
| `SyncSessionProofs`, `SubscriptionsProofs`, `OfflineCollectionProofs` | theorems about the module of that name |
| `SubsetsProofs` | theorems about `Subsets`: first its reference counts, then its rows |
| `VisibilityProofs` | theorems about `Visibility` |
| `MC*` | small instances for TLC |

`CatchUp` composes `History` with a client, `CollectionCache` composes
`SharedClients` with the collections, and `Reads` and `MCVisibility` are state
machines over the operators of `Predicates`. The other modules meet at what one
of them establishes and the next one uses: a shard that is its log.

### History

`disk` is what SQLite has committed, `work` what the open transaction sees.
`persistSQLiteJsonBatchWithHistory` loops over the batch three times:
`deduplicateMutations` (`phase = "dedup"`), `applySQLiteJsonBatch`
(`"apply"`), `appendChange` (`"append"`); one pass of a loop is one action.
`Commit` is the rest of the transaction, `recordAppliedMutations` and
`pruneChanges`, with `publish` and the answer of `mutate`, which follow it
without an await. `Throw` is any error of a statement, after which
`transactionSync` rolls back. `Evict` is the end of the process at any point,
external to the code; it also stands for an answer that is lost. `LimitRate` is
the refusal of the rate limiter, which comes before deduplication and so hits a
retry of an applied batch like any other. `Refuse` is an error of validation or of
an access rule before the transaction; the rules are the application's, so any
batch with something left to do may be refused. `publish` is taken to succeed: a
rule that throws there (an operator nobody knows) would answer an applied push with
an error.

A row is a function from fields to values, so that the merge of an update and
the replacement by an insert differ. A batch may name a collection outside
`Scopes` ("Unknown collection") and carry a value that is not an object. The
counter `lastSeq` is SQLite's own for the AUTOINCREMENT column: it survives the
deletion of all rows.

### CatchUp

`ReadPage` is one pass of the loop in `SyncSession.recover`: it reads a page
(`ReadChanges`) at a moment when no transaction is open, and moves the cursors.
`GoAway` drops the client in the middle. The client comes back with any cursors
the log allows, for any set of collections (`SyncChangesQuery` allows several).

### SyncSession

Here the shard is its log. What `History` establishes is used: the change
history is the newest part of the log (`HistoryIsNewest`) and the rows are its
replay (`RowsAreReplay`). An update writes a whole row, whose content is the
sequence number of the update, or deletes it.

| code | model |
|---|---|
| `open`, `connect`, `connectOnce` | `conn`, `attempt`; `Connect`, `ConnectFails`, `ReplayFails`, `OpenAgain` |
| close listener, `scheduleReconnect` | `Drop`, `AttemptFails` |
| `subscriptions.replay`, then `reconnected` | `Subscribe`, `SubscribeLast`, `Replayed` |
| `pending`, `requestTimeoutMs` | `request`; `Timeout`, `Reject` |
| `initialize` | `job` = `hydrate`, `ready`, `establish`, `load`, `store`; `Hydrate`, `Established`, `Page`, `Stored`, `Loaded` |
| `recover` | `job` = `catchUp`, `reload`; `CatchUpPage`, `Stale`, `Page` |
| `queue` | `queued`, `EndJob` |
| `receive`, `applyBroadcast`, `flush` | `Receive`, `ApplyBroadcast`, `Flush` |
| `webSocketMessage`, `mutate` + `publish` | `Handle`, `Push` |

`wire` is the ordered stream of messages from the shard on one socket; a new
socket starts empty. A step of the client is one event with the promise
reactions it sets off, because no other event is handled before the microtask
queue is empty. When a socket closes, pending requests are rejected before
`disconnected` runs but the reactions to the rejection run after it, so a
queued `recover` has the last word on the state. A request may be sent while
subscriptions are still being restored (the socket is already open); requests
made between sockets wait for `open()`.

`RejectsStale` says what a client does with `RESYNC_REQUIRED`. `createClient`
rejects (`TRUE`); a client given in the options may return the result, as the
one in the repository's own test does (`FALSE`), and then the resync of the
session runs. Both are checked (`stale`, `recovers`).

### Subsets

A subset is an id and the contents that its predicate accepts; live queries
(`Holders`) load and unload subsets. `tracker` is `SubsetTracker`: its
operations are operators on a record of the two maps, `subsets` and `keyRefs`.

| code | model |
|---|---|
| `readSubset`: before the await, the answer, the catch | `Load`, `Answered`, `RejectCalls` |
| `await session.start()`, `await open()` inside `read` | `waiting`, `unsent`, then `asked` |
| `unloadSubset`, `scheduleRetention`, the timer | `Unload`, `ScheduleRetention`, `Retired` |
| `applyCollectionBroadcast` | `ApplyUpdates` |
| `reloadSubsets` | `ReloadNext`, `Reloaded` |
| `recover`, `receive`, `flush` | `CatchUpPage`, `Receive`, `Synchronize` |
| close of the socket, a loop of attempts that fails, reconnection | `Drop`, `ConnectFails`, `Reconnect` |

`SubsetTracker` returns the keys to delete; in the model they are the keys that
an operation takes out of the last subset (`Removed`). A subset that is not
loaded has an empty list of filters, and so takes every row, as in the code.
`queries` (the keys of `subsetQueries`) is a set, and `reloadSubsets` goes through
it in any order. A batch is never empty: the shard also sends broadcasts that carry
only invalidations (`durable-object.ts:133`), but there are no access rules here,
and `Visibility` has both. Buffered broadcasts are applied in the order of
their watermarks (`Sorted`).
`asked` is the stream of requests of one socket, handled in order. A live query
whose load failed does not unload it (what the caller in TanStack DB does then
is outside this repository). The session starts synchronized: its first
connection is the subject of `SyncSession`. A reload happens for a client that
returns `resyncRequired`, as in section 3, `stale`. Limits, offsets and orderings
of a subset are not modelled: the tracker itself looks only at filters and
predicate.

### Predicates and Reads

An expression (`Func`, `Val`, `RowRef`, `ReferenceRef`) is what the builders of
`transport/src/expression.ts` produce. `Compile` is `compileReadExpression` and
`toReadPredicate`, with `NegatePredicate` for `not`; `Reduce` is the partial
evaluation of a rule with the references that are known
(`access-expression.ts`), which also records `Dependencies`;
`MatchesReadPredicate` is the matching in JavaScript, and `FilterSql` the SQL
of `sqlite-json-read.ts`, evaluated with SQLite's three truth values, its order of
types, and what `json_extract` makes of JSON values. An expression that the code
refuses (`not(in(...))`, `eq(value, field)` the wrong way round) is `Thrown`, and
the request with it. Against all of these stands `Allows`, the direct reading of
a rule. A row is a record of tagged values, so that a number, a text, null and a
missing field differ.

In `Reads` a live query with filters, a predicate and `orderBy` reads pages with
the cursor expressions of TanStack DB (`WhereCurrent`, `WhereFrom`, external).
`Write` inserts, deletes and moves rows between the pages.

### Visibility

| code | model |
|---|---|
| `readAccessDecision`, `visibleUpdateForAuth`, `authorizeWriteBatch` | `Decision`, `VisibleUpdate`, `MayWrite` |
| `subscribedInvalidations`, `fieldChanged` | `Invalidates`, `FieldChanged` |
| `mutate` + `publish` of rows, and of the referenced row | `PushTodo`, `PushMember` |
| `read`, `readChanges` | `Load`, `AnswerChanges` |
| `replay` of the subscription; `reconnected`, `recover` | `Reconnect`; `Recover`, `ReceiveChanges`, `CaughtUp` |
| `receive`, `flush`, `applyBroadcast`, `applyCollectionBroadcast` | `ReceiveUpdates`, `ReceiveChanges`, `ApplyBroadcast`, `Handled`, `Dropped` |
| close of the socket, a changes request that times out or is refused | `Disconnect`, `ChangesFail` |

A batch that changes the reference may write a row too: it is authorized by the
reference before the batch and shown by the one after it. A batch has at most one
row of the collection. `link` is the ordered stream to one subscriber. One that
comes back is subscribed again (`Reconnect`), asks for the changes (`Recover`), is
answered (`AnswerChanges`) and takes the answer (`ReceiveChanges`) in steps of
their own, between which rows and the reference change, broadcasts are buffered,
rows arrive and the socket may be lost again. After `ReceiveChanges` the flush goes
through the buffer as `applyBroadcast` does: a broadcast that the cursor has passed
is dropped, its invalidation with it (`sync-session.ts:134`). `moved` is a ghost: the
rule has come to allow other rows since the rows were read, and the subscriber was
told of it, or the telling was lost (while it was away, with the socket, or in a
flush). The session has started on an empty shard, catches up by one page
and never reloads; the rest of it is the subject of `SyncSession`.

How a rule is reduced, matched and read directly are constant operators of
`Visibility` (`Decide`, `Matches`, `Permits`), to which `MCVisibility.cfg` gives the
operators of `Predicates` (`AccessDecision`, `MatchesReadPredicate`, `Allows`).
`DecisionAssumption` says what the module relies on, for the rules and rows of
the instance: a decision shows the rows that the rule allows, one without a predicate
matches all rows, and references between which the rule allows other rows differ in
a field that the later decision depends on. It is what `RuleIsObeyed` and
`DependenciesSuffice` say of the same operators in `reads`, for rows whose compared
fields have the compared type (the rows of `visibility` do); TLC evaluates it on the
instance.

### Subscriptions

| code | model |
|---|---|
| `subscribe`, `start`, `unsubscribe` | `Subscribe`, `Unsubscribe` |
| `open`, `connectOnce`, `scheduleReconnect`, `close` | `Open`, `NewLoop`, `AttemptFails`, `ConnectFails`, `Connected`, `CloseSocket`, `Drop`, `ScheduleReconnect`, `TimerFires`, `Close` |
| `replay`, `hasOpened`, `reconnected` | `Connected`, `Replayed` |
| `takePending`, `rejectPending`, `requestTimeoutMs` | `Resolve`, `RejectRequest`, `RejectPending`, `Timeout` |
| `assertSubscriptionAllowed`, `updateSocketSubscriptions`, `enforceRateLimit` | `SubscriptionAllowed`, `UpdateSubscriptions`, `HandleNext` |
| `subscribedUpdates`, `dispatch` | `Publish`, `Dispatch` |

Listeners of one scope share an entry, whose promise is `ready`. The attachment
`subs` belongs to the socket and outlives an eviction of the shard. `owed` is
a ghost variable: the updates that were published for a listener and that
neither reached it nor came before a reconnection it was told of. `loop` is the
connect loop: the attempts that failed, whether a callback of the reconnect timer
awaits it (`joined`) and will call `scheduleReconnect` when it rejects, and whether
the last loop ended with nobody to do so (`gaveUp`): `scheduleReconnect` returns
while `connectPromise` is set, so a socket lost in a replay leaves no timer. A close is
noticed at once, reconnecting is enabled, a push, which would open a connection too,
is not modelled, and numbers of requests start again when nothing is on its way.

### SharedClients and CollectionCache

`Acquire` and `Release` are the two halves of `acquireSharedClient`. In
`CollectionCache` a collection is an object of TanStack DB (`Subscribe`,
`Unsubscribe`, external) that holds a lease from when it is made until
it is cleaned up; `AllCached` and `AllNew` are `all()`, `Evict` and `EvictDone` the
loop of `evictInactive`, `CleanUp` the part of `cleanupCollection` after its
await, `Dispose` its call for every entry, `Loaded` the call of `markReady`,
`LoadFails` a `session.start()` that rejects, after which the collection stays
`loading` for TanStack DB (`"stalled"` here), `Collect` the garbage collection of
TanStack DB, and `StartCall` and `EndCall` a call of an API method with a lease
of its own.

### OfflineCollection

| code | model |
|---|---|
| `onInsert`, `onUpdate`, `onDelete` with `createBatch` | `Mutate`, `MutationId` |
| `push`, `sendPush`, `retryableMutationError` | `SendPush`, `AfterFailure`, `Timeout`, `OpenFails`, `Answered` |
| `mutate` with `deduplicateMutations` | `HandlePush`, `HandleLate`, `Refuse` |
| `start`, `hydrate`, `initialize`, `recover`, `receive` | `Start`, `Hydrate`, `Connect`, `Load`, `LoadEager`, `Stored`, `Recover`, `Receive` |
| `enqueue`, `put`, `delete`, `replace` | `queue`, `Perform` |
| `persistChanges`, `persistTransaction` | `PersistChanges`, `PersistTransaction` |

A row is the number of the mutation that wrote it. `View` is what TanStack DB
shows: the last local mutation that is not settled, or the synced row. A push
on a socket that is lost may still reach the shard (`late`), after the next
attempt was answered. `Refuse` is the rate limiter, which also refuses a push that
was applied, or validation or a rule. `Crash` closes the tab: the queue of IndexedDB operations
is lost, the rows written so far remain, and the next start hydrates from them.
The load is one request, because `SyncSession` has its pages, and the socket is
not lost during it (section 3, disagreements).

## 3. Runs

| run | cfg | asks | distinct states |
|---|---|---|---|
| `history` | `MCHistory` | do the tables always agree, and implement the log? | 9,598 |
| `catch_up` | `MCCatchUp` | does paging skip, repeat or spin? | 138,028 |
| `session` | `MCSyncSession` | are the rows those of the cursor, and in the end the shard's? | 42,151 |
| `recovers` | `MCSyncRecovers` | does a session on an open socket get synchronized? | 73,872 |
| `stale` | `MCSyncStale` | the same with `createClient`: a disagreement, see below | violated |
| `subsets` | `MCSubsets` | do references and rows of shared subsets agree? | 994,875 |
| `subsets_reload` | `MCSubsetsReload` | does a reload miss a subset in use? | 292,946 |
| `reads` | `MCReads` | do rule, SQL and JavaScript agree on a row, and do pages skip one? | 95,738 |
| `visibility` | `MCVisibility` | does a subscriber see what the rule allows, and learn that it changed? | 1,865,593 |
| `leases` | `MCCollectionCache` | is a client open while used, and closed once, when given back? | 153,954 |
| `subscriptions` | `MCSubscriptions` | do listeners, replay and the attachment agree? | 2,227,914 |
| `offline_cache` | `MCOfflineCollection` | is a push applied once, and do rows and cache end as the shard? | 3,929,266 |

Properties of the shard and its history:

* `IInv` the inductive invariant of `History`, see section 5.
* `AppliedOnce` no id twice, no sequence number twice.
* `HistoryIsNewest` the history is exactly the newest `MaxChanges` updates.
* `NoSilentGap` a cursor not reported stale can be served without a gap.
* `AcceptedIsApplied` an accepted push is applied, all of it.
* `OnlyLimiterRefusesRetry` a push that was applied is never answered with an error
  by anything but the rate limiter.
* `RowsAreReplay` the rows are the replay of all applied updates.
* `ImplementsLog` the refinement of `SequencedLog` by `LogOf(disk)`.
* `NothingSkipped`, `NothingForeign`, `LastPageIsLast`, `PagesAdvance` a
  catch-up hands out what was applied between cursors, all of it, once, and the
  last page really is the last.

Of what a client holds:

* `AtCursor` a synchronized session holds the rows the shard had when its log
  had reached the cursor.
* `Converged` with an open socket and nothing under way, the rows are equal.
* `Recovers` a session that has lost its socket, or waits for its first one, gets
  synchronized unless another fault follows.
* `KeyRefsAgree` the count of a key is the number of subsets that hold it.
* `RefsAgree` the count of a subset is the number of live queries that use it.
* `UnusedExpire` a subset without users waits for its timer.
* `SubsetsComplete`, `SubsetsExact` a live query of a synchronized collection
  sees the rows of its subset, all of them, and no others.
* `PushedOnce` a local mutation is in the log at most once, and is there when
  its push was accepted.
* `ViewIsShard`, `CacheIsShard` at rest the rows, and those of IndexedDB, are
  the rows of the shard.
* `NoPushHangs` a push that waits for an answer has its request or the answer to
  this attempt under way.

Of rules, reads and visibility:

* `RuleIsObeyed` what a rule was compiled to shows no row that the rule, read
  directly, does not allow, and every typed row that it allows.
* `SqlAgreesWithMatch` the SELECT of a read and the matching of broadcasts and
  subsets take the same rows.
* `DependenciesSuffice` references that agree on the recorded dependencies
  lead to the same decision.
* `PagesSkipNothing` a row that nobody wrote and that sorts before the cursor was
  on a page.
* `ViewIsExact` at rest a subscriber has exactly the rows that the rule allows
  now, unless it lost an invalidation (an eager one: unless the reference changed).
* `InvalidationsArrive` when the rule came to allow other rows, a loaded
  on-demand collection has the invalidation on its link or in its buffer, unless it
  was away or its session dropped it.

Of connections:

* `SubscriptionsAgree` at rest the attachment has the scopes of the listeners.
* `NothingMissed` each update published for a ready listener reached it, or a
  reconnection it was told of came later.
* `WithinLimit` a client within the limit is never refused by it.
* `NeverStranded` a client with listeners has a socket, a loop or a timer, unless
  its last loop gave up with nobody to begin another.
* `ClientsInv` a client is open exactly while somebody holds a lease, with the
  right count, one for a connection.
* `ClosedStaysClosed` a closed client is not leased again.
* `UsedIsOpen`, `OneLivePerScope`, `DisposedIsReleased` a collection that syncs
  has an open client, a scope has one of them, and an evicted or disposed one
  gives its lease back, unless its first load failed.

Bounds. `MaxSequence` limits the updates ever applied, `MaxFaults` the lost
sockets, failed attempts and timeouts. In `history` five updates with a history
of two let every change of the first batches be pruned, also the last of a
collection; the batches contain a repeated id, a reused id, a failing second
update of both kinds and collections with and without stored rows. In
`catch_up` pages of one update and a history of three make several pages, with
prunings between them, and a stale cursor possible. In the session runs three
updates suffice for a write, its deletion and an update of another collection
(the one that moves sequence numbers without a broadcast), with one fault in
each of two jobs; the history keeps two. `MCSyncSession` has two attempts per
connect loop, so that a loop ends. `recovers` has a history of one change, two
updates, three faults of any kind (lost sockets, failed attempts, timeouts) and two
attempts, so that a fault follows another at every step of the recovery from the
first, and loops end.

In the subset runs one row goes through three updates (written, moved out of the
smaller subset, deleted, in any order), with two live queries over two
overlapping subsets and one fault. One row is enough because the tracker treats
keys independently. `subsets` was also checked with `GcTime` `"zero"` and
`"infinite"`. `subsets` leaves out unmounting while a subset is read
(`Impatient`) and pages of more than one update (`ChangesLimit`);
`subsets_reload` gives each live query a subset of its own and does not ask for
`SubsetsExact` or `UnusedExpire`, see below.

In `reads` eleven rules combine comparisons, `and`, `or`, `not` and `in` over a
field and two fields of a reference; a row has a number, null or no value; four
queries have filters, predicates and both directions. Three rows, pages of one
and one write between them make every page boundary move. `visibility` has two
todos, a reference with a field that the rules read and one that they do not, four
rules, three pushes and one lost socket: enough for a row to be shown, hidden by its
own update, and hidden or shown by the reference, before, during and after a
catch-up. `leases` has two scopes in a cache of
one, so that every new collection evicts, three objects and one call. In
`subscriptions` two listeners move among three scopes with a limit of two,
three times, connect loops of two attempts, and two faults (a lost socket, a
timeout, a refusal of the rate limiter; failed connections are not counted); scopes and listeners are symmetric, and only invariants are
checked. In `offline_cache` one row is written twice here and once by others, with
two attempts of a push, two faults and one closed tab: a push can be lost,
applied late, refused, and followed by a second one, with the tab closed in
between. Rows do not interact in the cache or the log.

Deadlock is not checked in the runs whose cfg says so: with the bounds used up
and nobody writing, the system is rightly idle.

What the instances leave out, on purpose. `session` has one page of rows, no
initial data and no cache (the first three items below); it says that without
them the protocol is right; `recovers` has initial data and the cache, for
liveness does not depend on the rows. In `reads` agreement is asked for rows whose
compared fields have the compared type. In `visibility` writers know the rows they
write (`StaleOriginals`); invalidations that are lost are in the model, and the
property says what they excuse. `leases` does not use a collection again
after its cleanup (`Restarts`) and starts one when it is made (`Lazy`).
`subscriptions` handles the requests of a socket in order (`Reorders`). In
`offline_cache` the cache is compared with the shard unless, since the last load, a
push failed or was retried, or a page deleted and inserted a row (`followed`).

Fairness. `FairSpec` of `SyncSession` has weak fairness of `Client` (messages are
delivered, timers fire, IndexedDB answers) and of `Server` (a request that was
sent is handled, a replay ends), which is what a socket that stays open gives.
Nothing is assumed of pushes, of faults, or of an application that uses the client
again. A request that times out, or that the rate limiter refuses, is a fault like a
lost socket (`Timeout` rejects it): `Recovers` claims nothing after it, for no
code runs `recover` again before the next lost socket. `FairSpec` of
`CollectionCache` has weak fairness of microtasks (`Evict`, `EvictDone`, `CleanUp`),
which run before any other event, and strong fairness of `LoadEnds`: a first load
that has not ended succeeds or fails, because every request of it times out, and
other events may delay but not prevent it. A load that failed is not assumed to be
followed by a reconnection that makes the collection ready.

### Disagreements

`stale` is expected to be violated: `RESYNC_REQUIRED` is sent as an error,
`createClient` rejects errors, and the branch of `recover` that reloads is never
reached. The session stays in `catching-up`. It needs no pruning: after an
update of another collection the first retained number of a collection can be
larger than cursor + 1. `findings` in `PROJECT.json` quotes the documentation.

The following were met on instances that no run keeps; each is obtained from a
cfg by the change in parentheses.

* A deletion between two pages of the first load makes it skip a row
  (`MCSyncSession`: `ReadLimit = 1`, `MaxSequence = 4`, `MaxFaults = 0`;
  `Converged`; `initial-sync.ts:25`).
* A socket lost during the first load leaves a session that replays the history
  from 0 and never reads `initialData` (`Seeded = {2}`, `Attempts = 4`,
  `MaxFaults = 1`; `Converged`; `sync-session.ts:97`).
* Lost and restored while IndexedDB stores the first load, the session jumps
  over what was published in between (`Offline = TRUE`, `Attempts = 4`,
  `MaxFaults = 1`; `Converged`; `sync-session.ts:69`).
* When all attempts of the first connection fail, a later connection is not
  taken for a reconnection (`client.ts:90`), and nothing starts the session
  again (`MCSyncRecovers`, with `Recovers` claimed whatever faults there have been).
* A changes request that times out (`client.ts:160`) or is refused by the rate
  limiter rejects `recover`, and nothing queues it again: the session stays in
  `catching-up`, buffering, on a socket that stays open (the same).
* A client whose retry of an applied push meets the rate limiter is answered
  `RATE_LIMITED` (`durable-object.ts:81`), which it does not retry
  (`client-reconnect.ts:44`): the mutation fails and its optimistic row is rolled
  back, while the shard keeps it (`MCHistory`, with `OnlyLimiterRefusesRetry`
  claimed of every error).
* A connect loop that `start()` or a push has begun and that runs out of attempts
  leaves the listeners without a socket, a loop or a timer: nobody awaits it to try
  again, and for a socket lost in its replay `scheduleReconnect` had returned
  (`client.ts:58`, `client.ts:141`; `MCSubscriptions`, `NeverStranded` without
  `loop.gaveUp`).
* A collection whose `session.start()` rejects is marked neither ready nor failed
  (`collection.ts:190`): it is never evicted, and a disposal that awaits its
  `preload()` (`collection-type-cache.ts:44`) never returns its lease
  (`MCCollectionCache`, `DisposedIsReleased` without `"stalled"`).
* A live query unmounts while its subset is read, and the read rejects: its
  reference is given back twice, and another query of the same subset loses it
  (`MCSubsets`: `Impatient = TRUE`; `SubsetsComplete`; `collection.ts:223`).
* A row inserted and deleted while the client was away, on one page of the
  history, is written and not deleted (`MCSubsets`: `ChangesLimit = 1000`;
  `SubsetsExact`; `collection-broadcast.ts:37`).
* With shared subsets, the timer set by the first of two unloads forgets the
  query of a subset still in use, and a reload skips it (`MCSubsetsReload`:
  `Wants <- MCShared`; `SubsetsComplete`).
* A row that left its last subset stays in the collection; after a reload, which
  does not read it, a new query can see it although it was deleted
  (`SubsetsExact`, four updates); a subset that is retired while its reload is
  under way is installed again with no user and no timer (`UnusedExpire`), and,
  used again, it is skipped by the next reload (two lost sockets).
* For a field that is missing, null or of another type SQL and JavaScript
  can disagree (`MCReads`, without `Typed`); rows whose order
  value is null or missing end the paging by cursor, and so do more ties than
  the default limit of 1000.
* A writer whose row is outdated sends a `previousValue` that hides from a
  subscriber that its row has gone (`MCVisibility`: `StaleOriginals = TRUE`;
  `access.ts:51`).
* A reference that changes while a client is away leaves it with rows that it
  may not see any more, because catch-up carries no invalidations; and so does one
  that changes while a client catches up, on an open socket: the broadcast with the
  invalidation is buffered, the answer to `changes` moves the cursor past its
  watermark, and `applyBroadcast` drops it (`sync-session.ts:134`)
  (`MCVisibility`, `ViewIsExact` for an on-demand collection whatever `moved` is).
  `docs/examples/permissions.md` says "Subscriptions track those dependencies and
  are invalidated when a referenced permission field changes." An eager collection
  does not look at invalidations at all. An invalidation clears all subsets of every
  on-demand collection it reaches, whichever collection it names
  (`collection-broadcast.ts:24`), and nothing loads them again.
* A collection that is evicted before its first use never gives its lease back
  (`MCCollectionCache`: `Lazy = TRUE`; `DisposedIsReleased`); one that is used
  again after its cleanup syncs with a closed client (`Restarts = TRUE`;
  `UsedIsOpen`).
* An unsubscribe that overtakes a subscribe in the await of the rate limiter
  leaves a socket with a scope nobody listens to, or without one that somebody
  does (`MCSubscriptions`: `Reorders = TRUE`; `SubscriptionsAgree`;
  `durable-object.ts:81`). A client closed during its connect loop opens a
  socket (`client.ts:254`); the model does it too, and no property forbids it.
  A client above the limit loses every replay (`client-subscriptions.ts:75`).
* A broadcast that is applied while a push is pending makes `persistChanges`
  store the optimistic row (`offline-sync.ts:23`); when the push is then refused,
  the cache keeps a row the shard never had (`MCOfflineCollection` without
  `followed`, `MaxLocal = 1`, `MaxFaults = 1`, `MaxCrashes = 0`), although
  `docs/examples/offline-support.md:41` says "A failed server push still rolls
  back and is not written to the cache". The same cache ends wrong when a retried
  push is answered after a newer row was loaded, and when a page deletes a row
  and inserts it again, because `put` precedes `delete`.

## 4. Mutants

Each property of a passing run has a mutant in `PROJECT.json`, a plausible
error in the code, kept in the module beside the definition it changes and
named after it (`CommitRecordingLast`, `StaleKeepingCursor`...). They are used
by no specification.

## 5. Proofs

Everything here holds for every value of the constants that satisfies the
assumption of the module (`HistoryAssumption`, `SessionAssumption`,
`SharedClientsAssumption`, `CollectionCacheAssumption`,
`SubscriptionsAssumption`, `OfflineAssumption`, `SubsetsAssumption`,
`VisibilityAssumption` and `DecisionAssumption`), and is checked by TLAPS. Where a theorem has a hypothesis as well, the code does not keep
the property in general, as section 3 shows under *Disagreements*: the hypothesis
is the case in which it does. The run of the same property satisfies it.

| theorem | hypothesis | why |
|---|---|---|
| `UsedIsOpenHolds`, `OneLivePerScopeHolds` | `~Restarts` | a collection used again after its cleanup has given its lease back |
| `SubscriptionsAgreeHolds`, `NothingMissedHolds`, `WithinLimitHolds` | `~Reorders` | the await of the rate limiter lets requests of one socket overtake each other |
| `AtCursorHolds`, `ConvergedHolds` | `OnePage` | see *The session* below |
| `ReferencesAreCounted` | `~Impatient` | a live query that unmounts while its subset is read, and whose read rejects, gives its reference back twice |
| `UnusedIsRetired`, `SubsetsAreComplete` | `~Impatient`, `NothingPruned` | a reload installs a subset that was retired meanwhile, without a timer, and skips a shared subset whose query was forgotten |
| `VisibilityInvariance`, `ViewIsExactHolds`, `InvalidationsArriveHolds` | `~StaleOriginals` | `visibleUpdateForAuth` takes the `previousValue` of the writer for the row |
| `SubsetsAreExact` | `NothingPruned`, `SingleWrites` | `applyCollectionBroadcast` asks whether the row is there before it performs any write of the batch or page |

### The shard

`HistoryProofs` proves `Invariance`: `Spec => []IInv`, with `TypeCorrect`,
`AppliedOnceHolds`, `HistoryIsNewestHolds`, `AcceptedIsAppliedHolds`,
`OnlyLimiterRefusesRetryHolds` and `NoSilentGapHolds` as consequences, and
`Refinement`: `Spec => ImplementsLog`.

None of the properties is inductive: that an id is applied once depends on
what deduplication has kept of the batch, and that the history is the newest part
of what was applied depends on what the open transaction has appended so far.
`IInv` says what holds between statements:

* `TablesAgree(disk)`: the applied updates have the numbers `1..lastSeq`, each
  once; `latest` of a scope is the number of its last update; the history is
  `Newest`;
* `PendingIsNew`: the updates kept of the batch have distinct ids that were
  never applied, in the order of the batch, and what was dropped was applied or
  is a copy of one that was kept;
* `WorkAgrees`: `work` is `disk` while deduplicating, differs only in the rows
  while applying, and is `disk` plus the first `pos - 1` updates while
  appending (`Appended`);
* `AcceptedIsApplied`, `OnlyLimiterRefusesRetry`: the last answer is true of `disk`.

Each action has a step; `Commit`, the only one that changes `disk`, turns
`Appended(Len(pending))` into `TablesAgree`, with the lemmas of
`ChangeLogProofs` on pruning and watermarks. `NoSilentGap` follows from
`TablesAgree`: `Newest` is closed upward, so a change missing after the cursor
means that the oldest retained change of the scope is later still, or that none
is left and `latest` is ahead of the cursor. The refinement maps the log to the
applied updates by number; `PendingIsNew` gives that it grows by the batch, once
and in order.

`RowsAreReplayHolds` is about a recursive function of the log. Its value is
described by a trace, the rows after each of the first updates (`IsReplay`), for
traces can be extended, joined and compared without recursion: what was applied
is a trace over `disk.applied` (`CommittedIsReplay`), the open transaction one over
the first updates of the batch that starts where that one ends
(`WorkIsReplay`), and `Commit` joins them (`ReplayJoin`). That the recursive
function exists and agrees with the trace is shown by a least counterexample.

### Catch-up

`HistoryProofs` also proves `ReaderInvariance`: `CSpec => []ReaderInv`, and from it
`NothingSkippedHolds` and `NothingForeignHolds`, and, as properties of every step,
`LastPageIsLastHolds` and `PagesAdvanceHolds`. `ReaderInv` says that cursors lie
between where the client started and the last number given out (`CursorsOk`),
that every update it got lies between the two (`GotIsApplied`), and that none
between them is missing (`NothingSkipped`, inductive with the others). The
transactions of `History` go on between two pages: `IInv` is an invariant of the
composition too (`ShardInvariance`), and a page is read from tables of which
`TablesAgree` holds. A page is a set of first rows by number (`FirstRowsAre`,
from a bijection between rows and positions), so everything of the requested
scopes up to its last row is on it; and the staleness test, by the argument of
`NoSilentGap`, has excluded that a row after a cursor was pruned before.

### The session

`SyncSessionProofs` proves `SessionInvariance`: under `OnePage`, `Spec =>
[]SessionInv`, and from it `AtCursorHolds` and `ConvergedHolds`. `OnePage` asks
that a load fits on one page (rows move between pages by offset), that there are no
initial rows (a first load that is interrupted never reads them), that there is no
cache (rows are stored after an await during which the socket can be lost), and that
`MaxChanges` is not 0 (the watermark of an empty history is 0). Everything
else is free: keys, batches, other collections, any history longer than
nothing, the pages of the catch-up, timeouts, lost sockets, connect loops that
end, and both kinds of client (`RejectsStale`).

The session is spread over the log, the messages on the wire, the buffer and the
rows, and `SessionInv` says how they fit:

* `Sent(log, wire, i, n)`: the message at `i` was sent when the log had
  reached `n`: broadcasts before it are not newer, and after it comes
  everything newer than `n` and nothing else. Every broadcast is sent at its own
  watermark (`WireOk`), every answer at some `n` (`AnswerAt`).
* `AnswerOk`: an answer fits the request that the session waits for; for the
  watermark it is `n`, for the rows it is the collection at `n`, for the history
  the updates from the cursor to the next one (or to `n` if there is no more),
  or the request to resync. There is at most one answer, and then a request.
* `HeldOk`, `Older`: the buffered broadcasts do not overlap and are older than
  what is on the wire.
* `RowsOk`: the rows are those at the cursor, in every state.
* `LoadOk`: while rows are loaded, an update after `base` is buffered or on the
  wire. `SyncOk`: what a synchronized session does not have is on the wire.

`FlushIs` is the heart of it: a load has rows at `n` and a base `m <= n`,
and the buffer holds everything between them. Applying the buffered broadcasts to
rows that already contain some of their effects goes through states in which a row
is as new as the load or older (`Partly`), and ends with exactly the rows at the last
cursor. `ChangesAre` says what a page of the history is for any limit,
`PageIs` that one page of rows, written over nothing, is the collection. Both
`flush` and the writing of rows are folds; a fold is described by its trace
(`FoldExists`, `FoldTrace` in `ChangeLogProofs`), as above. For the actions,
`Thinned` is a wire that lost a message (delivery, timeout), `Follows` one that
grew by what the shard sent, and `Settled` says what has to be shown when no
request is left.

`SessionInv` itself was checked with TLC on the instance of `session`
before it was proved.

### Shared clients

`CollectionCacheProofs` begins with `ClientsInvariance`: `ClientsSpec => []ClientsInv`,
and `ClosedStaysClosedHolds`. `ClientsInv` is inductive: its parts need each
other. The count must be the number of holders (`RefsCountLeases`, a cardinality,
with the facts on finite sets of the library) for `Release` to close a client
exactly when the last lease goes, and an entry must belong to one connection
(`EntriesAreOpen`) for the deletion of an entry to leave the others alone. A
closed client has no holder and no entry, so `Acquire` can only find or make
another one.

### The cache of collections

It goes on to prove that the cache uses the leases as
`SharedClients` allows: `CacheUsesSharedClients`, `Spec => ClientsSpec`, step by
step. So `ClientsInv` and `ClosedStaysClosed` hold under the cache
(`CacheKeepsClientsInv`, `CacheKeepsClosed`). `CacheInvariance` adds what ties
collections to leases, without `Restarts`: a collection that was not cleaned up
has its lease (`LiveIsLeased`), the cache holds made collections, one for each
scope (`CachedAreMade`, `OneCachedPerScope`), and a live collection is cached until
its cleanup has begun (`LiveIsCached`). `UsedIsOpenHolds` then needs
`ClientsInv`: a lease is held of an open client only.
`OneLivePerScopeHolds` follows from the last two.

### Subscriptions

`SubscriptionsProofs` proves `SubscriptionsInvariance` without `Reorders`, and
`SubscriptionsAgreeHolds`, `NothingMissedHolds` and `WithinLimitHolds` from it. The
argument is about order. Requests are answered in the order in which they were
sent (`InOrder`), and those of a replay were sent first (`PendingOk`), so an answer
to a `start` arrives after the replay. Each entry of the client is covered
(`EntriesCovered`): the last request about its scope on the socket is a
subscribe it depends on, or there is none and the attachment has the scope, or
an error that will reject it is on its way. `After(n)` is the attachment
after the next `n` requests; nothing but the entries is in it at the end
(`NothingExtra`), and it never exceeds the listeners on the way (`Within`), which
is why the limit refuses nobody within it. An update that is owed to a listener is
on the socket while the connection is up (`OwedOk`). `LoopBounded` says that no loop
makes more attempts than it may. `NeverStrandedHolds` needs none
of this and holds with `Reorders` too. Its one exception, `loop.gaveUp`, is in the
property itself: the loop that ended last had nobody to begin another. It is
cleared when a loop begins, so it excuses nothing later, and it is not set by a
loop that the timer began or joined, or that a refused replay ended.

### On-demand subsets

`SubsetsProofs` climbs from the tracker to the rows. `Trackers` are the trackers
whose counts of keys are right (a cardinality), and each operation of
`SubsetTracker` is a lemma from one of them to another. `KeysAreCounted` follows
for every behaviour: unmounts at any moment, reloads and rejected reads
included.

`SubsetsInvariance`, `Spec => []SubsetsInv`, is about who waits for what. A
request has one place: with the shard (`asked`), answered and on the wire
(`Due`), held back for the session (`waiting`) or for the socket (`unsent`); `PlacesOk`
says that no one has two, `CallersOk` that whoever has one is in `readSubset`, or
is the session at work, and `ConnOk` ties the places to the socket and the state
of the session. Without it a late answer could be taken for that of another call.

`ReferencesAreCounted` needs `RefInv`, the counts of references and `call`
together: a caller that waits holds the subset it waits for. That is what an unmount
before the answer breaks (`Impatient`). When a socket closes, all reads
reject at once, in some order; the rejections are a fold, and `RejectsOf` says
what the whole of it does to the counts. `UnusedIsRetired` adds `QuietInv`, under
`NothingPruned` no message tells the session to reload, because a cursor is
never older than a history that keeps everything (`AllKept`).

The rows need the order of messages. `StreamInv` gives each message on the wire a
moment `n` of the log at which it was sent (`MomentOk`): `Sent` says that
broadcasts before it are not newer and that everything newer than `n` is in a
broadcast behind it; `Tells` what the message says of the log at `n`, for a broadcast,
the rows of a subset or a page of the history. A synchronized session finds
every change after its cursor on the wire. Three facts are drawn from it for each
message that is taken: the moments are in the order of the wire (`SentInOrder`),
the cursor has not passed them (`Past`), and what is not told now is told later.

`SubsetsAreComplete` does not hold in the middle of a catch-up: an answer to a
read is newer than the cursor, and so are the rows it brought. The inductive
form, `CompleteInv`, speaks about the rows that are `Settled`: rows of which no
change is `Owed`, that is, no later page of the history will tell the session
of one. Of a row that is owed nothing is claimed, since the page that comes
rewrites it; and once the session is synchronized nothing is owed. `ServedInv`
adds that a live query that does not wait has its subset loaded.

`SubsetsAreExact` does not need `~Impatient`: a row that remains after its subset
is harmless if it is the current one. `ExactInv` says of settled rows that they
are absent or those at the cursor. The case that fails is one batch, or one page,
that writes a row twice: `OnceInv` says that under `SingleWrites` no message
does. `SubsetsAreComplete` has no such hypothesis, because the last write of a
row that the predicate accepts puts it there in either case. `ApplyUpdates` is a
fold over the changes in their order; as above it is described by its trace
(`IsApply`, `IsFlush`, `IsWrite`), and `ApplyUpdateIs` says what one change does to
the rows, the subsets and the counts.

### Rules

`VisibilityProofs` proves `VisibilityInvariance`, `Spec => []VisibilityInv`, and
from it `ViewIsExactHolds` and `InvalidationsArriveHolds`, for any rows, rules,
references and writers, as far as a rule is what `DecisionAssumption` says.

`Shown(a, h, n, m)` are the rows after `n` batches of the history `h` that the
rules `a` show by the reference `m`. `VisibleIs` says what `visibleUpdateForAuth`
makes of the batch `n`, when its author knew the row: if there is nothing to
deliver, `n` is `Silent`, it does not change what is shown; otherwise what is
delivered `TellsOf` the row as it is shown afterwards. So a row that an update
hides is deleted, one that it reveals is there. `ViewIsExact` is not inductive,
because it speaks about a link that is empty. `VisibilityInv` says what is on it,
and what is not:

* `LinkOk`: watermarks on the link do not fall, a broadcast is newer than all
  before it, and nothing is older than the cursor; there is at most one answer of
  each kind;
* `SessionOk`: who is connected, synchronized and waiting for what; what is buffered
  is not newer than the answer that the session waits for (`Below`), so that the
  flush drops all of it;
* `RowsOk`: until the rule allows other rows (`moved`), the rows of a subscriber
  stand for a batch `n` (`Stands`): they are `Shown` after it, and for a
  synchronized session each later batch is silent or on the link (`Follows`). `n` may
  be ahead of the cursor, because an answer with rows is newer than it; it is not
  ahead of an answer with changes. The messages on the link tell rightly (`Right`):
  an answer with rows is what is shown at its watermark, one with changes has every
  batch from the cursor to its watermark that is not silent (`Catches`);
* `ToldOk`: once the rule allows other rows, a loaded on-demand subscriber has the
  invalidation on its link or in its buffer, and an answer with rows has it behind
  itself, unless the telling was lost.

When the reference changes and the rule allows the same rows, what is shown is
the same at every moment (`ShownByNext`), although the decision may have changed;
when it allows others, the dependencies of the new decision have changed
(`MovesTells`), and the message of the batch invalidates. A batch that changes
both is shown by the reference after it and may be left out of the link only if
it is silent and does not invalidate (`PublishedIs`).

The answer to `changes` is where it all meets (`ChangesArrive`). Catching up is a
fold over the missed batches, described by its trace (`CatchUpTrace`). The rows may
already be newer than the first of them, and a batch that is applied again takes a
row back for a while; so the trace says of each row that it is as the rows were at
the beginning or as shown after one of the batches since the cursor (`Reached`), and
that at the end every row is the last one shown (`CatchUpIs`). The flush behind it
applies nothing, and loses every invalidation in the buffer (`FlushIs`).

`VisibilityInv` was checked with TLC on the instance of `visibility` before it
was proved.

### Pushes, rows and the cache

`OfflineCollectionProofs` has three invariants, each on top of the one before.

`PushInvariance`: `Spec => []PushInv`, with `PushedOnceHolds` and
`NoPushHangsHolds` as consequences. `PushInv` adds to the two
properties what makes them inductive: a change in the log is a mutation under its
own id or one of others under an id no mutation has (`LogOk`); a push on the
socket or late carries the id of its mutation, and an answer that accepts one
tells of a change in the log (`MessagesOk`); and no push waits for an answer while
there is no socket (`SentIsUp`), because a new socket starts without the
requests of the old one. Then a push whose id is not in the log can be appended
(`LogGrows`), and whatever takes a message away leaves an answer to the same
attempt, or nobody who waits for it (`Handled`, `Taken`, `Rejected`).

`SyncInvariance`: `Spec => [](PushInv /\ SyncInv)`, with `ViewIsShardHolds`. `ConnOk`
relates the log, the held updates, both directions of the socket, the session, its
cursor and its rows: the rows are those of the shard at the cursor (`RowsOk`);
what is held and on the wire tells of the log in its order, the held updates first
(`StreamOk`); an answer with rows or changes stands between the updates up to its
watermark and the later ones (`AnswersOk`), and it is the one the session waits
for (`RequestsOk`). `ConnOk` is an operator of all of these as parameters, so that
what a message more or less does to it is shown once (`Conn...`), and an action only
has to say what it does to which part. The rows are a fold over the log: `RowsAre`
says of each row which change wrote it last, `WrittenOn` that a page in the order
of the log moves the rows from one moment to another, and `FlushIs` that the held
updates do the same and skip what the rows already have.

`CacheInvariance`: `Spec => [](PushInv /\ SyncInv /\ CacheInv)`, with
`CacheIsShardHolds`. `Ends(queue, cache, k, v)` says that row `k` of IndexedDB is `v`
when the queue has been performed; `StoredOk` that `v` is then the row of the
collection, or a mutation of the row is pending, or a change of it is held. The
hard case is an accepted mutation: `persistTransaction` appends *its* row to the
queue, after whatever broadcasts have put there, and the pending mutation that
excused the difference is gone. It is right only if no later change of that row
has been queued before. `ToldOk` says why: the answer to a first attempt comes right
behind the broadcast of its change, so this change is the newest that the
collection was told of (`Newest`). For a retried push this is false, since the
change may have been applied long before, which is why `CacheIsShard` excludes
retries (`followed`). That the log knows nothing of a mutation whose first push
is still on its way is `FreshOk`. A page that deletes and inserts a row
again is excluded because `persistChanges` queues all puts of a page before its
deletes.

The three invariants were checked with TLC on smaller instances than
`offline_cache` before they were proved.

### Only model-checked

* `SubsetsComplete` with a history that is pruned, so that the session reloads
  (`subsets_reload`), and, where they hold at all, the properties of `Subsets`
  outside the hypotheses above.
* `Reads`, and that the operators of the code satisfy `DecisionAssumption`:
  `Predicates` declares recursive operators, for expressions are trees, and nothing
  can be proved in a module that reaches one.
* `Visibility` with writers whose rows are outdated: there `ViewIsExact` fails
  (section 3).
* The session beyond `OnePage`, where the properties fail (section 3).
* `Recovers` and `DisposedIsReleased`: liveness under fairness, and ENABLED, are
  beyond the prover.

## 6. Not modelled, and the plan

Not modelled, and why:

* collection paths (`collections.ts`, `collection-normalize.ts`): a pure function
  from a name to a pattern, decided by characters of strings; the modules have one
  scope for a name, or none;
* `callApi` and the RPC entry points of the shard: the application's methods,
  around the same `mutate` and `read`;
* `SyncSession.stop`, `trackLocalTransaction` of on-demand collections,
  `ignoreOwnUpdates`, transactions of several mutations, and rows that are merged
  in part at the client (`batch.ts:70`), where the merge is TanStack DB's;
* errors of IndexedDB, which the code swallows;
* indexes and identifiers of SQL, ordering by several fields, message encoding,
  the builders and types, the worker entry, the examples and the build scripts:
  no state of the protocol.

Next, in the order of importance:

1. `SubsetsAreComplete` for subsets that do not overlap, when the session reloads
   (what `subsets_reload` checks).
2. `SyncSession.stop` and local mutations of on-demand collections.
