------------------------------ MODULE Subsets ------------------------------
(***************************************************************************)
(* An on-demand collection of one client: live queries load and unload     *)
(* server-side subsets of the rows, which reference counts, retention      *)
(* timers, broadcasts and reloads keep or drop                             *)
(* (packages/tanstack-db/src: collection.ts, subsets.ts,                   *)
(* collection-broadcast.ts).                                               *)
(*                                                                         *)
(* The shard is its log, as in SyncSession, and the session is reduced to  *)
(* what the subsets meet: it starts synchronized over an empty log, loses  *)
(* its socket, catches up, and reloads when the history was pruned.  A row *)
(* is its content, and an update writes a whole row or deletes it.  A      *)
(* subset is the contents that its predicate accepts; a limit or an offset *)
(* of a query is not modelled.                                             *)
(*                                                                         *)
(* A step of the client handles one event with the promise reactions that  *)
(* it sets off.                                                            *)
(***************************************************************************)
EXTENDS ChangeLog, SequencesExt

CONSTANTS
  Keys,         \* row keys
  Values,       \* row contents
  Gone,         \* "there is no such row"
  Accepts,      \* for the id of each subset, the contents that it accepts
  Holders,      \* the live queries
  Wants,        \* for each of them, the subsets that it may load
  Session,      \* the one who asks when the session itself sends a request
  None,
  Batches,      \* the batches that clients push
  Collection,   \* the name of the collection
  MaxChanges,   \* options.history.maxChanges
  ChangesLimit, \* the limit that recover asks for
  GcTime,       \* options.gcTime: "zero", "finite" or "infinite"
  Impatient,    \* may a live query unmount while it waits for its subset?
  MaxSequence,  \* bound: updates ever pushed
  MaxFaults     \* bound: lost sockets

Ids == DOMAIN Accepts
Entry == [seq : 1..MaxSequence, scope : {Collection}, key : Keys,
          value : Values \cup {Gone}]

ASSUME SubsetsAssumption ==
  /\ Gone \notin Values /\ None \notin Ids /\ Session \notin Holders
  /\ \A id \in Ids : Accepts[id] \subseteq Values
  /\ IsFiniteSet(Holders) /\ Wants \in [Holders -> SUBSET Ids]
  /\ Batches \subseteq Seq([key : Keys, value : Values \cup {Gone}]) \ {<<>>}
  /\ MaxChanges \in Int /\ ChangesLimit \in Nat \ {0}
  /\ GcTime \in {"zero", "finite", "infinite"} /\ Impatient \in BOOLEAN
  /\ {MaxSequence, MaxFaults} \subseteq Nat

VARIABLES
  log,      \* every update ever applied by the shard
  connected,
  asked,    \* who has sent a request that the shard has yet to handle
  wire,     \* what the shard has sent on this socket, in order
  faults,   \* sockets lost so far
  state,    \* SyncSession._state
  queue,    \* SyncSession.queue: "settled", "running" or "rejected"
  cursor, buffered,
  base,     \* the watermark of the answer that made the session reload
  reloading, \* the subset that reloadSubsets waits for, or None
  visited,  \* the entries of subsetQueries that its loop has reached
  held,     \* the subset that a live query holds, or None
  call,     \* the subset that a running readSubset of it reads, or None
  waiting,  \* those that await session.start(), in order
  unsent,   \* those that await a socket, in order
  tracker,  \* SubsetTracker: subsets by id, and keyRefs (0: no entry)
  timers,   \* the ids in retentionTimers
  queries,  \* the ids in subsetQueries
  local     \* the rows of the collection

socket == <<connected, asked, wire, faults>>
session == <<state, queue, cursor, buffered, base, reloading, visited>>
calls == <<held, call, waiting, unsent>>
rows == <<tracker, timers, queries, local>>
vars == <<log, socket, session, calls, rows>>

-----------------------------------------------------------------------------
(* The shard.                                                              *)
Watermark == ReadWatermark(log)
Changes == PruneChanges(log, Watermark, MaxChanges)

(* The updates in the order of their numbers.                              *)
InOrder(updates) ==
  [i \in 1..Cardinality(updates) |->
     CHOOSE c \in updates : Cardinality({d \in updates : d.seq <= c.seq}) = i]

(* The rows of the shard when its log had reached n.                       *)
RowsAt(n) ==
  FoldLeft(LAMBDA view, c : [view EXCEPT ![c.key] = c.value],
           [k \in Keys |-> Gone], InOrder({c \in log : c.seq <= n}))

(* The answer to a read of a subset: its rows, by key.                     *)
ReadRows(id) ==
  LET all == RowsAt(Watermark)
  IN  [k \in {k \in Keys : all[k] \in Accepts[id]} |-> all[k]]

Answer(who) ==
  CASE who # Session ->
         [type |-> "rows", holder |-> who, rows |-> ReadRows(call[who])]
    [] who = Session /\ reloading # None ->
         [type |-> "reloaded", rows |-> ReadRows(reloading)]
    [] who = Session /\ reloading = None ->
         [type |-> "history",
          answer |-> ReadChanges(Changes, [s \in {Collection} |-> Watermark],
                                 [s \in {Collection} |-> cursor], ChangesLimit)]

(* The shard handles the next request of the socket.                       *)
Handle ==
  /\ asked # <<>>
  /\ wire' = Append(wire, Answer(Head(asked)))
  /\ asked' = Tail(asked)
  /\ UNCHANGED <<log, connected, faults, session, calls, rows>>

(* A client's push is applied and published in one go; nothing is          *)
(* published of a batch without updates.                                   *)
Push(b) ==
  /\ Watermark + Len(b) <= MaxSequence
  /\ LET updates == {[seq |-> Watermark + i, scope |-> Collection,
                      key |-> b[i].key, value |-> b[i].value] :
                       i \in DOMAIN b}
     IN  /\ log' = log \cup updates
         /\ wire' = IF connected
                    THEN Append(wire, [type |-> "updates", updates |-> updates,
                                       watermark |-> Watermark + Len(b)])
                    ELSE wire
  /\ UNCHANGED <<connected, asked, faults, session, calls, rows>>

-----------------------------------------------------------------------------
(* SubsetTracker.  t is a value of the tracker.                            *)

(* Map.set.                                                                *)
Put(f, x, y) == [i \in DOMAIN f \cup {x} |-> IF i = x THEN y ELSE f[i]]

Loaded(t, id) == id \in DOMAIN t.subsets /\ t.subsets[id].loaded

Retain(t, id) ==
  IF id \in DOMAIN t.subsets THEN [t EXCEPT !.subsets[id].refs = @ + 1]
  ELSE [t EXCEPT !.subsets =
          Put(@, id, [keys |-> {}, loaded |-> FALSE, refs |-> 1])]

(* The reference counts after the keys were released once each.            *)
ReleaseKeys(keyRefs, keys) ==
  [k \in Keys |-> IF k \in keys THEN Max({0, keyRefs[k] - 1}) ELSE keyRefs[k]]

(* What the operations return for deletion: the keys that were in a subset *)
(* of t and are in none of u.                                              *)
Removed(t, u) == {k \in Keys : t.keyRefs[k] > 0 /\ u.keyRefs[k] = 0}

Replace(t, id, keys) ==
  LET old == IF id \in DOMAIN t.subsets THEN t.subsets[id]
             ELSE [keys |-> {}, refs |-> 0]
      released == ReleaseKeys(t.keyRefs, old.keys)
  IN  [subsets |-> Put(t.subsets, id,
                       [keys |-> keys, loaded |-> TRUE, refs |-> old.refs]),
       keyRefs |-> [k \in Keys |->
                      IF k \in keys THEN released[k] + 1 ELSE released[k]]]

(* Mutant of Expire: it does not ask whether the subset is in use again.   *)
ExpireInUse(t, id) ==
  IF id \notin DOMAIN t.subsets THEN t
  ELSE [subsets |-> Restrict(t.subsets, DOMAIN t.subsets \ {id}),
        keyRefs |-> ReleaseKeys(t.keyRefs, t.subsets[id].keys)]

Expire(t, id) ==
  IF id \notin DOMAIN t.subsets \/ t.subsets[id].refs > 0 THEN t
  ELSE [subsets |-> Restrict(t.subsets, DOMAIN t.subsets \ {id}),
        keyRefs |-> ReleaseKeys(t.keyRefs, t.subsets[id].keys)]

Release(t, id, retain) ==
  IF id \notin DOMAIN t.subsets THEN t
  ELSE LET u == [t EXCEPT !.subsets[id].refs = Max({0, @ - 1})]
       IN  IF retain THEN u ELSE Expire(u, id)

(* Mutant of ReconcileRow: a row that a subset has already is counted      *)
(* again.                                                                  *)
ReconcileRowTwice(t, k, value) ==
  LET matching == {id \in DOMAIN t.subsets :
                     t.subsets[id].loaded => value \in Accepts[id]}
      had == {id \in DOMAIN t.subsets : k \in t.subsets[id].keys}
  IN  [subsets |-> [id \in DOMAIN t.subsets |->
                      [t.subsets[id] EXCEPT !.keys =
                         IF id \in matching THEN @ \cup {k} ELSE @ \ {k}]],
       keyRefs |-> [t.keyRefs EXCEPT ![k] =
                      @ + Cardinality(matching) - Cardinality(had \ matching)]]

(* Which subsets a row belongs to changes with its content.  A subset that *)
(* is not loaded has no filters yet and takes every row.                   *)
ReconcileRow(t, k, value) ==
  LET matching == {id \in DOMAIN t.subsets :
                     t.subsets[id].loaded => value \in Accepts[id]}
      had == {id \in DOMAIN t.subsets : k \in t.subsets[id].keys}
  IN  [subsets |-> [id \in DOMAIN t.subsets |->
                      [t.subsets[id] EXCEPT !.keys =
                         IF id \in matching THEN @ \cup {k} ELSE @ \ {k}]],
       keyRefs |-> [t.keyRefs EXCEPT ![k] =
                      @ + Cardinality(matching \ had)
                        - Cardinality(had \ matching)]]

DeleteKey(t, k) ==
  [subsets |-> [id \in DOMAIN t.subsets |->
                  [t.subsets[id] EXCEPT !.keys = @ \ {k}]],
   keyRefs |-> [t.keyRefs EXCEPT ![k] = 0]]

-----------------------------------------------------------------------------
(* The rows.                                                               *)
DeleteKeys(view, keys) ==
  [k \in Keys |-> IF k \in keys THEN Gone ELSE view[k]]

(* Mutant of ApplyUpdates: a row is written only into a subset that takes  *)
(* it, and one that leaves its last subset keeps its old content.          *)
ApplyUpdatesToMatching(view, updates) ==
  LET step(v, u) ==
        LET t == IF u.value = Gone THEN DeleteKey(v.tracker, u.key)
                 ELSE ReconcileRow(v.tracker, u.key, u.value)
        IN  [v EXCEPT !.tracker = t,
                      !.local[u.key] =
                        IF u.value = Gone \/ t.keyRefs[u.key] > 0
                        THEN u.value ELSE @]
  IN  FoldLeft(step, view, InOrder(updates))

(* One update, for a collection that had these rows.                       *)
ApplyUpdate(had, view, u) ==
  LET t == IF u.value = Gone THEN DeleteKey(view.tracker, u.key)
           ELSE ReconcileRow(view.tracker, u.key, u.value)
  IN  [view EXCEPT !.tracker = t,
                   !.local[u.key] =
                     IF had[u.key] # Gone \/ t.keyRefs[u.key] > 0
                     THEN u.value ELSE @]

(* applyCollectionBroadcast: the tracker follows the updates one by one;   *)
(* whether the collection has a row is asked before any of them is written. *)
ApplyUpdates(view, updates) ==
  FoldLeft(LAMBDA v, u : ApplyUpdate(view.local, v, u), view, InOrder(updates))

View == [tracker |-> tracker, local |-> local, cursor |-> cursor]

(* applyBroadcast of the session.                                          *)
ApplyBroadcast(view, broadcast) ==
  IF broadcast.watermark <= view.cursor THEN view
  ELSE [ApplyUpdates(view, {c \in broadcast.updates : c.seq > view.cursor})
          EXCEPT !.cursor = broadcast.watermark]

(* The rows that were read for a subset are written, those that it alone   *)
(* held are deleted.                                                       *)
Install(id, read) ==
  LET t == Replace(tracker, id, DOMAIN read)
      kept == DeleteKeys(local, Removed(tracker, t))
  IN  [View EXCEPT !.tracker = t,
                   !.local = [k \in Keys |-> IF k \in DOMAIN read THEN read[k]
                                             ELSE kept[k]]]

Becomes(view) ==
  tracker' = view.tracker /\ local' = view.local /\ cursor' = view.cursor

-----------------------------------------------------------------------------
(* The live queries.                                                       *)

(* Mutant of RejectCalls: the references stay.                             *)
RejectCallsKeepingRefs(failing) ==
  /\ held' = [h \in Holders |-> IF h \in failing THEN None ELSE held[h]]
  /\ call' = [h \in Holders |-> IF h \in failing THEN None ELSE call[h]]
  /\ UNCHANGED rows

(* readSubset of some of them rejects: the reference is given back and the *)
(* live query has an error instead of the subset.                          *)
RejectCalls(failing) ==
  LET t == FoldLeft(LAMBDA u, h : Release(u, call[h], FALSE), tracker,
                    SetToSeq(failing))
  IN  /\ tracker' = t
      /\ local' = DeleteKeys(local, Removed(tracker, t))
      /\ held' = [h \in Holders |-> IF h \in failing THEN None ELSE held[h]]
      /\ call' = [h \in Holders |-> IF h \in failing THEN None ELSE call[h]]
      /\ UNCHANGED <<timers, queries>>

(* loadSubset: a loaded subset is there at once, else it is read when the  *)
(* queue of the session settles and a socket is open.                      *)
Load(h, id) ==
  /\ id \in Wants[h] /\ held[h] = None /\ call[h] = None
  /\ timers' = timers \ {id}
  /\ UNCHANGED <<log, connected, wire, faults, session, queries>>
  /\ LET t == Retain(tracker, id) IN
       IF queue = "rejected" /\ ~Loaded(tracker, id)
       THEN /\ tracker' = Release(t, id, FALSE)
            /\ local' = DeleteKeys(local, Removed(t, tracker'))
            /\ UNCHANGED <<asked, calls>>
       ELSE /\ held' = [held EXCEPT ![h] = id]
            /\ tracker' = t /\ UNCHANGED local
            /\ IF Loaded(tracker, id) THEN UNCHANGED <<call, waiting, unsent, asked>>
               ELSE /\ call' = [call EXCEPT ![h] = id]
                    /\ waiting' = IF queue = "running" THEN Append(waiting, h)
                                  ELSE waiting
                    /\ asked' = IF queue = "settled" /\ connected
                                THEN Append(asked, h) ELSE asked
                    /\ unsent' = IF queue = "settled" /\ ~connected
                                 THEN Append(unsent, h) ELSE unsent

(* Mutant of ScheduleRetention: the timer is set for the subset that       *)
(* released rows at once, not for the one that keeps them.                 *)
ScheduleRetentionOfFreed(id, freed) ==
  timers' = IF freed /\ GcTime = "finite" THEN timers \cup {id} ELSE timers

(* scheduleRetention sets a timer when the retention is finite.            *)
ScheduleRetention(id, freed) ==
  timers' = IF ~freed /\ GcTime = "finite" THEN timers \cup {id} ELSE timers

(* unloadSubset.                                                           *)
Unload(h) ==
  /\ held[h] # None /\ (call[h] = None \/ Impatient)
  /\ held' = [held EXCEPT ![h] = None]
  /\ LET id == held[h]
         released == Release(tracker, id, GcTime # "zero")
         freed == Removed(tracker, released) # {}
     IN  /\ tracker' = IF ~freed /\ GcTime = "zero" THEN Expire(released, id)
                       ELSE released
         /\ local' = DeleteKeys(local, Removed(tracker, tracker'))
         /\ ScheduleRetention(id, freed)
         /\ queries' = IF freed THEN queries \ {id} ELSE queries
         /\ visited' = IF freed THEN visited \ {id} ELSE visited
  /\ UNCHANGED <<log, socket, state, queue, cursor, buffered, base, reloading,
                 call, waiting, unsent>>

(* A retention timer fires.                                                *)
Retired(id) ==
  /\ id \in timers /\ timers' = timers \ {id}
  /\ queries' = queries \ {id} /\ visited' = visited \ {id}
  /\ tracker' = Expire(tracker, id)
  /\ local' = DeleteKeys(local, Removed(tracker, tracker'))
  /\ UNCHANGED <<log, socket, state, queue, cursor, buffered, base, reloading,
                 calls>>

(* The answer to readSubset.                                               *)
Answered(message) ==
  LET id == call[message.holder] IN
  /\ Becomes(Install(id, message.rows))
  /\ queries' = queries \cup {id}
  /\ call' = [call EXCEPT ![message.holder] = None]
  /\ UNCHANGED <<asked, state, queue, buffered, base, reloading, visited,
                 held, waiting, unsent, timers>>

-----------------------------------------------------------------------------
(* The session.                                                            *)
Receive(broadcast) ==
  /\ IF state = "synchronized"
     THEN Becomes(ApplyBroadcast(View, broadcast)) /\ UNCHANGED buffered
     ELSE Becomes(View) /\ buffered' = Append(buffered, broadcast)
  /\ UNCHANGED <<asked, state, queue, base, reloading, visited, calls, timers,
                 queries>>

(* Broadcasts by their watermarks.                                         *)
Sorted(broadcasts) ==
  [i \in 1..Cardinality(broadcasts) |->
     CHOOSE b \in broadcasts :
       Cardinality({d \in broadcasts : d.watermark <= b.watermark}) = i]

(* The end of recover: flush and markSynchronized; the calls that awaited  *)
(* the queue go on.                                                        *)
Synchronize(view) ==
  /\ Becomes(FoldLeft(ApplyBroadcast, view, Sorted(ToSet(buffered))))
  /\ buffered' = <<>>
  /\ state' = "synchronized" /\ queue' = "settled"
  /\ asked' = asked \o waiting /\ waiting' = <<>>
  /\ reloading' = None /\ visited' = {}

(* Mutant of ReloadNext: the cursor does not follow the reloaded rows.     *)
ReloadNextKeepingCursor(view, watermark, reached) ==
  /\ base' = watermark
  /\ \/ queries \subseteq reached /\ Synchronize(view)
     \/ \E id \in queries \ reached :
          /\ reloading' = id /\ visited' = reached \cup {id}
          /\ asked' = Append(asked, Session)
          /\ Becomes(view) /\ state' = "resyncing"
          /\ UNCHANGED <<queue, buffered, waiting>>

(* The loop of reloadSubsets goes on with an entry of subsetQueries that   *)
(* it has not reached; a Map hands them out in the order of insertion,     *)
(* here they come in any order.                                            *)
ReloadNext(view, watermark, reached) ==
  /\ base' = watermark
  /\ \/ queries \subseteq reached
        /\ Synchronize([view EXCEPT !.cursor = watermark])
     \/ \E id \in queries \ reached :
          /\ reloading' = id /\ visited' = reached \cup {id}
          /\ asked' = Append(asked, Session)
          /\ Becomes(view) /\ state' = "resyncing"
          /\ UNCHANGED <<queue, buffered, waiting>>

Reloaded(message) ==
  /\ ReloadNext(Install(reloading, message.rows), base, visited)
  /\ UNCHANGED <<held, call, unsent, timers, queries>>

(* One pass of the loop of recover, on the answer to client.changes.       *)
CatchUpPage(answer) ==
  /\ UNCHANGED <<held, call, unsent, timers, queries>>
  /\ IF answer.type = "resyncRequired"
     THEN ReloadNext(View, answer.watermark, {})
     ELSE LET view == [ApplyUpdates(View, answer.updates) EXCEPT !.cursor =
                         Max({cursor, answer.cursors[Collection]})]
          IN  /\ UNCHANGED base
              /\ IF answer.hasMore
                 THEN /\ Becomes(view) /\ asked' = Append(asked, Session)
                      /\ UNCHANGED <<state, queue, buffered, reloading,
                                     visited, waiting>>
                 ELSE Synchronize(view)

(* The next message of the socket.                                         *)
Deliver ==
  /\ wire # <<>>
  /\ LET message == Head(wire) IN
       CASE message.type = "updates" -> Receive(message)
         [] message.type = "rows" -> Answered(message)
         [] message.type = "reloaded" -> Reloaded(message)
         [] message.type = "history" -> CatchUpPage(message.answer)
  /\ wire' = Tail(wire)
  /\ UNCHANGED <<log, connected, faults>>

-----------------------------------------------------------------------------
(* The socket is lost: what was asked rejects, recover with it, and with   *)
(* recover the calls that await the queue.                                 *)
Drop ==
  /\ connected /\ faults < MaxFaults
  /\ connected' = FALSE /\ faults' = faults + 1
  /\ asked' = <<>> /\ wire' = <<>>
  /\ state' = "disconnected"
  /\ queue' = IF queue = "running" THEN "rejected" ELSE queue
  /\ reloading' = None /\ visited' = {}
  /\ RejectCalls({h \in Holders : call[h] # None}) /\ waiting' = <<>>
  /\ UNCHANGED <<log, cursor, buffered, base, unsent>>

(* The attempts of a connect loop are used up.                             *)
ConnectFails ==
  /\ ~connected /\ unsent # <<>>
  /\ RejectCalls(Range(unsent)) /\ unsent' = <<>>
  /\ UNCHANGED <<log, socket, session, waiting>>

(* The client has a socket again and its subscription is restored: recover *)
(* asks for the history.  Reads that were made while subscriptions were    *)
(* being restored are on the socket before it, others after it.            *)
Reconnect ==
  /\ ~connected /\ connected' = TRUE
  /\ state' = "catching-up" /\ queue' = "running"
  /\ \/ asked' = <<Session>> \o unsent
     \/ asked' = Append(unsent, Session)
  /\ unsent' = <<>>
  /\ UNCHANGED <<log, wire, faults, cursor, buffered, base, reloading, visited,
                 held, call, waiting, rows>>

-----------------------------------------------------------------------------
Init ==
  /\ log = {}
  /\ connected = TRUE /\ asked = <<>> /\ wire = <<>> /\ faults = 0
  /\ state = "synchronized" /\ queue = "settled"
  /\ cursor = 0 /\ buffered = <<>> /\ base = 0
  /\ reloading = None /\ visited = {}
  /\ held = [h \in Holders |-> None] /\ call = held
  /\ waiting = <<>> /\ unsent = <<>>
  /\ tracker = [subsets |-> <<>>, keyRefs |-> [k \in Keys |-> 0]]
  /\ timers = {} /\ queries = {} /\ local = [k \in Keys |-> Gone]

LiveQuery == \E h \in Holders : Unload(h) \/ \E id \in Ids : Load(h, id)
Client == Deliver \/ Reconnect \/ \E id \in Ids : Retired(id)
Server == Handle \/ \E b \in Batches : Push(b)

Next == LiveQuery \/ Client \/ Server \/ Drop \/ ConnectFails

Spec == Init /\ [][Next]_vars
-----------------------------------------------------------------------------
(***************************************************************************)
(* Properties.                                                             *)
(***************************************************************************)
(* The reference count of a key is the number of subsets that hold it,     *)
(* whatever rows joined and left them and in whichever order subsets were  *)
(* read, reloaded, released and expired (subsets.ts).                      *)
KeyRefsAgree ==
  \A k \in Keys : tracker.keyRefs[k] =
    Cardinality({id \in DOMAIN tracker.subsets : k \in tracker.subsets[id].keys})

(* The reference count of a subset is the number of live queries that hold *)
(* it or wait for it, so that no subset in use expires (collection.ts:     *)
(* loadSubset, unloadSubset and the rejection of readSubset).              *)
RefsAgree ==
  \A id \in Ids : Cardinality({h \in Holders : held[h] = id}) =
    IF id \in DOMAIN tracker.subsets THEN tracker.subsets[id].refs ELSE 0

(* A subset that no live query uses waits for its retention timer: its     *)
(* rows are not kept for ever.                                             *)
UnusedExpire ==
  GcTime = "finite" =>
    \A id \in DOMAIN tracker.subsets :
      tracker.subsets[id].refs = 0 => id \in timers

Served(h) == held[h] # None /\ call[h] = None

(* When the session is synchronized, a live query whose subset was loaded  *)
(* sees all the rows of it that the shard had at the cursor, and they are  *)
(* held by the subset.                                                     *)
SubsetsComplete ==
  state = "synchronized" =>
    \A h \in Holders : Served(h) =>
      \A k \in Keys : LET row == RowsAt(cursor)[k] IN
        row \in Accepts[held[h]] =>
          local[k] = row /\ k \in tracker.subsets[held[h]].keys

(* And it sees no others: no row that was deleted, and no older content of *)
(* a row, matches its predicate.                                           *)
SubsetsExact ==
  state = "synchronized" =>
    \A h \in Holders : Served(h) =>
      \A k \in Keys : local[k] \in Accepts[held[h]] =>
        local[k] = RowsAt(cursor)[k]
=============================================================================
