----------------------------- MODULE SyncSession -----------------------------
(***************************************************************************)
(* One eager collection of one client, from the socket to the rows that    *)
(* the application sees, against a shard that other clients write to:      *)
(*   - the connect loop and the reconnect timer of createClient            *)
(*     (packages/tanstack-db/src/client.ts, client-subscriptions.ts);      *)
(*   - SyncSession (sync-session.ts) with the callbacks that collection.ts *)
(*     gives it and the paged load of initial-sync.ts;                     *)
(*   - the handlers of the shard that it talks to (durable-object.ts).     *)
(*                                                                         *)
(* The shard is its log: History proves that the change history is the     *)
(* newest part of what was applied (HistoryIsNewest) and that the rows are *)
(* its replay (RowsAreReplay), so both are derived here.  An update writes *)
(* a whole row or deletes it, and the content of a row is the sequence     *)
(* number of the update that wrote it.                                     *)
(*                                                                         *)
(* A step of the client handles one event (a message, the close of the     *)
(* socket, a timer, an answer of IndexedDB) together with the promise      *)
(* reactions that it sets off.                                             *)
(***************************************************************************)
EXTENDS ChangeLog, SequencesExt

CONSTANTS
  Scopes,       \* the collections of the shard
  Collection,   \* the one that the session keeps
  Keys,         \* its row keys, numbers, in the order a read returns them
  Seeded,       \* the keys of its initialData
  Gone,         \* "there is no such row"
  Batches,      \* the batches that other clients push
  MaxChanges,   \* options.history.maxChanges
  ReadLimit,    \* MAX_READ_ROWS of initial-sync.ts
  ChangesLimit, \* the limit that recover asks for
  Attempts,     \* reconnect.maxAttempts
  Offline,      \* is there an IndexedDB cache?
  RejectsStale, \* TRUE: the answer RESYNC_REQUIRED rejects client.changes, as
                \* in createClient; FALSE: it is a result of type
                \* "resyncRequired", as a Client given in the options returns
  Timeouts,     \* are requests ever timed out or refused?
  MaxSequence,  \* bound: updates ever pushed
  MaxFaults     \* bound: lost sockets, failed attempts, timeouts and refusals

Entry == [seq : 1..MaxSequence, scope : Scopes, key : Keys, put : BOOLEAN]
Content == {0, Gone} \cup 1..MaxSequence

ASSUME SessionAssumption ==
  /\ Collection \in Scopes
  /\ Keys \subseteq Nat /\ Seeded \subseteq Keys
  /\ Gone \notin Nat
  /\ Batches \subseteq Seq([scope : Scopes, key : Keys, put : BOOLEAN])
  /\ MaxChanges \in Int
  /\ {ReadLimit, ChangesLimit, Attempts} \subseteq Nat \ {0}
  /\ {Offline, RejectsStale, Timeouts} \subseteq BOOLEAN
  /\ {MaxSequence, MaxFaults} \subseteq Nat

VARIABLES
  log,       \* every update ever applied by the shard
  conn,      \* the socket: "closed" (nobody is connecting), "connecting",
             \* "replaying" (open, subscriptions not yet restored),
             \* "subscribed" (restored by the shard), "open"
  attempt,   \* failed attempts of the running connect loop
  hasOpened,
  ready,     \* the promise subscription.ready
  wire,      \* what the shard has sent on this socket, in order
  request,   \* the request that the session waits for
  faults,    \* faults so far
  state,     \* SyncSession._state
  job,       \* where initialize or recover awaits, or "none"
  queued,    \* calls of recover waiting in SyncSession.queue
  base,      \* the watermark that the running load started from
  rows,      \* the pages of the running load
  cursor, buffered, local

shard == <<log>>
socket == <<conn, attempt, hasOpened, ready, wire, faults>>
session == <<request, state, job, queued, base, rows, cursor, buffered, local>>
vars == <<shard, socket, session>>

-----------------------------------------------------------------------------
(* The shard.                                                              *)
Watermark == ReadWatermark(log)
Changes == PruneChanges(log, Watermark, MaxChanges)
Latest == [s \in Scopes |-> ReadWatermark(InScope(log, s))]

(* The rows `view` after the updates, in the order of their numbers.       *)
ApplyUpdates(view, updates) ==
  [k \in Keys |->
     LET written == {c \in updates : c.key = k}
         last == CHOOSE c \in written : \A d \in written : d.seq <= c.seq
     IN  IF written = {} THEN view[k]
         ELSE IF last.put THEN last.seq ELSE Gone]

Empty == [k \in Keys |-> Gone]
Seed == [k \in Keys |-> IF k \in Seeded THEN 0 ELSE Gone]

(* The rows of the collection when the log had reached n.                  *)
RowsAt(n) ==
  ApplyUpdates(Seed, {c \in InScope(log, Collection) : c.seq <= n})
Rows == RowsAt(Watermark)

(* The elements of a finite set, in the order of an attribute.             *)
InOrderOf(attribute(_), S) ==
  CHOOSE s \in SetToSeqs(S) :
    \A i, j \in DOMAIN s : i < j => attribute(s[i]) < attribute(s[j])

(* One page of a read: LIMIT and OFFSET over the rows ordered by key.      *)
ReadRows(offset) ==
  LET keys == InOrderOf(LAMBDA k : k, {k \in Keys : Rows[k] # Gone})
      page == SubSeq(keys, offset + 1, Min({offset + ReadLimit, Len(keys)}))
  IN  [i \in DOMAIN page |-> [key |-> page[i], content |-> Rows[page[i]]]]

NoRequest == [type |-> "none"]

(* A request is sent at once when the socket is open, also while the       *)
(* subscriptions are being restored, and else when open() resolves.        *)
IsSent == conn' \in {"replaying", "subscribed", "open"}
Ask(requested) == [type |-> "changes", requested |-> requested,
                   sent |-> IsSent, answered |-> FALSE]
AskWatermark == Ask(<<>>)
AskChanges(from) == Ask([s \in {Collection} |-> from])
AskRows(offset) ==
  [type |-> "read", offset |-> offset, sent |-> IsSent, answered |-> FALSE]

Answer ==
  IF request.type = "read"
  THEN [type |-> "rows", rows |-> ReadRows(request.offset)]
  ELSE ReadChanges(Changes, Latest, request.requested, ChangesLimit)

(* The shard handles the request of the session.                           *)
Handle ==
  /\ request # NoRequest /\ conn \in {"subscribed", "open"}
  /\ request.sent /\ ~request.answered
  /\ wire' = Append(wire, [type |-> "answer", payload |-> Answer])
  /\ request' = [request EXCEPT !.answered = TRUE]
  /\ UNCHANGED <<shard, conn, attempt, hasOpened, ready, faults, state, job,
                 queued, base, rows, cursor, buffered, local>>

Sequenced(b) ==
  {[seq |-> Watermark + i, scope |-> b[i].scope, key |-> b[i].key,
    put |-> b[i].put] : i \in DOMAIN b}

(* Another client's push is applied and published in one go: a socket is   *)
(* sent the updates of the collections it has subscribed to, with the      *)
(* watermark of the whole batch.                                           *)
Push(b) ==
  /\ Watermark + Len(b) <= MaxSequence
  /\ log' = log \cup Sequenced(b)
  /\ wire' = IF conn \in {"subscribed", "open"}
                /\ InScope(Sequenced(b), Collection) # {}
             THEN Append(wire, [type |-> "updates",
                                updates |-> InScope(Sequenced(b), Collection),
                                watermark |-> Watermark + Len(b)])
             ELSE wire
  /\ UNCHANGED <<conn, attempt, hasOpened, ready, faults, session>>

-----------------------------------------------------------------------------
(* applyBroadcast on a view, the rows and the cursor of the session.       *)
ApplyBroadcast(view, broadcast) ==
  IF broadcast.watermark <= view.cursor THEN view
  ELSE [local |-> ApplyUpdates(view.local,
                    {c \in broadcast.updates : c.seq > view.cursor}),
        cursor |-> broadcast.watermark]

(* flush: the buffered broadcasts by watermark, from the given view on.    *)
Flush(view) ==
  LET sorted == InOrderOf(LAMBDA b : b.watermark, ToSet(buffered))
      flushed == FoldLeft(ApplyBroadcast, view, sorted)
  IN  /\ local' = flushed.local /\ cursor' = flushed.cursor
      /\ buffered' = <<>>

(* The running job has settled and leaves the session in `next`; a call of *)
(* recover that waits in the queue starts.                                 *)
EndJob(next) ==
  IF queued = 0
  THEN state' = next /\ job' = "none" /\ request' = NoRequest /\ UNCHANGED queued
  ELSE /\ state' = "catching-up" /\ job' = "catchUp"
       /\ request' = AskChanges(cursor')
       /\ queued' = queued - 1

(* The running job rejects.                                                *)
Reject(next) ==
  UNCHANGED <<base, rows, cursor, buffered, local>> /\ EndJob(next)

(* loadEager, or the resync, has ended: flush and markSynchronized.        *)
Loaded(view) ==
  Flush([local |-> view, cursor |-> base]) /\ EndJob("synchronized")

-----------------------------------------------------------------------------
(* The network of the client.                                              *)
Waiting == job \in {"establish", "load", "reload", "catchUp"}

(* Mutant of Disconnected: the pending requests are not rejected.          *)
DisconnectedStillPending ==
  /\ state' = "disconnected"
  /\ UNCHANGED <<request, job, queued, base, rows, cursor, buffered, local>>

(* What the close of the socket does to the session: pending requests      *)
(* reject, then, for the promise reactions come later, disconnected has    *)
(* set the state.                                                          *)
Disconnected ==
  IF Waiting /\ request.sent THEN Reject("disconnected")
  ELSE /\ state' = "disconnected"
       /\ UNCHANGED <<request, job, queued, base, rows, cursor, buffered, local>>

(* An attempt of the connect loop ends without a usable socket.  When the  *)
(* attempts are used up, the loop of a reconnect timer is started again;   *)
(* without a timer nobody connects any more and open() rejects.            *)
AttemptFails ==
  /\ faults < MaxFaults /\ faults' = faults + 1
  /\ wire' = <<>>
  /\ UNCHANGED hasOpened
  /\ IF attempt + 1 < Attempts
     THEN attempt' = attempt + 1 /\ conn' = "connecting" /\ UNCHANGED ready
     ELSE /\ attempt' = 0
          /\ conn' = IF hasOpened THEN "connecting" ELSE "closed"
          /\ ready' = IF ready = "pending" THEN "rejected" ELSE ready

LastAttempt == attempt + 1 = Attempts

(* The socket does not open: error, close or connectionTimeoutMs.          *)
ConnectFails ==
  /\ conn = "connecting"
  /\ AttemptFails
  /\ IF LastAttempt /\ (job = "ready" \/ Waiting)
     THEN Reject(state)
     ELSE UNCHANGED session
  /\ UNCHANGED shard

(* The socket is lost before the subscriptions are restored.               *)
ReplayFails ==
  /\ conn \in {"replaying", "subscribed"}
  /\ AttemptFails
  /\ IF LastAttempt /\ (job = "ready" \/ Waiting)
     THEN Reject("disconnected")
     ELSE Disconnected
  /\ UNCHANGED shard

(* The open socket is lost.  The client starts the reconnect timer.        *)
Drop ==
  /\ conn = "open" /\ faults < MaxFaults /\ faults' = faults + 1
  /\ conn' = "connecting" /\ attempt' = 0 /\ wire' = <<>>
  /\ Disconnected
  /\ UNCHANGED <<shard, hasOpened, ready>>

(* A late answer finds no pending request.                                 *)
WithoutAnswer(messages) ==
  LET late == {i \in DOMAIN messages : messages[i].type = "answer"}
  IN  IF late = {} THEN messages ELSE RemoveAt(messages, CHOOSE i \in late : TRUE)

(* requestTimeoutMs passes, or the rate limiter refuses the request, whose *)
(* error arrives: the request rejects and the socket stays open.           *)
Timeout ==
  /\ Timeouts /\ Waiting /\ request.sent
  /\ faults < MaxFaults /\ faults' = faults + 1
  /\ wire' = WithoutAnswer(wire)
  /\ UNCHANGED <<shard, conn, attempt, hasOpened, ready>>
  /\ Reject(state)

Connect ==
  /\ conn = "connecting" /\ conn' = "replaying"
  /\ UNCHANGED <<shard, attempt, hasOpened, ready, wire, faults, session>>

(* The application uses the client, whose open() starts a connect loop.    *)
OpenAgain ==
  /\ conn = "closed" /\ conn' = "connecting"
  /\ UNCHANGED <<shard, attempt, hasOpened, ready, wire, faults, session>>

(* The shard handles the subscribe requests of replay one by one: first    *)
(* that of this collection, and in the end the last of the client's.       *)
Subscribe ==
  /\ conn = "replaying" /\ conn' = "subscribed"
  /\ UNCHANGED <<shard, attempt, hasOpened, ready, wire, faults, session>>

SubscribeLast ==
  /\ conn = "subscribed"
  /\ \A i \in DOMAIN wire : wire[i].type # "replayed"
  /\ wire' = Append(wire, [type |-> "replayed"])
  /\ UNCHANGED <<shard, conn, attempt, hasOpened, ready, faults, session>>

-----------------------------------------------------------------------------
(* The session.                                                            *)

(* The end of replay: on a first socket ready resolves, on a later one     *)
(* reconnected queues a call of recover.  open() resolves.                 *)
Replayed ==
  /\ conn' = "open" /\ hasOpened' = TRUE /\ attempt' = 0
  /\ ready' = IF ready = "pending" THEN "resolved" ELSE ready
  /\ CASE hasOpened /\ job = "none" ->
            /\ state' = "catching-up" /\ job' = "catchUp"
            /\ request' = AskChanges(cursor)
            /\ UNCHANGED queued
       [] hasOpened /\ job # "none" ->
            /\ queued' = queued + 1
            /\ request' = IF Waiting THEN [request EXCEPT !.sent = TRUE]
                          ELSE request
            /\ UNCHANGED <<state, job>>
       [] ~hasOpened /\ job = "ready" ->
            /\ job' = "establish" /\ request' = AskWatermark
            /\ UNCHANGED <<state, queued>>
       [] ~hasOpened /\ job # "ready" ->
            UNCHANGED <<state, job, request, queued>>
  /\ UNCHANGED <<base, rows, cursor, buffered, local>>

(* receive: broadcasts are buffered until the session is synchronized.     *)
Receive(broadcast) ==
  /\ IF state = "synchronized"
     THEN LET view == ApplyBroadcast([local |-> local, cursor |-> cursor],
                                     broadcast)
          IN  /\ local' = view.local /\ cursor' = view.cursor
              /\ UNCHANGED buffered
     ELSE buffered' = Append(buffered, broadcast) /\ UNCHANGED <<local, cursor>>
  /\ UNCHANGED <<conn, attempt, hasOpened, ready, request, state, job, queued,
                 base, rows>>

(* initialize, after the request for the watermark.                        *)
Established(answer) ==
  /\ base' = answer.watermark
  /\ state' = "loading" /\ job' = "load"
  /\ rows' = <<>> /\ request' = AskRows(0)
  /\ UNCHANGED <<queued, cursor, buffered, local>>

(* The rows of all pages, the later ones over the earlier ones.            *)
WriteRows(view, page) ==
  FoldLeft(LAMBDA v, row : [v EXCEPT ![row.key] = row.content], view, page)

(* readInitialSyncRows asks for pages until a short one, then loadEager    *)
(* writes them: a resync, and a first load with a cache, truncate first.   *)
Page(answer) ==
  LET all == rows \o answer.rows
      view == WriteRows(IF job = "reload" \/ Offline THEN Empty ELSE local, all)
  IN  IF Len(answer.rows) = ReadLimit
      THEN /\ rows' = all /\ request' = AskRows(Len(all))
           /\ UNCHANGED <<state, job, queued, base, cursor, buffered, local>>
      ELSE /\ rows' = <<>> /\ UNCHANGED base
           /\ IF Offline
              THEN /\ local' = view /\ job' = "store" /\ request' = NoRequest
                   /\ UNCHANGED <<state, queued, cursor, buffered>>
              ELSE Loaded(view)

(* Mutant of CatchUpPage: one page is taken for the whole history.         *)
CatchUpPageOnce(answer) ==
  /\ UNCHANGED <<base, rows>>
  /\ Flush([local |-> ApplyUpdates(local, answer.updates),
            cursor |-> Max({cursor, answer.cursors[Collection]})])
  /\ EndJob("synchronized")

(* One pass of the loop of recover.  The error "Sync history cursor did    *)
(* not advance" is unreachable (PagesAdvance of CatchUp).                  *)
CatchUpPage(answer) ==
  LET view == ApplyUpdates(local, answer.updates)
      next == Max({cursor, answer.cursors[Collection]})
  IN  /\ UNCHANGED <<base, rows>>
      /\ IF answer.hasMore
         THEN /\ local' = view /\ cursor' = next
              /\ request' = AskChanges(next)
              /\ UNCHANGED <<state, job, queued, buffered>>
         ELSE /\ Flush([local |-> view, cursor |-> next])
              /\ EndJob("synchronized")

(* Mutant of Stale: the cursor does not follow the reloaded rows.          *)
StaleKeepingCursor(answer) ==
  IF RejectsStale THEN Reject(state)
  ELSE /\ state' = "resyncing" /\ job' = "reload"
       /\ base' = cursor /\ rows' = <<>>
       /\ request' = AskRows(0)
       /\ UNCHANGED <<queued, cursor, buffered, local>>

(* The history that recover asks for was pruned.                           *)
Stale(answer) ==
  IF RejectsStale THEN Reject(state)
  ELSE /\ state' = "resyncing" /\ job' = "reload"
       /\ base' = answer.watermark /\ rows' = <<>>
       /\ request' = AskRows(0)
       /\ UNCHANGED <<queued, cursor, buffered, local>>

Continue(answer) ==
  /\ UNCHANGED <<conn, attempt, hasOpened, ready>>
  /\ CASE job = "establish" -> Established(answer)
       [] job \in {"load", "reload"} -> Page(answer)
       [] job = "catchUp" /\ answer.type = "changes" -> CatchUpPage(answer)
       [] job = "catchUp" /\ answer.type = "resyncRequired" -> Stale(answer)

(* The next message of the socket.                                         *)
Deliver ==
  /\ wire # <<>>
  /\ LET message == Head(wire) IN
       CASE message.type = "replayed" -> Replayed
         [] message.type = "updates" -> Receive(message)
         [] message.type = "answer" -> Continue(message.payload)
  /\ wire' = Tail(wire)
  /\ UNCHANGED <<shard, faults>>

(* IndexedDB has loaded the cached rows: an older state of the initial     *)
(* rows.                                                                   *)
Hydrate ==
  /\ job = "hydrate"
  /\ UNCHANGED <<shard, socket, base, rows, cursor, buffered>>
  /\ \E kept \in SUBSET Seeded :
       local' = [k \in Keys |-> IF k \in kept THEN 0 ELSE Gone]
  /\ CASE ready = "pending" ->
            job' = "ready" /\ UNCHANGED <<state, request, queued>>
       [] ready = "resolved" ->
            /\ job' = "establish" /\ request' = AskWatermark
            /\ UNCHANGED <<state, queued>>
       [] ready = "rejected" -> EndJob(state)

(* IndexedDB has stored the loaded rows.                                   *)
Stored ==
  /\ job = "store"
  /\ UNCHANGED <<shard, socket, base, rows>>
  /\ Loaded(local)

-----------------------------------------------------------------------------
(* The session has started: subscribe has called open().                   *)
Init ==
  /\ log = {}
  /\ conn = "connecting" /\ attempt = 0 /\ hasOpened = FALSE
  /\ ready = "pending" /\ wire = <<>> /\ faults = 0
  /\ state = "subscribing" /\ queued = 0 /\ request = NoRequest
  /\ job = IF Offline THEN "hydrate" ELSE "ready"
  /\ base = 0 /\ rows = <<>> /\ cursor = 0 /\ buffered = <<>> /\ local = Empty

Client == Deliver \/ Hydrate \/ Stored \/ Connect
Server == Handle \/ Subscribe \/ SubscribeLast
Environment == (\E b \in Batches : Push(b)) \/ OpenAgain
Fault == ConnectFails \/ ReplayFails \/ Drop \/ Timeout

Next == Client \/ Server \/ Environment \/ Fault

Spec == Init /\ [][Next]_vars

(* Messages arrive, requests are handled, timers fire and IndexedDB        *)
(* answers, as long as no fault intervenes.                                *)
Fairness == WF_vars(Client) /\ WF_vars(Server)
FairSpec == Spec /\ Fairness
-----------------------------------------------------------------------------
(***************************************************************************)
(* Properties.                                                             *)
(***************************************************************************)
(* A synchronized session holds exactly the rows that the shard had when   *)
(* its log had reached the cursor of the session: no update up to the      *)
(* cursor is missing and none after it is there, whatever was buffered,    *)
(* lost with a socket or read from the history (sync-session.ts).          *)
AtCursor == state = "synchronized" => local = RowsAt(cursor)

(* When the socket is open, the session is synchronized and nothing is     *)
(* under way, the client has the rows of the shard.                        *)
Converged ==
  (conn = "open" /\ state = "synchronized" /\ wire = <<>> /\ queued = 0)
    => local = Rows

(* A session that has lost its socket, or waits for its first one, gets    *)
(* synchronized unless there is another fault: the job that the fault left *)
(* behind settles, and recover follows it on the new socket.  Nothing is   *)
(* claimed of a request refused or timed out on a socket that stays open,  *)
(* nor of a first connect loop that runs out of attempts: no code calls    *)
(* recover again before the next lost socket (client.ts:160-162,           *)
(* sync-session.ts:88-91), and the session stays where it was.             *)
Recovers ==
  \A n \in 0..MaxFaults :
    ((ready = "pending" \/ (hasOpened /\ conn # "open")) /\ faults = n)
      ~> ((conn = "open" /\ state = "synchronized") \/ faults > n)
=============================================================================
