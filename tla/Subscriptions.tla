--------------------------- MODULE Subscriptions ----------------------------
(***************************************************************************)
(* The subscriptions of one client and of its socket at the shard          *)
(* (packages/tanstack-db/src/client-subscriptions.ts and client.ts,        *)
(* packages/server/src/durable-object.ts, socket-attachment.ts and         *)
(* safeguards.ts).  Listeners share an entry per scope; the entries are    *)
(* replayed on every new socket; the shard keeps the scopes of a socket in *)
(* its attachment, which outlives an eviction of the shard.                *)
(*                                                                         *)
(* A connect loop gives up after MaxAttempts.  A close is noticed by the   *)
(* client at once, reconnecting is enabled, and nothing but a subscription *)
(* or the reconnect timer opens a connection: a push would, too.           *)
(***************************************************************************)
EXTENDS Integers, FiniteSets, SequencesExt

CONSTANTS Scopes,         \* scopes of collections
          Listeners,      \* who subscribes
          None,
          MaxSubs,        \* maxSubscriptionsPerWebSocket
          MaxAttempts,    \* reconnect.maxAttempts
          Reorders,       \* the await of the rate limiter lets requests overtake
          MaxSubscribes,  \* bounds of the instance: subscriptions made,
          MaxPublishes,   \*   updates published,
          MaxFaults       \*   lost sockets, timeouts, refusals by the rate limiter

ASSUME SubscriptionsAssumption ==
  /\ None \notin Scopes
  /\ IsFiniteSet(Listeners)
  /\ {MaxSubs, MaxAttempts} \subseteq Nat \ {0}
  /\ Reorders \in BOOLEAN
  /\ {MaxSubscribes, MaxPublishes, MaxFaults} \subseteq Nat

VARIABLES at,          \* listener |-> scope it listens to or None
          ready,       \* scope |-> promise of its entry: state, request awaited
          conn,        \* idle, opening, replaying or up
          loop,        \* the connect loop: attempts that failed, whether the
                       \*   callback of a reconnect timer awaits it, and
                       \*   whether the last one ended with nobody to try again
          timer,       \* reconnectTimer is set
          hasOpened,   \* a replay has succeeded before
          closed,      \* close() was called
          pending,     \* requests without an answer, and whom they are for
          toServer,    \* requests on the socket
          toClient,    \* answers and broadcasts on the socket
          subs,        \* subscriptions in the attachment of the socket
          owed,        \* listener |-> updates published since it was ready that
                       \*   neither reached it nor precede a reconnection
          limited,     \* the limit has refused a subscription
          spent        \* what was spent of the bounds

vars == <<at, ready, conn, loop, timer, hasOpened, closed, pending, toServer,
          toClient, subs, owed, limited, spent>>

-----------------------------------------------------------------------------
\* Mutant of HasSocket: the socket is not used before its replay is done.
HasSocketReplayed == conn = "up"

\* The socket is open: currentSocket() is set and OPEN.
HasSocket == conn \in {"replaying", "up"}

\* Keys of the map of subscriptions: an entry lives while it has listeners.
Entries == {c \in Scopes : \E l \in Listeners : at[l] = c}

NoPromise == [is |-> "none", of |-> 0]
\* The promise of open(), which settles when the replay has.
OpenPromise == [is |-> "pending", of |-> 0]
Settled(how) == [is |-> how, of |-> 0]

Spend(what, bound) ==
  /\ spent[what] < bound
  /\ spent' = [spent EXCEPT ![what] = @ + 1]

Suffer(fault) ==
  /\ spent.faults + spent.refusals < MaxFaults
  /\ spent' = [spent EXCEPT ![fault] = @ + 1]

\* The number of the next request.  It starts again once nothing is on its way:
\* only requests that are on their way at one time are told apart by it.
nextId == 1 + Max({0} \cup {r.id : r \in pending} \cup {r.id : r \in ToSet(toServer)}
                      \cup {m.id : m \in {m \in ToSet(toClient) : m.type # "updates"}})

\* sendRequest: requests of one kind for some scopes, in one turn, in any order.
Send(type, by, scopes) ==
  \E asked \in SetToSeqs(scopes) :
    LET ids == 1 .. Len(asked) IN
    /\ pending' = pending \cup
         {[id |-> nextId + i - 1, by |-> by, scope |-> asked[i]] : i \in ids}
    /\ toServer' = toServer \o
         [i \in ids |-> [id |-> nextId + i - 1, type |-> type, scope |-> asked[i]]]

SendNothing == UNCHANGED <<pending, toServer>>

NewLoop(byTimer) == [attempt |-> 0, joined |-> byTimer, gaveUp |-> FALSE]

\* open(), by the callback of a reconnect timer or by start: one connect loop at
\* a time, which the callback awaits, too; none on a closed client; and a socket
\* that is open is returned at once.
Open(byTimer) ==
  IF conn = "idle" /\ ~closed
  THEN conn' = "opening" /\ loop' = NewLoop(byTimer)
  ELSE /\ loop' = [loop EXCEPT !.joined = @ \/ (byTimer /\ conn = "opening" /\ ~closed)]
       /\ UNCHANGED conn

-----------------------------------------------------------------------------
\* subscribe and start: the first listener of a scope asks on the open socket,
\* or waits for a connection, whose replay will ask.
Subscribe(l, c) ==
  /\ at[l] = None
  /\ Spend("subscribes", MaxSubscribes)
  /\ at' = [at EXCEPT ![l] = c]
  /\ IF c \in Entries
     THEN SendNothing /\ UNCHANGED <<ready, conn, loop>>
     ELSE IF HasSocket
     THEN /\ Send("subscribe", "start", {c})
          /\ ready' = [ready EXCEPT ![c] = [is |-> "pending", of |-> nextId]]
          /\ UNCHANGED <<conn, loop>>
     ELSE /\ ready' = [ready EXCEPT ![c] = IF closed THEN Settled("rejected") ELSE OpenPromise]
          /\ Open(FALSE)
          /\ SendNothing
  /\ UNCHANGED <<timer, hasOpened, closed, toClient, subs, owed, limited>>

\* unsubscribe: the last listener removes the entry and tells the shard, if
\* there is a socket; the answer is ignored.
Unsubscribe(l) ==
  /\ at[l] # None
  /\ at' = [at EXCEPT ![l] = None]
  /\ owed' = [owed EXCEPT ![l] = {}]
  /\ IF \E other \in Listeners \ {l} : at[other] = at[l]
     THEN SendNothing /\ UNCHANGED ready
     ELSE /\ ready' = [ready EXCEPT ![at[l]] = NoPromise]
          /\ IF HasSocket THEN Send("unsubscribe", "unsubscribe", {at[l]}) ELSE SendNothing
  /\ UNCHANGED <<conn, loop, timer, hasOpened, closed, toClient, subs, limited, spent>>

-----------------------------------------------------------------------------
\* Mutant of Replayed: the listeners are told only of the first connection.
ReplayedOnce ==
  /\ conn' = "up"
  /\ loop' = NewLoop(FALSE)
  /\ hasOpened' = TRUE
  /\ owed' = IF hasOpened THEN owed ELSE [l \in Listeners |-> {}]
  /\ ready' = [c \in Scopes |-> IF ready[c] = OpenPromise THEN Settled("ready") ELSE ready[c]]

\* The replay has succeeded: the listeners are told of a reconnection and read
\* what they missed, and open() resolves.
Replayed ==
  /\ conn' = "up"
  /\ loop' = NewLoop(FALSE)
  /\ hasOpened' = TRUE
  /\ owed' = IF hasOpened THEN [l \in Listeners |-> {}] ELSE owed
  /\ ready' = [c \in Scopes |-> IF ready[c] = OpenPromise THEN Settled("ready") ELSE ready[c]]

\* connectOnce (open): a new socket without subscriptions; replay asks for
\* every entry, and is done at once when there is none.
Connected ==
  /\ conn = "opening"
  /\ subs' = {}
  /\ toClient' = <<>>
  /\ Send("subscribe", "replay", Entries)
  /\ IF Entries = {}
     THEN Replayed
     ELSE conn' = "replaying" /\ UNCHANGED <<loop, hasOpened, owed, ready>>
  /\ UNCHANGED <<at, timer, closed, limited, spent>>

\* An attempt to connect has failed: the loop makes the next one or ends, and
\* then somebody calls scheduleReconnect or nobody does.
AttemptFails(reschedules) ==
  IF loop.attempt + 1 = MaxAttempts
  THEN /\ conn' = "idle"
       /\ loop' = [attempt |-> 0, joined |-> FALSE, gaveUp |-> ~reschedules]
  ELSE /\ conn' = "opening"
       /\ loop' = [loop EXCEPT !.attempt = @ + 1]

\* rejectPending: of the pending requests, those of start reject their entry; the
\* end of a connect loop rejects the entries that wait for open().
RejectPending ==
  /\ pending' = {}
  /\ ready' = [c \in Scopes |->
                IF ready[c].is = "pending" /\ (ready[c].of # 0 \/ conn' = "idle")
                THEN Settled("rejected") ELSE ready[c]]

\* The socket is gone with everything on it.
LoseSocket ==
  /\ RejectPending
  /\ toServer' = <<>>
  /\ toClient' = <<>>
  /\ subs' = {}

\* Mutant of ScheduleReconnect: the callback of the timer does not catch the
\* error of the loop that it has opened.
ScheduleReconnectUncaught == timer' = (timer \/ (conn = "up" /\ ~closed /\ Entries # {}))

\* scheduleReconnect, which does nothing while a loop runs.
ScheduleReconnect == timer' = (timer \/ (conn' = "idle" /\ ~closed /\ Entries # {}))

\* connectOnce (close, and the refusal of a replay): with the replay, the attempt
\* of the loop has failed.  A socket that is lost then is noticed before the end
\* of the loop, and only a callback of the timer that awaits the loop schedules
\* another; after a refused request the client closes the socket itself, which
\* is noticed after the loop has ended.
CloseSocket(refused) ==
  /\ IF conn = "up"
     THEN conn' = "idle" /\ UNCHANGED loop
     ELSE AttemptFails(loop.joined \/ refused)
  /\ LoseSocket
  /\ IF conn = "up" \/ loop.joined \/ refused THEN ScheduleReconnect ELSE UNCHANGED timer

Drop ==
  /\ HasSocket
  /\ Suffer("faults")
  /\ CloseSocket(FALSE)
  /\ UNCHANGED <<at, hasOpened, closed, owed, limited>>

\* connectOnce (error, connectionTimer): no socket.
ConnectFails ==
  /\ conn = "opening"
  /\ CloseSocket(FALSE)
  /\ UNCHANGED <<at, hasOpened, closed, owed, limited, spent>>

\* scheduleReconnect (timer)
TimerFires ==
  /\ timer
  /\ timer' = FALSE
  /\ Open(TRUE)
  /\ UNCHANGED <<at, ready, hasOpened, closed, pending, toServer, toClient,
                 subs, owed, limited, spent>>

\* close: a running connect loop is not stopped, and opens a socket afterwards.
Close ==
  /\ ~closed
  /\ closed' = TRUE
  /\ timer' = FALSE
  /\ CASE conn = "up"        -> conn' = "idle" /\ UNCHANGED loop
       [] conn = "replaying" -> AttemptFails(FALSE)
       [] OTHER              -> UNCHANGED <<conn, loop>>
  /\ LoseSocket
  /\ UNCHANGED <<at, hasOpened, owed, limited, spent>>

-----------------------------------------------------------------------------
\* assertSubscriptionAllowed
SubscriptionAllowed(c) == c \in subs \/ Cardinality(subs) < MaxSubs

\* Mutant of UpdateSubscriptions: unsubscribe frees nothing.
UpdateSubscriptionsNeverLess(request) == subs \cup {request.scope}

\* updateSubscriptions
UpdateSubscriptions(request) ==
  IF request.type = "subscribe" THEN subs \cup {request.scope} ELSE subs \ {request.scope}

\* webSocketMessage of the i-th request: the rate limiter may refuse any
\* request, the limit a subscription; an answer follows in either case.
Handle(i) ==
  LET request == toServer[i]
      Reply(type) == toClient' = Append(toClient, [type |-> type, id |-> request.id])
      allowed == request.type = "unsubscribe" \/ SubscriptionAllowed(request.scope) IN
  /\ toServer' = RemoveAt(toServer, i)
  /\ \/ /\ Suffer("refusals")
        /\ Reply("error")
        /\ UNCHANGED <<subs, limited>>
     \/ /\ allowed
        /\ subs' = UpdateSubscriptions(request)
        /\ Reply("result")
        /\ UNCHANGED <<limited, spent>>
     \/ /\ ~allowed
        /\ limited' = TRUE
        /\ Reply("error")
        /\ UNCHANGED <<subs, spent>>
  /\ UNCHANGED <<at, ready, conn, loop, timer, hasOpened, closed, pending, owed>>

\* Requests are handled in order, unless they await the rate limiter.
HandleNext == \E i \in DOMAIN toServer : (i = 1 \/ Reorders) /\ Handle(i)

\* publish: one update of a scope, sent to the socket if it subscribes to it.
Publish(c) ==
  LET n == spent.publishes + 1 IN
  /\ Spend("publishes", MaxPublishes)
  /\ owed' = [l \in Listeners |->
               IF at[l] = c /\ ready[c].is = "ready" THEN owed[l] \cup {n} ELSE owed[l]]
  /\ toClient' = IF HasSocket /\ c \in subs
                 THEN Append(toClient, [type |-> "updates", update |-> n, scope |-> c])
                 ELSE toClient
  /\ UNCHANGED <<at, ready, conn, loop, timer, hasOpened, closed, pending, toServer,
                 subs, limited>>

-----------------------------------------------------------------------------
\* dispatch: every listener of the entry of the scope.
Dispatch(message) ==
  owed' = [l \in Listeners |->
            IF at[l] = message.scope THEN owed[l] \ {message.update} ELSE owed[l]]

\* The promise of a request of start settles, unless the entry is another now.
Settle(request, how) ==
  ready' = [ready EXCEPT ![request.scope] = IF @.of = request.id THEN Settled(how) ELSE @]

\* takePending and its resolve.
Resolve(request) ==
  /\ pending' = pending \ {request}
  /\ IF request.by = "replay" /\ \A other \in pending \ {request} : other.by # "replay"
     THEN Replayed
     ELSE /\ IF request.by = "start" THEN Settle(request, "ready") ELSE UNCHANGED ready
          /\ UNCHANGED <<conn, loop, hasOpened, owed>>
  /\ UNCHANGED <<timer, toServer, subs>>

\* takePending and its reject: a refused replay closes the socket, and with it
\* the rest of what was sent on it is lost.
RejectRequest(request, rest) ==
  IF request.by = "replay"
  THEN CloseSocket(TRUE) /\ UNCHANGED <<hasOpened, owed>>
  ELSE /\ pending' = pending \ {request}
       /\ IF request.by = "start" THEN Settle(request, "rejected") ELSE UNCHANGED ready
       /\ toClient' = rest
       /\ UNCHANGED <<conn, loop, timer, hasOpened, owed, toServer, subs>>

\* connectOnce (message): an answer that nobody waits for is ignored.
Deliver ==
  /\ toClient # <<>>
  /\ LET message == Head(toClient)
         rest    == Tail(toClient)
         asked   == {request \in pending : message.type # "updates" /\ request.id = message.id}
     IN
     \/ /\ message.type = "updates"
        /\ Dispatch(message)
        /\ toClient' = rest
        /\ UNCHANGED <<ready, conn, loop, timer, hasOpened, pending, toServer, subs>>
     \/ /\ message.type = "result"
        /\ \E request \in asked : Resolve(request)
        /\ toClient' = rest
     \/ /\ message.type = "error"
        /\ \E request \in asked : RejectRequest(request, rest)
     \/ /\ message.type # "updates" /\ asked = {}
        /\ toClient' = rest
        /\ UNCHANGED <<ready, conn, loop, timer, hasOpened, pending, toServer, subs, owed>>
  /\ UNCHANGED <<at, closed, limited, spent>>

\* sendRequest (timeout)
Timeout(request) ==
  /\ Suffer("faults")
  /\ RejectRequest(request, toClient)
  /\ UNCHANGED <<at, closed, limited>>

-----------------------------------------------------------------------------
Init ==
  /\ at = [l \in Listeners |-> None]
  /\ ready = [c \in Scopes |-> NoPromise]
  /\ conn = "idle"
  /\ loop = NewLoop(FALSE)
  /\ timer = FALSE /\ hasOpened = FALSE /\ closed = FALSE /\ limited = FALSE
  /\ pending = {}
  /\ toServer = <<>> /\ toClient = <<>>
  /\ subs = {}
  /\ owed = [l \in Listeners |-> {}]
  /\ spent = [subscribes |-> 0, publishes |-> 0, faults |-> 0, refusals |-> 0]

User ==
  \/ \E l \in Listeners, c \in Scopes : Subscribe(l, c)
  \/ \E l \in Listeners : Unsubscribe(l)
  \/ Close
  \/ \E c \in Scopes : Publish(c)

Fault == Drop \/ ConnectFails \/ \E request \in pending : Timeout(request)

Next == User \/ Fault \/ Connected \/ TimerFires \/ HandleNext \/ Deliver

Spec == Init /\ [][Next]_vars

-----------------------------------------------------------------------------
\* Nothing is on its way on an open socket whose replay is done.
AtRest == conn = "up" /\ toServer = <<>> /\ toClient = <<>>

\* The shard subscribes the socket to every scope that somebody listens to and
\* whose subscription did not fail, and to no other scope, whatever was
\* subscribed, unsubscribed and replayed in whichever order (only a refused
\* unsubscribe may leave one): replay, start, unsubscribe and the attachment
\* of the socket.
SubscriptionsAgree ==
  AtRest => /\ {c \in Entries : ready[c].is # "rejected"} \subseteq subs
            /\ spent.refusals = 0 => subs \subseteq Entries

\* An update of its scope, published since a listener was ready, reaches it, or
\* the listener is told of a reconnection that comes after the update, so that
\* it can read what it missed: replay before reconnected, hasOpened, dispatch.
NothingMissed == AtRest => \A l \in Listeners : owed[l] = {}

\* A client that listens to no more scopes than the limit is never refused by
\* it, neither when it moves from one scope to another nor in a replay.
WithinLimit ==
  limited => Cardinality(Listeners) > MaxSubs \/ spent.refusals > 0

\* Whoever listens is never left without a socket and without anything that
\* will open one: a connect loop runs, or the reconnect timer is set; unless the
\* last loop ran out of its attempts and no callback of the timer awaited it and
\* no refused replay ended it (a loop begun by start, with nobody to begin
\* another: scheduleReconnect had returned, connectPromise being set).
NeverStranded ==
  closed \/ Entries = {} \/ conn # "idle" \/ timer \/ loop.gaveUp
=============================================================================
