----------------------------- MODULE Visibility -----------------------------
(***************************************************************************)
(* What a subscriber sees of a collection with a read rule, while rows and *)
(* the reference that the rule depends on are written by others:           *)
(*   packages/server/src/access.ts                    rules of reads,      *)
(*                                                    broadcasts, writes   *)
(*   packages/server/src/access-invalidation.ts and                        *)
(*   packages/server/src/subscription-invalidation.ts changed references   *)
(*   packages/server/src/durable-object.ts            publish, read and    *)
(*                                                    changes per socket   *)
(*   packages/tanstack-db/src/sync-session.ts and                          *)
(*   packages/tanstack-db/src/collection-broadcast.ts the subscriber       *)
(*                                                                         *)
(* The collection "todos" has the rules; the row the rules refer to is the *)
(* one row of "members".  A batch holds at most one todo, and the history  *)
(* numbers batches.  The session has started on an empty shard, catches up *)
(* with one request, and does not outlive the history; SyncSession models  *)
(* the rest of it.                                                         *)
(*                                                                         *)
(* How a rule is reduced and matched is module Predicates.  Here it is     *)
(* three constant operators, of which DecisionAssumption says what the     *)
(* module relies on.                                                       *)
(***************************************************************************)
EXTENDS Expressions, SequencesExt

CONSTANTS Keys,              \* keys of todos
          NoRow,
          Todos,             \* contents of a todo: field |-> value
          Members,           \* contents of the referenced row
          AccessRules,       \* [read, write]: expressions; write may be NoRule
          NoRule,
          Decide(_, _),      \* the decision of a rule, by the references
          Matches(_, _),     \* whether a row matches the predicate of a decision
          Permits(_, _, _),  \* whether a rule, read directly, allows a row
          SyncModes,         \* subset of {"eager", "on-demand"}
          StaleOriginals,    \* a writer may hold an outdated row
          MaxPushes,         \* bounds the batches that are pushed
          MaxFaults          \* bounds the lost sockets

ASSUME VisibilityAssumption ==
  /\ NoRow \notin Todos \cup Members
  /\ SyncModes \subseteq {"eager", "on-demand"}
  /\ StaleOriginals \in BOOLEAN
  /\ {MaxPushes, MaxFaults} \subseteq Nat

VARIABLES access,    \* the rules of todos
          syncMode,
          table,     \* the todos of the shard
          member,    \* the referenced row of the shard
          history,   \* the applied batches: the update of a todo, or NoUpdate
          link,      \* messages on their way to the subscriber
          online,    \* its socket is open, and the shard has it subscribed
          session,   \* synchronized, disconnected or catching-up
          asking,    \* its request for changes is on its way to the shard
          buffered,  \* broadcasts that wait for the session
          view,      \* the todos the subscriber has
          loaded,    \* none, asked or loaded: its rows, or its one subset
          cursor,    \* the batches of the history it has been through
          moved,     \* whether what the rule allows has changed since the rows
                     \*   were read: no; told: and the subscriber was told; lost:
                     \*   and nobody told it, or it has lost what it was told
          pushes,
          faults

config == <<access, syncMode>>
shard == <<table, member, history>>
subscriber == <<view, loaded, cursor>>
connection == <<online, session, asking, buffered>>
vars == <<config, shard, link, connection, subscriber, moved, pushes, faults>>

-----------------------------------------------------------------------------
\* readAccessDecision: the rule, with the reference as it is stored now.
NoFields == [f \in {} |-> Missing]
References(m) == [member |-> IF m = NoRow THEN NoFields ELSE m]
Decision(m) == Decide(access.read, References(m))
VisibleRow(row, m) ==
  row # NoRow /\ Decision(m).allow /\ Matches(row, Decision(m).predicate)

\* fieldChanged of access-invalidation.ts, for the referenced row.
FieldChanged(previous, next, field) ==
  \/ previous = NoRow \/ next = NoRow
  \/ ValueAt(previous, field) # ValueAt(next, field)

\* A decision shows the rows that the rule allows, and one without a predicate
\* shows all or none; what the rule allows depends on the dependencies alone.
ASSUME DecisionAssumption ==
  \A rules \in AccessRules, m, next \in Members \cup {NoRow} :
    LET decision == Decide(rules.read, References(next)) IN
    /\ \A row \in Todos :
         /\ decision.allow /\ Matches(row, decision.predicate)
              <=> Permits(rules.read, row, References(next))
         /\ Matches(row, NoPredicate)
    /\ (\E row \in Todos : ~(Permits(rules.read, row, References(m))
                               <=> Permits(rules.read, row, References(next))))
         => \E d \in decision.dependencies : FieldChanged(m, next, d.field)

NoUpdate == [type |-> "none"]

\* Mutant of VisibleUpdate: an update that hides its row is not delivered.
VisibleUpdateAfter(u, m) ==
  IF u # NoUpdate /\ VisibleRow(u.value, m) THEN u ELSE NoUpdate

\* visibleUpdateForAuth: the update as a socket may see it, if it may.
VisibleUpdate(u, m) ==
  LET before == VisibleRow(u.previousValue, m)
      after == VisibleRow(u.value, m) IN
  IF u = NoUpdate \/ ~Decision(m).allow THEN NoUpdate
  ELSE IF Decision(m).predicate = NoPredicate THEN u
  ELSE IF ~before /\ ~after THEN NoUpdate
  ELSE IF ~after
       THEN [u EXCEPT !.type = "delete", !.value = NoRow, !.previousValue = NoRow]
  ELSE IF ~before /\ u.type = "update" THEN [u EXCEPT !.type = "insert"]
  ELSE u

\* writeAccessRow and writeAccessDecision, by the references before the batch.
WriteRow(u) == IF u.type = "delete" THEN u.previousValue ELSE u.value
MayWrite(u) ==
  LET rule == IF access.write = NoRule THEN access.read ELSE access.write
      decision == Decide(rule, References(member)) IN
  decision.allow /\ Matches(WriteRow(u), decision.predicate)

\* Mutant of Invalidates: only a reference that was there can change.
InvalidatesUpdate(previous, next) ==
  /\ previous # NoRow /\ next # NoRow
  /\ \E d \in Decision(next).dependencies : FieldChanged(previous, next, d.field)

\* subscribedInvalidations, after the batch is stored.
Invalidates(previous, next) ==
  \E d \in Decision(next).dependencies : FieldChanged(previous, next, d.field)

\* publish: one message per socket that has something to learn of the batch.
Published(u, previous, next, changed) ==
  LET visible == VisibleUpdate(u, next)
      invalidated == changed /\ Invalidates(previous, next) IN
  IF ~online \/ (visible = NoUpdate /\ ~invalidated) THEN <<>>
  ELSE <<[type |-> "updates", watermark |-> Len(history) + 1, update |-> visible,
          invalidated |-> invalidated]>>

-----------------------------------------------------------------------------
(***************************************************************************)
(* Writers.  An update carries the row as its author knew it.              *)
(***************************************************************************)
Originals(row, contents) == IF StaleOriginals THEN contents \cup {NoRow} ELSE {row}

UpdateType(original, value) ==
  IF value = NoRow THEN "delete" ELSE IF original = NoRow THEN "insert" ELSE "update"

TodoUpdate(k, original, value) ==
  [key |-> k, type |-> UpdateType(original, value), value |-> value,
   previousValue |-> original]

\* Whether the rule, read directly, allows other todos after the change.
Moves(m, next) ==
  \E row \in Todos : ~(Permits(access.read, row, References(m))
                          <=> Permits(access.read, row, References(next)))

\* An update of a missing row throws in the storage; a delete needs a row that
\* its author saw.
Storable(u) ==
  /\ u.type = "update" => table[u.key] # NoRow
  /\ u.type = "delete" => u.previousValue # NoRow

PushTodo ==
  /\ pushes < MaxPushes /\ pushes' = pushes + 1
  /\ \E k \in Keys, value \in Todos \cup {NoRow} : \E original \in Originals(table[k], Todos) :
       LET u == TodoUpdate(k, original, value) IN
       /\ Storable(u) /\ MayWrite(u)
       /\ table' = [table EXCEPT ![k] = value]
       /\ history' = Append(history, u)
       /\ link' = link \o Published(u, member, member, FALSE)
  /\ UNCHANGED <<config, member, connection, subscriber, moved, faults>>

\* The reference changes, alone or in one batch with a todo that is judged by
\* the reference before it and shown by the one after it.
PushMember ==
  /\ pushes < MaxPushes /\ pushes' = pushes + 1
  /\ \E next \in (Members \cup {NoRow}) \ {member} :
     \E original \in Originals(member, Members) :
       /\ original = NoRow => next # NoRow
       /\ next # NoRow /\ original # NoRow => member # NoRow
       /\ member' = next
       /\ moved' = IF ~Moves(member, next) THEN moved
                   ELSE IF online /\ moved # "lost" THEN "told" ELSE "lost"
       /\ \/ /\ link' = link \o Published(NoUpdate, original, next, TRUE)
             /\ history' = Append(history, NoUpdate)
             /\ UNCHANGED table
          \/ \E k \in Keys, value \in Todos :
               LET u == TodoUpdate(k, table[k], value) IN
               /\ MayWrite(u)
               /\ table' = [table EXCEPT ![k] = value]
               /\ history' = Append(history, u)
               /\ link' = link \o Published(u, original, next, TRUE)
  /\ UNCHANGED <<config, connection, subscriber, faults>>

-----------------------------------------------------------------------------
(***************************************************************************)
(* What the shard answers.  A request and its answer are one step, so that *)
(* requests that are lost, and answers that are late, need no others.      *)
(***************************************************************************)
\* A read, answered with the rows the rule shows now (authorizeReadQuery).  That
\* they are those of the watermark is not part of the answer.
\* A read that waited for the socket is sent while the session catches up.
Load ==
  /\ online /\ loaded = "none"
  /\ loaded' = "asked"
  /\ moved' = "no"
  /\ link' = Append(link,
       [type |-> "rows", watermark |-> Len(history),
        rows |-> [k \in Keys |-> IF VisibleRow(table[k], member) THEN table[k] ELSE NoRow]])
  /\ UNCHANGED <<config, shard, connection, view, cursor, pushes, faults>>

\* readChanges: the updates after the cursor of the request, by the rule and the
\* reference of now; NoUpdate stands for one that is left out.
AnswerChanges ==
  /\ asking /\ asking' = FALSE
  /\ link' = Append(link,
       [type |-> "changes", watermark |-> Len(history),
        updates |-> [i \in 1 .. Len(history) - cursor |->
                      VisibleUpdate(history[cursor + i], member)]])
  /\ UNCHANGED <<config, shard, online, session, buffered, subscriber, moved, pushes, faults>>

\* The request is refused by the rate limiter or times out: recover fails, and
\* the session stays in catching-up until the next lost socket.
ChangesFail ==
  /\ asking /\ asking' = FALSE
  /\ UNCHANGED <<config, shard, link, online, session, buffered, subscriber, moved,
                 pushes, faults>>

-----------------------------------------------------------------------------
(***************************************************************************)
(* The subscriber.                                                         *)
(***************************************************************************)
\* applyCollectionBroadcast, for one update.  Without a loaded subset an
\* on-demand collection keeps only rows it has.
Apply(rows, u, isLoaded) ==
  IF u # NoUpdate /\ (u.type = "delete" \/ isLoaded \/ rows[u.key] # NoRow)
  THEN [rows EXCEPT ![u.key] = u.value] ELSE rows

Client == [view |-> view, loaded |-> loaded, cursor |-> cursor, moved |-> moved]
Becomes(client) ==
  /\ view' = client.view /\ loaded' = client.loaded
  /\ cursor' = client.cursor /\ moved' = client.moved

\* applyCollectionBroadcast: an invalidation clears all subsets of an on-demand
\* collection, before the updates of its message; an eager collection does not
\* look at it.
Handled(client, broadcast) ==
  LET cleared == /\ broadcast.invalidated
                 /\ syncMode = "on-demand" /\ client.loaded = "loaded"
      rows == IF cleared THEN [k \in Keys |-> NoRow] ELSE client.view
      isLoaded == client.loaded = "loaded" /\ ~cleared IN
  [client EXCEPT !.view = Apply(rows, broadcast.update, isLoaded),
                 !.loaded = IF cleared THEN "none" ELSE @,
                 !.cursor = broadcast.watermark]

\* What is dropped is not heard of again.
Dropped(client, broadcast) ==
  IF broadcast.invalidated /\ client.loaded = "loaded" /\ client.moved = "told"
  THEN [client EXCEPT !.moved = "lost"] ELSE client

\* applyBroadcast: one that the cursor has passed is dropped, its invalidation
\* with it.
ApplyBroadcast(client, broadcast) ==
  IF broadcast.watermark <= client.cursor
  THEN Dropped(client, broadcast) ELSE Handled(client, broadcast)

ReceiveRows(message) ==
  /\ view' = message.rows
  /\ loaded' = "loaded"
  /\ UNCHANGED <<cursor, moved, session, buffered>>

\* receive: a session that is not synchronized keeps the broadcast for later.
ReceiveUpdates(message) ==
  IF session = "synchronized"
  THEN Becomes(ApplyBroadcast(Client, message)) /\ UNCHANGED <<session, buffered>>
  ELSE /\ buffered' = Append(buffered, message)
       /\ UNCHANGED <<subscriber, moved, session>>

\* recover, once its request is answered: the missed updates, then flush with
\* what was buffered meanwhile, in the order of the watermarks.
CaughtUp(client, message) ==
  [client EXCEPT !.view = FoldLeft(LAMBDA rows, u : Apply(rows, u, client.loaded = "loaded"),
                                   @, message.updates),
                 !.cursor = IF @ < message.watermark THEN message.watermark ELSE @]

ReceiveChanges(message) ==
  /\ Becomes(FoldLeft(ApplyBroadcast, CaughtUp(Client, message), buffered))
  /\ buffered' = <<>>
  /\ session' = "synchronized"

Deliver ==
  /\ link # <<>>
  /\ LET message == Head(link) IN
     \/ message.type = "rows" /\ ReceiveRows(message)
     \/ message.type = "updates" /\ ReceiveUpdates(message)
     \/ message.type = "changes" /\ ReceiveChanges(message)
  /\ link' = Tail(link)
  /\ UNCHANGED <<config, shard, online, asking, pushes, faults>>

\* The messages under way are lost, and a read that was not answered fails.
\* What was buffered stays (disconnected).
Disconnect ==
  /\ online /\ faults < MaxFaults
  /\ online' = FALSE /\ session' = "disconnected" /\ asking' = FALSE
  /\ link' = <<>> /\ faults' = faults + 1
  /\ loaded' = IF loaded = "asked" THEN "none" ELSE loaded
  /\ moved' = IF moved = "told" THEN "lost" ELSE moved
  /\ UNCHANGED <<config, shard, buffered, view, cursor, pushes>>

\* The shard has handled the replayed subscription on a new socket.
Reconnect ==
  /\ ~online /\ online' = TRUE
  /\ UNCHANGED <<config, shard, link, session, asking, buffered, subscriber, moved,
                 pushes, faults>>

\* reconnected and recover, once every replayed subscription is answered.
Recover ==
  /\ online /\ session = "disconnected"
  /\ session' = "catching-up"
  /\ asking' = TRUE
  /\ UNCHANGED <<config, shard, link, online, buffered, subscriber, moved, pushes, faults>>

Init ==
  /\ access \in AccessRules /\ syncMode \in SyncModes
  /\ table = [k \in Keys |-> NoRow]
  /\ member \in Members \cup {NoRow}
  /\ history = <<>> /\ link = <<>>
  /\ online = TRUE /\ session = "synchronized" /\ asking = FALSE /\ buffered = <<>>
  /\ view = [k \in Keys |-> NoRow]
  /\ loaded = IF syncMode = "eager" THEN "loaded" ELSE "none"
  /\ cursor = 0
  /\ moved = "no" /\ pushes = 0 /\ faults = 0

Next ==
  \/ PushTodo \/ PushMember
  \/ Load \/ AnswerChanges \/ ChangesFail
  \/ Deliver \/ Disconnect \/ Reconnect \/ Recover

Spec == Init /\ [][Next]_vars

-----------------------------------------------------------------------------
AtRest == online /\ session = "synchronized" /\ link = <<>>

(***************************************************************************)
(* Once everything is delivered, a subscriber that has loaded sees exactly *)
(* the rows that the rule allows at present, with their present contents:  *)
(* rows that an update hid are gone, rows that one revealed are there, and *)
(* after the reference changed an on-demand collection sees nothing until  *)
(* it loads again.  "Permits" is the direct reading of the rule.  An eager *)
(* collection keeps this only until the reference changes, an on-demand    *)
(* one until an invalidation is lost: because the reference changed while  *)
(* it was away, because the socket was lost with the message, or because   *)
(* it arrived while the session was catching up, whose flush drops it.     *)
(***************************************************************************)
ViewIsExact ==
  /\ AtRest /\ loaded = "loaded"
  /\ IF syncMode = "eager" THEN moved = "no" ELSE moved # "lost"
  => \A k \in Keys :
       view[k] = IF table[k] # NoRow /\ Permits(access.read, table[k], References(member))
                 THEN table[k] ELSE NoRow

\* An invalidation has still to be handled.
ToldUnderWay ==
  \/ \E i \in DOMAIN link : link[i].type = "updates" /\ link[i].invalidated
  \/ \E i \in DOMAIN buffered : buffered[i].invalidated

(***************************************************************************)
(* When the rule has come to allow other todos while an on-demand          *)
(* collection was connected, the invalidation is on its way as long as the *)
(* collection has its old rows: none is left out by the shard, and none is *)
(* handled before the rows it is about arrive.                             *)
(***************************************************************************)
InvalidationsArrive ==
  moved = "told" /\ syncMode = "on-demand" /\ loaded = "loaded" => ToldUnderWay
=============================================================================
