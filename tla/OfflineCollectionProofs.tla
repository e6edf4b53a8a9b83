----------------------- MODULE OfflineCollectionProofs ----------------------
(***************************************************************************)
(* Theorems about OfflineCollection: a local mutation is applied once and  *)
(* a push that waits for an answer will get one (PushInv); at rest the     *)
(* collection shows the rows of the shard (SyncInv), and IndexedDB holds   *)
(* them (CacheInv).                                                        *)
(***************************************************************************)
EXTENDS OfflineCollection, ChangeLogProofs, SequenceTheorems, TLAPS

States == {"waiting", "sent", "done", "failed", "gone"}
Mutations == [key : Keys, type : Types, id : Nat, attempt : Nat, state : States]

IsSequence(s) == s \in Seq(ToSet(s))

\* A mutation is in the log.
IsLogged(i) == \E n \in DOMAIN log : log[n].tx = i

CountersOk ==
  /\ spent \in [{"remote", "faults", "crashes"} -> Nat]
  /\ txs \in Seq(Mutations)
  /\ Len(txs) <= MaxLocal

\* A change in the log is a local mutation under its own id, or a change by
\* others under an id that no local mutation has.
LogOk ==
  /\ IsSequence(log)
  /\ \A n \in DOMAIN log : \/ log[n].tx \in Txs /\ log[n].id = log[n].tx
                           \/ log[n].tx = 0 /\ log[n].id \in Nat /\ log[n].id > MaxLocal

\* A push carries the id of its mutation; an answer that accepts one tells of
\* a change in the log.
MessagesOk ==
  /\ IsSequence(toServer) /\ IsSequence(toClient)
  /\ \A m \in late : m.type = "push"
  /\ \A m \in ToSet(toServer) \cup late : m.type = "push" => m.tx \in Txs /\ m.id = m.tx
  /\ \A m \in ToSet(toClient) :
       m.type = "answer" => m.tx \in Txs /\ (m.ok => IsLogged(m.tx))

\* Only an open socket has requests to wait for.
SentIsUp == ~up => \A i \in Txs : txs[i].state # "sent"

PushInv == CountersOk /\ LogOk /\ MessagesOk /\ PushedOnce /\ SentIsUp /\ NoPushHangs

-----------------------------------------------------------------------------
\* Sequences of messages and the set of their elements.
LEMMA EmptySet == IsSequence(<<>>) /\ ToSet(<<>>) = {}
BY DEF IsSequence, ToSet

LEMMA OneSet ==
  ASSUME NEW e
  PROVE  IsSequence(<<e>>) /\ ToSet(<<e>>) = {e}
BY DEF IsSequence, ToSet

LEMMA PairSet ==
  ASSUME NEW d, NEW e
  PROVE  IsSequence(<<d, e>>) /\ ToSet(<<d, e>>) = {d, e}
BY DEF IsSequence, ToSet

LEMMA ConcatSet ==
  ASSUME NEW s, NEW t, IsSequence(s), IsSequence(t)
  PROVE  IsSequence(s \o t) /\ ToSet(s \o t) = ToSet(s) \cup ToSet(t)
<1> DEFINE S == ToSet(s) \cup ToSet(t)
<1>1. s \in Seq(S) /\ t \in Seq(S)
  BY SeqMonotonic DEF IsSequence
<1>2. /\ s \o t \in Seq(S)
      /\ Len(s \o t) = Len(s) + Len(t)
      /\ \A i \in 1 .. Len(s) + Len(t) :
           (s \o t)[i] = IF i <= Len(s) THEN s[i] ELSE t[i - Len(s)]
  BY <1>1, ConcatProperties
<1>3. /\ Len(s) \in Nat /\ Len(t) \in Nat
      /\ DOMAIN s = 1 .. Len(s) /\ DOMAIN t = 1 .. Len(t)
      /\ DOMAIN (s \o t) = 1 .. Len(s) + Len(t)
  BY <1>1, <1>2, LenProperties
<1>4. ToSet(s \o t) \subseteq S
  BY <1>2, <1>3, ElementOfSeq DEF ToSet
<1>5. ToSet(s) \subseteq ToSet(s \o t)
  <2> SUFFICES ASSUME NEW i \in DOMAIN s
               PROVE  s[i] \in ToSet(s \o t)
    BY DEF ToSet
  <2>1. i \in 1 .. Len(s) + Len(t) /\ i <= Len(s)
    BY <1>3
  <2>2. (s \o t)[i] = s[i]
    BY <1>2, <2>1
  <2> QED
    BY <1>3, <2>1, <2>2 DEF ToSet
<1>6. ToSet(t) \subseteq ToSet(s \o t)
  <2> SUFFICES ASSUME NEW i \in DOMAIN t
               PROVE  t[i] \in ToSet(s \o t)
    BY DEF ToSet
  <2>1. /\ i + Len(s) \in 1 .. Len(s) + Len(t)
        /\ ~(i + Len(s) <= Len(s))
        /\ i + Len(s) - Len(s) = i
    BY <1>3
  <2>2. (s \o t)[i + Len(s)] = t[i]
    BY <1>2, <2>1
  <2> QED
    BY <1>3, <2>1, <2>2 DEF ToSet
<1>7. ToSet(s \o t) = S
  BY <1>4, <1>5, <1>6
<1> QED
  BY <1>2, <1>7 DEF IsSequence

LEMMA AppendSet ==
  ASSUME NEW s, NEW e, IsSequence(s)
  PROVE  IsSequence(Append(s, e)) /\ ToSet(Append(s, e)) = ToSet(s) \cup {e}
<1>1. s \in Seq(ToSet(s) \cup {e})
  BY SeqMonotonic DEF IsSequence
<1>2. Append(s, e) = s \o <<e>>
  BY <1>1, AppendIsConcat
<1> QED
  BY <1>2, OneSet, ConcatSet

LEMMA HeadSet ==
  ASSUME NEW s, IsSequence(s), s # <<>>
  PROVE  /\ IsSequence(Tail(s))
         /\ Head(s) \in ToSet(s)
         /\ ToSet(s) = {Head(s)} \cup ToSet(Tail(s))
<1>1. /\ Head(s) \in ToSet(s)
      /\ Tail(s) \in Seq(ToSet(s))
      /\ Len(Tail(s)) = Len(s) - 1
      /\ \A i \in 1 .. Len(Tail(s)) : Tail(s)[i] = s[i + 1]
  BY HeadTailProperties DEF IsSequence
<1>2. /\ Len(s) \in Nat \ {0} /\ DOMAIN s = 1 .. Len(s)
      /\ DOMAIN Tail(s) = 1 .. Len(s) - 1
  BY <1>1, LenProperties, EmptySeq DEF IsSequence
<1>3. Head(s) = s[1]
  BY DEF IsSequence
<1>4. ToSet(Tail(s)) \subseteq ToSet(s)
  BY <1>1, <1>2 DEF ToSet
<1>5. ToSet(s) \subseteq {Head(s)} \cup ToSet(Tail(s))
  <2> SUFFICES ASSUME NEW i \in 1 .. Len(s), i # 1
               PROVE  s[i] \in ToSet(Tail(s))
    BY <1>2, <1>3 DEF ToSet
  <2>1. i - 1 \in 1 .. Len(s) - 1 /\ (i - 1) + 1 = i
    BY <1>2
  <2> QED
    BY <1>1, <1>2, <2>1 DEF ToSet
<1>6. Tail(s) \in Seq(ToSet(Tail(s)))
  <2>1. Tail(s) \in Seq(Range(Tail(s)))
    BY <1>1, SeqOfRange
  <2> QED
    BY <2>1 DEF ToSet, Range
<1> QED
  BY <1>1, <1>4, <1>5, <1>6 DEF IsSequence

LEMMA AppendAt ==
  ASSUME NEW s, NEW e, IsSequence(s)
  PROVE  /\ IsSequence(Append(s, e))
         /\ Len(s) \in Nat /\ DOMAIN s = 1 .. Len(s)
         /\ DOMAIN Append(s, e) = 1 .. Len(s) + 1
         /\ \A i \in DOMAIN s : Append(s, e)[i] = s[i]
         /\ Append(s, e)[Len(s) + 1] = e
<1>1. s \in Seq(ToSet(s) \cup {e})
  BY SeqMonotonic DEF IsSequence
<1>2. DOMAIN s = 1 .. Len(s) /\ Len(s) \in Nat
  BY <1>1, LenProperties
<1>3. /\ Append(s, e) \in Seq(ToSet(s) \cup {e})
      /\ Len(Append(s, e)) = Len(s) + 1
      /\ \A i \in 1 .. Len(s) : Append(s, e)[i] = s[i]
      /\ Append(s, e)[Len(s) + 1] = e
  BY <1>1, AppendProperties
<1>4. DOMAIN Append(s, e) = 1 .. Len(s) + 1
  BY <1>3, LenProperties
<1> QED
  BY <1>2, <1>3, <1>4, AppendSet

LEMMA FunctionIsSequence ==
  ASSUME NEW S, NEW n \in Nat, NEW f \in [1 .. n -> S]
  PROVE  f \in Seq(S) /\ Len(f) = n
<1>1. f \in Seq(S)
  BY SeqDef
<1>2. Len(f) \in Nat /\ DOMAIN f = 1 .. Len(f)
  BY <1>1, LenProperties
<1>3. 1 .. n = 1 .. Len(f)
  BY <1>2
<1> QED
  BY <1>1, <1>2, <1>3

-----------------------------------------------------------------------------
\* What the steps have in common.

\* A change with a new id is appended.
LEMMA LogGrows ==
  ASSUME LogOk, PushedOnce, txs' = txs, NEW change, log' = Append(log, change),
         \/ /\ change.tx \in Txs /\ change.id = change.tx
            /\ ~ \E n \in DOMAIN log : log[n].id = change.id
         \/ change.tx = 0 /\ change.id \in Nat /\ change.id > MaxLocal
  PROVE  /\ LogOk' /\ PushedOnce'
         /\ \A i : IsLogged(i) => IsLogged(i)'
         /\ IsLogged(change.tx)'
<1>1. /\ IsSequence(log')
      /\ Len(log) \in Nat /\ DOMAIN log = 1 .. Len(log)
      /\ DOMAIN log' = 1 .. Len(log) + 1
      /\ \A n \in DOMAIN log : log'[n] = log[n]
      /\ log'[Len(log) + 1] = change
  BY AppendAt DEF LogOk
<1>2. Txs' = Txs
  BY DEF Txs
<1>3. LogOk'
  <2> SUFFICES ASSUME NEW n \in DOMAIN log'
               PROVE  \/ log'[n].tx \in Txs /\ log'[n].id = log'[n].tx
                      \/ log'[n].tx = 0 /\ log'[n].id \in Nat /\ log'[n].id > MaxLocal
    BY <1>1, <1>2 DEF LogOk
  <2>1. CASE n \in DOMAIN log
    BY <2>1, <1>1 DEF LogOk
  <2>2. CASE n = Len(log) + 1
    BY <2>2, <1>1
  <2> QED
    BY <1>1, <2>1, <2>2
<1>4. \A i : IsLogged(i) => IsLogged(i)'
  BY <1>1 DEF IsLogged
<1>5. IsLogged(change.tx)'
  BY <1>1 DEF IsLogged
<1>6. ASSUME NEW m \in DOMAIN log', NEW n \in DOMAIN log',
             log'[m].tx = log'[n].tx, log'[m].tx # 0
      PROVE  m = n
  <2>1. ASSUME NEW k \in DOMAIN log, log[k].tx = change.tx, change.tx # 0
        PROVE  FALSE
    BY <2>1 DEF LogOk
  <2>2. CASE m \in DOMAIN log /\ n \in DOMAIN log
    BY <1>1, <1>6, <2>2 DEF PushedOnce
  <2>3. CASE m \in DOMAIN log /\ n = Len(log) + 1
    BY <1>1, <1>6, <2>1, <2>3
  <2>4. CASE m = Len(log) + 1 /\ n \in DOMAIN log
    BY <1>1, <1>6, <2>1, <2>4
  <2> QED
    BY <1>1, <2>2, <2>3, <2>4
<1>7. ASSUME NEW i \in Txs, txs[i].state = "done"
      PROVE  \E n \in DOMAIN log' : log'[n].tx = i
  BY <1>1, <1>7 DEF PushedOnce
<1> QED
  BY <1>2, <1>3, <1>4, <1>5, <1>6, <1>7 DEF PushedOnce

\* The mutations change their states, and are done only if they are logged.
LEMMA TxsChange ==
  ASSUME PushInv, log' = log, txs' \in Seq(Mutations),
         Len(txs') \in Len(txs) .. MaxLocal, MaxLocal \in Nat,
         spent' \in [{"remote", "faults", "crashes"} -> Nat],
         \A i \in Txs' : txs'[i].state = "done" =>
           i \in Txs /\ (txs[i].state = "done" \/ IsLogged(i))
  PROVE  CountersOk' /\ LogOk' /\ PushedOnce' /\ Txs \subseteq Txs'
<1>1. Len(txs) \in Nat /\ Len(txs') \in Nat /\ Len(txs) <= Len(txs') /\ Len(txs') <= MaxLocal
  BY LenProperties DEF PushInv, CountersOk
<1>2. Txs \subseteq Txs'
  BY <1>1 DEF Txs
<1>3. CountersOk'
  BY <1>1 DEF CountersOk
<1>4. LogOk'
  BY <1>2 DEF PushInv, LogOk
<1>5. PushedOnce'
  BY DEF PushInv, PushedOnce, IsLogged
<1> QED
  BY <1>2, <1>3, <1>4, <1>5

\* Messages that are new are right, and the log has not lost a change.
LEMMA MessagesChange ==
  ASSUME MessagesOk, Txs \subseteq Txs', \A i : IsLogged(i) => IsLogged(i)',
         IsSequence(toServer'), IsSequence(toClient'),
         \A m \in late' : m.type = "push",
         \A m \in ToSet(toServer') \cup late' :
           \/ m \in ToSet(toServer) \cup late
           \/ m.type = "push" => m.tx \in Txs' /\ m.id = m.tx,
         \A m \in ToSet(toClient') :
           \/ m \in ToSet(toClient)
           \/ m.type = "answer" => m.tx \in Txs' /\ (m.ok => IsLogged(m.tx)')
  PROVE  MessagesOk'
BY DEF MessagesOk

\* One mutation changes.
LEMMA ExceptTx ==
  ASSUME txs \in Seq(Mutations), NEW i \in Txs, NEW tx \in Mutations,
         txs' = [txs EXCEPT ![i] = tx]
  PROVE  /\ txs' \in Seq(Mutations) /\ Len(txs') = Len(txs) /\ Txs' = Txs
         /\ \A j \in Txs : txs'[j] = IF j = i THEN tx ELSE txs[j]
<1>1. Len(txs) \in Nat /\ DOMAIN txs = 1 .. Len(txs) /\ txs \in [1 .. Len(txs) -> Mutations]
  BY LenProperties
<1>2. i \in 1 .. Len(txs)
  BY DEF Txs
<1>3. txs' \in [1 .. Len(txs) -> Mutations]
  BY <1>1, <1>2
<1>4. txs' \in Seq(Mutations) /\ Len(txs') = Len(txs)
  BY <1>1, <1>3, FunctionIsSequence
<1>5. \A j \in 1 .. Len(txs) : txs'[j] = IF j = i THEN tx ELSE txs[j]
  BY <1>1
<1>6. Txs' = Txs
  BY <1>4 DEF Txs
<1>7. \A j \in Txs : txs'[j] = IF j = i THEN tx ELSE txs[j]
  BY <1>5 DEF Txs
<1> QED
  BY <1>4, <1>6, <1>7

LEMMA MutationAt ==
  ASSUME txs \in Seq(Mutations), NEW i \in Txs
  PROVE  txs[i] \in Mutations
BY ElementOfSeq DEF Txs

\* The next attempt or the error: never "sent", never "done".
LEMMA Failure ==
  ASSUME NEW tx \in Mutations
  PROVE  AfterFailure(tx) \in Mutations /\ AfterFailure(tx).state \in {"waiting", "failed"}
<1>1. CASE tx.attempt < MaxAttempts
  <2> DEFINE next == [tx EXCEPT !.state = "waiting", !.attempt = @ + 1]
  <2> DEFINE again == [tx EXCEPT !.attempt = @ + 1]
  <2>1. tx.attempt + 1 \in Nat
    BY DEF Mutations
  <2>2. again \in Mutations
    BY <2>1 DEF Mutations
  <2>3. next = [again EXCEPT !.state = "waiting"]
    BY DEF Mutations
  <2>4. next \in Mutations /\ next.state = "waiting"
    BY <2>2, <2>3 DEF Mutations, States
  <2> QED
    BY <1>1, <2>4 DEF AfterFailure
<1>2. CASE ~(tx.attempt < MaxAttempts)
  <2> DEFINE next == [tx EXCEPT !.state = "failed"]
  <2>1. next \in Mutations /\ next.state = "failed"
    BY DEF Mutations, States
  <2> QED
    BY <1>2, <2>1 DEF AfterFailure
<1> QED
  BY <1>1, <1>2

LEMMA Rejected ==
  ASSUME txs \in Seq(Mutations), RejectPending
  PROVE  /\ txs' \in Seq(Mutations) /\ Len(txs') = Len(txs) /\ Txs' = Txs
         /\ \A i \in Txs : /\ txs'[i].state # "sent"
                           /\ txs'[i].state = "done" => txs[i].state = "done"
<1>1. Len(txs) \in Nat
  BY LenProperties
<1>2. \A i \in Txs : /\ txs[i] \in Mutations
                     /\ AfterFailure(txs[i]) \in Mutations
                     /\ AfterFailure(txs[i]).state \in {"waiting", "failed"}
  BY MutationAt, Failure
<1>3. txs' \in [1 .. Len(txs) -> Mutations]
  BY <1>2 DEF RejectPending, Txs
<1>4. txs' \in Seq(Mutations) /\ Len(txs') = Len(txs)
  BY <1>1, <1>3, FunctionIsSequence
<1>5. Txs' = Txs
  BY <1>4 DEF Txs
<1>6. \A i \in Txs : txs'[i] = IF txs[i].state = "sent" THEN AfterFailure(txs[i]) ELSE txs[i]
  BY DEF RejectPending
<1> QED
  BY <1>2, <1>4, <1>5, <1>6

-----------------------------------------------------------------------------
LEMMA PushInvInit == Init => PushInv
<1> SUFFICES ASSUME Init
             PROVE  PushInv
  OBVIOUS
<1>1. txs = <<>> /\ Len(txs) = 0 /\ Txs = {}
  BY DEF Init, Txs
<1>2. CountersOk
  BY <1>1, OfflineAssumption DEF Init, CountersOk
<1>3. LogOk /\ PushedOnce
  BY <1>1, EmptySet DEF Init, LogOk, PushedOnce
<1>4. MessagesOk
  BY EmptySet DEF Init, MessagesOk
<1>5. SentIsUp /\ NoPushHangs
  BY <1>1 DEF SentIsUp, NoPushHangs
<1> QED
  BY <1>2, <1>3, <1>4, <1>5 DEF PushInv

\* Steps that touch neither the log nor a mutation, and lose no message.
LEMMA Aside ==
  ASSUME PushInv, UNCHANGED <<shard, txs, spent>>, up => up',
         toClient' = toClient, IsSequence(toServer'),
         ToSet(toServer) \subseteq ToSet(toServer') \/ ~up,
         \A m \in ToSet(toServer') : m \in ToSet(toServer) \/ m.type # "push"
  PROVE  PushInv'
<1>1. Txs' = Txs /\ log' = log /\ late' = late
  BY DEF Txs, shard
<1>2. CountersOk' /\ LogOk' /\ PushedOnce'
  BY <1>1 DEF PushInv, CountersOk, LogOk, PushedOnce
<1>3. \A i : IsLogged(i) => IsLogged(i)'
  BY <1>1 DEF IsLogged
<1>4. MessagesOk'
  BY <1>1, <1>3, MessagesChange DEF PushInv, MessagesOk
<1>5. SentIsUp'
  BY <1>1 DEF PushInv, SentIsUp
<1>6. NoPushHangs'
  <2>1. CASE up
    BY <1>1, <2>1 DEF PushInv, NoPushHangs
  <2>2. CASE ~up
    BY <1>1, <2>2 DEF PushInv, SentIsUp, NoPushHangs
  <2> QED
    BY <2>1, <2>2
<1> QED
  BY <1>2, <1>4, <1>5, <1>6 DEF PushInv

\* start, hydrate, initialize, connectOnce and the cache.
LEMMA PushInvAside ==
  ASSUME PushInv, Start \/ Hydrate \/ Connect \/ Load \/ Stored \/ Perform
  PROVE  PushInv'
<1>1. IsSequence(toServer)
  BY DEF PushInv, MessagesOk
<1>2. CASE Start \/ Hydrate \/ Stored \/ Perform
  <2>1. UNCHANGED <<shard, up, toServer, toClient, txs, spent>>
    BY <1>2 DEF Start, Hydrate, Stored, Perform
  <2> QED
    BY <1>1, <2>1, Aside
<1>3. CASE Connect
  <2>1. /\ ~up /\ up' /\ UNCHANGED <<shard, toClient, txs, spent>>
        /\ toServer' = toServer \/ toServer' = <<[type |-> "changes", cursor |-> cursor]>>
    BY <1>3 DEF Connect
  <2>2. CASE toServer' = toServer
    BY <1>1, <2>1, <2>2, Aside
  <2>3. CASE toServer' = <<[type |-> "changes", cursor |-> cursor]>>
    <3>1. /\ IsSequence(toServer')
          /\ ToSet(toServer') = {[type |-> "changes", cursor |-> cursor]}
      BY <2>3, OneSet
    <3> QED
      BY <2>1, <3>1, Aside
  <2> QED
    BY <2>1, <2>2, <2>3
<1>4. CASE Load
  <2>1. UNCHANGED <<shard, up, toClient, txs, spent>>
    BY <1>4 DEF Load
  <2>2. /\ IsSequence(toServer')
        /\ ToSet(toServer') = ToSet(toServer) \cup {[type |-> "read"]}
    BY <1>1, <1>4, AppendSet DEF Load
  <2> QED
    BY <2>1, <2>2, Aside
<1> QED
  BY <1>2, <1>3, <1>4

\* A new mutation is sent at once, or waits for a socket.
LEMMA PushInvMutate ==
  ASSUME PushInv, NEW k \in Keys, NEW type \in Types, Mutate(k, type)
  PROVE  PushInv'
<1> DEFINE i == Len(txs) + 1
           tx == [key |-> k, type |-> type, id |-> i, attempt |-> 1,
                  state |-> IF up THEN "sent" ELSE "waiting"]
           push == [type |-> "push", tx |-> i, attempt |-> 1, id |-> i]
<1>1. /\ txs \in Seq(Mutations) /\ Len(txs) \in Nat /\ DOMAIN txs = 1 .. Len(txs)
      /\ Len(txs) < MaxLocal /\ MaxLocal \in Nat
      /\ txs' = Append(txs, tx)
      /\ UNCHANGED <<shard, up, toClient, spent>>
  BY LenProperties, OfflineAssumption DEF PushInv, CountersOk, Mutate
<1>2. /\ tx \in Mutations /\ tx.attempt = 1
      /\ tx.state # "done" /\ (tx.state = "sent" => up)
  BY <1>1 DEF Mutations, States
<1>3. /\ txs' \in Seq(Mutations) /\ Len(txs') = Len(txs) + 1
      /\ \A j \in Txs : txs'[j] = txs[j]
      /\ txs'[i] = tx
  BY <1>1, <1>2, AppendProperties DEF Txs
<1>4. Txs' = Txs \cup {i} /\ i \notin Txs
  BY <1>1, <1>3 DEF Txs
<1> HIDE DEF i, tx
<1>5. CountersOk' /\ LogOk' /\ PushedOnce' /\ Txs \subseteq Txs'
  <2>1. log' = log /\ spent' \in [{"remote", "faults", "crashes"} -> Nat]
    BY <1>1 DEF shard, PushInv, CountersOk
  <2>2. Len(txs') \in Len(txs) .. MaxLocal
    BY <1>1, <1>3
  <2>3. \A j \in Txs' : txs'[j].state = "done" => j \in Txs /\ txs[j].state = "done"
    BY <1>2, <1>3, <1>4
  <2> QED
    BY <1>1, <1>3, <2>1, <2>2, <2>3, TxsChange
<1>6. /\ IsSequence(toServer')
      /\ ToSet(toServer') = IF up THEN ToSet(toServer) \cup {push} ELSE ToSet(toServer)
  <2>1. toServer' = IF up THEN Append(toServer, push) ELSE toServer
    BY <1>3 DEF Mutate, PushOf, MutationId, i
  <2> QED
    BY <2>1, AppendSet DEF PushInv, MessagesOk
<1>7. \A j : IsLogged(j) => IsLogged(j)'
  BY <1>1 DEF shard, IsLogged
<1>8. MessagesOk'
  <2>1. push.tx \in Txs' /\ push.id = push.tx
    BY <1>4
  <2> QED
    BY <1>1, <1>5, <1>6, <1>7, <2>1, MessagesChange DEF PushInv, MessagesOk, shard
<1>9. SentIsUp'
  BY <1>1, <1>2, <1>3, <1>4 DEF PushInv, SentIsUp
<1>10. NoPushHangs'
  <2> SUFFICES ASSUME NEW j \in Txs', txs'[j].state = "sent"
               PROVE  \E m \in ToSet(toServer') \cup ToSet(toClient') :
                        /\ m.type \in {"push", "answer"} /\ m.tx = j
                        /\ m.attempt = txs'[j].attempt
    BY DEF NoPushHangs
  <2>1. CASE j = i
    <3>1. push \in ToSet(toServer')
      BY <1>2, <1>3, <1>6, <2>1
    <3>2. push.type = "push" /\ push.tx = j /\ push.attempt = txs'[j].attempt
      BY <1>2, <1>3, <2>1
    <3> QED
      BY <3>1, <3>2
  <2>2. CASE j \in Txs
    <3>1. PICK m \in ToSet(toServer) \cup ToSet(toClient) :
            m.type \in {"push", "answer"} /\ m.tx = j /\ m.attempt = txs[j].attempt
      BY <1>3, <2>2 DEF PushInv, NoPushHangs
    <3>2. m \in ToSet(toServer') \cup ToSet(toClient')
      BY <1>1, <1>6
    <3> QED
      BY <1>3, <2>2, <3>1, <3>2
  <2> QED
    BY <1>4, <2>1, <2>2
<1> QED
  BY <1>5, <1>8, <1>9, <1>10 DEF PushInv

\* A waiting mutation is sent.
LEMMA PushInvSendPush ==
  ASSUME PushInv, NEW i \in Txs, SendPush(i)
  PROVE  PushInv'
<1> DEFINE tx == [txs[i] EXCEPT !.state = "sent"]
           push == [type |-> "push", tx |-> i, attempt |-> txs[i].attempt, id |-> i]
<1>1. /\ txs \in Seq(Mutations) /\ Len(txs) \in Nat /\ MaxLocal \in Nat
      /\ Len(txs) <= MaxLocal
      /\ txs' = [txs EXCEPT ![i] = tx]
      /\ up /\ UNCHANGED <<shard, up, toClient, spent>>
  BY LenProperties, OfflineAssumption DEF PushInv, CountersOk, SendPush
<1>2. tx \in Mutations /\ tx.state = "sent" /\ tx.attempt = txs[i].attempt
  BY <1>1, MutationAt DEF Mutations, States
<1> HIDE DEF tx
<1>3. /\ txs' \in Seq(Mutations) /\ Len(txs') = Len(txs) /\ Txs' = Txs
      /\ \A j \in Txs : txs'[j] = IF j = i THEN tx ELSE txs[j]
  BY <1>1, <1>2, ExceptTx
<1>4. CountersOk' /\ LogOk' /\ PushedOnce' /\ Txs \subseteq Txs'
  <2>1. log' = log /\ spent' \in [{"remote", "faults", "crashes"} -> Nat]
    BY <1>1 DEF shard, PushInv, CountersOk
  <2> QED
    BY <1>1, <1>2, <1>3, <2>1, TxsChange
<1>5. /\ IsSequence(toServer')
      /\ ToSet(toServer') = ToSet(toServer) \cup {push}
  <2>1. toServer' = Append(toServer, push)
    BY <1>2, <1>3 DEF SendPush, PushOf, MutationId
  <2> QED
    BY <2>1, AppendSet DEF PushInv, MessagesOk
<1>6. \A j : IsLogged(j) => IsLogged(j)'
  BY <1>1 DEF shard, IsLogged
<1>7. MessagesOk'
  <2>1. push.tx \in Txs' /\ push.id = push.tx
    BY <1>3
  <2> QED
    BY <1>1, <1>4, <1>5, <1>6, <2>1, MessagesChange DEF PushInv, MessagesOk, shard
<1>8. SentIsUp'
  BY <1>1 DEF SentIsUp
<1>9. NoPushHangs'
  <2> SUFFICES ASSUME NEW j \in Txs, txs'[j].state = "sent"
               PROVE  \E m \in ToSet(toServer') \cup ToSet(toClient') :
                        /\ m.type \in {"push", "answer"} /\ m.tx = j
                        /\ m.attempt = txs'[j].attempt
    BY <1>3 DEF NoPushHangs
  <2>1. CASE j = i
    <3>1. push \in ToSet(toServer')
      BY <1>5
    <3>2. push.type = "push" /\ push.tx = j /\ push.attempt = txs'[j].attempt
      BY <1>2, <1>3, <2>1
    <3> QED
      BY <3>1, <3>2
  <2>2. CASE j # i
    <3>1. PICK m \in ToSet(toServer) \cup ToSet(toClient) :
            m.type \in {"push", "answer"} /\ m.tx = j /\ m.attempt = txs[j].attempt
      BY <1>3, <2>2 DEF PushInv, NoPushHangs
    <3>2. m \in ToSet(toServer') \cup ToSet(toClient')
      BY <1>1, <1>5
    <3> QED
      BY <1>3, <2>2, <3>1, <3>2
  <2> QED
    BY <2>1, <2>2
<1> QED
  BY <1>4, <1>7, <1>8, <1>9 DEF PushInv

\* A timeout, or no connection: the mutation stops waiting for an answer.
LEMMA PushInvGivesUp ==
  ASSUME PushInv, NEW i \in Txs, Timeout(i) \/ OpenFails(i)
  PROVE  PushInv'
<1>1. /\ txs \in Seq(Mutations) /\ Len(txs) \in Nat /\ MaxLocal \in Nat
      /\ Len(txs) <= MaxLocal
      /\ UNCHANGED <<shard, up, toServer, toClient>>
  BY LenProperties, OfflineAssumption DEF PushInv, CountersOk, Timeout, OpenFails
<1>2. PICK tx \in Mutations : /\ txs' = [txs EXCEPT ![i] = tx]
                              /\ tx.state \in {"waiting", "failed"}
  <2>1. CASE Timeout(i)
    BY <1>1, <2>1, MutationAt, Failure DEF Timeout
  <2>2. CASE OpenFails(i)
    <3>1. /\ [txs[i] EXCEPT !.state = "failed"] \in Mutations
          /\ [txs[i] EXCEPT !.state = "failed"].state = "failed"
      BY <1>1, MutationAt DEF Mutations, States
    <3> QED
      BY <2>2, <3>1 DEF OpenFails
  <2> QED
    BY <2>1, <2>2
<1>3. /\ txs' \in Seq(Mutations) /\ Len(txs') = Len(txs) /\ Txs' = Txs
      /\ \A j \in Txs : txs'[j] = IF j = i THEN tx ELSE txs[j]
  BY <1>1, <1>2, ExceptTx
<1>4. CountersOk' /\ LogOk' /\ PushedOnce' /\ Txs \subseteq Txs'
  <2>1. log' = log
    BY <1>1 DEF shard
  <2>2. spent' \in [{"remote", "faults", "crashes"} -> Nat]
    BY DEF PushInv, CountersOk, Timeout, OpenFails, Spend
  <2> QED
    BY <1>1, <1>2, <1>3, <2>1, <2>2, TxsChange
<1>5. \A j : IsLogged(j) => IsLogged(j)'
  BY <1>1 DEF shard, IsLogged
<1>6. MessagesOk'
  BY <1>1, <1>4, <1>5, MessagesChange DEF PushInv, MessagesOk, shard
<1>7. SentIsUp' /\ NoPushHangs'
  BY <1>1, <1>2, <1>3 DEF PushInv, SentIsUp, NoPushHangs
<1> QED
  BY <1>4, <1>6, <1>7 DEF PushInv

\* The socket or the tab is lost: nobody waits for an answer any more.
LEMMA PushInvLost ==
  ASSUME PushInv, Drop \/ Crash
  PROVE  PushInv'
<1>1. /\ txs \in Seq(Mutations) /\ Len(txs) \in Nat /\ MaxLocal \in Nat
      /\ Len(txs) <= MaxLocal
      /\ LoseSocket /\ log' = log
  BY LenProperties, OfflineAssumption DEF PushInv, CountersOk, Drop, Crash
<1>2. /\ txs' \in Seq(Mutations) /\ Len(txs') = Len(txs) /\ Txs' = Txs
      /\ \A i \in Txs : /\ txs'[i].state # "sent"
                        /\ txs'[i].state = "done" => txs[i].state = "done"
  <2>1. CASE Drop
    BY <1>1, <2>1, Rejected DEF Drop
  <2>2. CASE Crash
    <3> DEFINE gone(i) == IF txs[i].state \in Open THEN [txs[i] EXCEPT !.state = "gone"]
                          ELSE txs[i]
    <3>1. \A i \in Txs : /\ gone(i) \in Mutations
                         /\ gone(i).state # "sent"
                         /\ gone(i).state = "done" => txs[i].state = "done"
      BY <1>1, MutationAt DEF Mutations, States, Open
    <3>2. txs' = [i \in Txs |-> gone(i)]
      BY <2>2 DEF Crash
    <3> HIDE DEF gone
    <3>3. txs' \in [1 .. Len(txs) -> Mutations]
      BY <3>1, <3>2 DEF Txs
    <3>4. txs' \in Seq(Mutations) /\ Len(txs') = Len(txs)
      BY <1>1, <3>3, FunctionIsSequence
    <3>5. Txs' = Txs
      BY <3>4 DEF Txs
    <3> QED
      BY <3>1, <3>2, <3>4, <3>5
  <2> QED
    BY <2>1, <2>2
<1>3. CountersOk' /\ LogOk' /\ PushedOnce' /\ Txs \subseteq Txs'
  <2>1. spent' \in [{"remote", "faults", "crashes"} -> Nat]
    BY DEF PushInv, CountersOk, Drop, Crash, Spend
  <2> QED
    BY <1>1, <1>2, <2>1, TxsChange
<1>4. MessagesOk'
  <2>1. \A i : IsLogged(i) => IsLogged(i)'
    BY <1>1 DEF IsLogged
  <2>2. /\ IsSequence(toServer') /\ IsSequence(toClient')
        /\ ToSet(toServer') = {} /\ ToSet(toClient') = {}
    BY <1>1, EmptySet DEF LoseSocket
  <2>3. \A m \in late' : m \in ToSet(toServer) \cup late /\ m.type = "push"
    BY <1>1 DEF LoseSocket, PushesOf, PushInv, MessagesOk
  <2> QED
    BY <1>3, <2>1, <2>2, <2>3, MessagesChange DEF PushInv
<1>5. SentIsUp' /\ NoPushHangs'
  BY <1>2 DEF SentIsUp, NoPushHangs
<1> QED
  BY <1>3, <1>4, <1>5 DEF PushInv

\* The shard takes the first request from the socket.  What it answers keeps
\* the invariant when the log and the answer do.
LEMMA Handled ==
  ASSUME PushInv, toServer # <<>>, toServer' = Tail(toServer),
         UNCHANGED <<late, txs, up>>, CountersOk', LogOk', PushedOnce',
         \A i : IsLogged(i) => IsLogged(i)',
         IsSequence(toClient'), ToSet(toClient) \subseteq ToSet(toClient'),
         \A m \in ToSet(toClient') :
           \/ m \in ToSet(toClient)
           \/ m.type = "answer" => m.tx \in Txs /\ (m.ok => IsLogged(m.tx)'),
         \/ Head(toServer).type \notin {"push", "answer"}
         \/ \E m \in ToSet(toClient') : /\ m.type = "answer"
                                        /\ m.tx = Head(toServer).tx
                                        /\ m.attempt = Head(toServer).attempt
  PROVE  PushInv'
<1>1. /\ IsSequence(toServer') /\ Head(toServer) \in ToSet(toServer)
      /\ ToSet(toServer) = {Head(toServer)} \cup ToSet(toServer')
  BY HeadSet DEF PushInv, MessagesOk
<1>2. Txs' = Txs
  BY DEF Txs
<1>3. MessagesOk'
  BY <1>1, <1>2, MessagesChange DEF PushInv, MessagesOk
<1>4. SentIsUp'
  BY <1>2 DEF PushInv, SentIsUp
<1>5. NoPushHangs'
  <2> SUFFICES ASSUME NEW i \in Txs, txs[i].state = "sent"
               PROVE  \E m \in ToSet(toServer') \cup ToSet(toClient') :
                        /\ m.type \in {"push", "answer"} /\ m.tx = i
                        /\ m.attempt = txs[i].attempt
    BY <1>2 DEF NoPushHangs
  <2>1. PICK m \in ToSet(toServer) \cup ToSet(toClient) :
          m.type \in {"push", "answer"} /\ m.tx = i /\ m.attempt = txs[i].attempt
    BY DEF PushInv, NoPushHangs
  <2>2. CASE m \in ToSet(toServer') \cup ToSet(toClient')
    BY <2>1, <2>2
  <2>3. CASE m = Head(toServer)
    BY <2>1, <2>3
  <2> QED
    BY <1>1, <2>2, <2>3
<1> QED
  BY <1>3, <1>4, <1>5 DEF PushInv

LEMMA SameLog ==
  ASSUME PushInv, log' = log, txs' = txs,
         spent' \in [{"remote", "faults", "crashes"} -> Nat]
  PROVE  /\ CountersOk' /\ LogOk' /\ PushedOnce'
         /\ \A i : IsLogged(i) <=> IsLogged(i)'
<1>1. Txs' = Txs
  BY DEF Txs
<1> QED
  BY <1>1 DEF PushInv, CountersOk, LogOk, PushedOnce, IsLogged

LEMMA PushInvRefuse ==
  ASSUME PushInv, Refuse
  PROVE  PushInv'
<1> DEFINE push == Head(toServer)
           answer == Answer(push, FALSE)
<1>1. push \in ToSet(toServer) /\ push.tx \in Txs
  BY HeadSet DEF PushInv, MessagesOk, Refuse
<1>2. IsSequence(toClient') /\ ToSet(toClient') = ToSet(toClient) \cup {answer}
  BY AppendSet DEF PushInv, MessagesOk, Refuse
<1>3. /\ answer.type = "answer" /\ answer.tx = push.tx /\ answer.attempt = push.attempt
      /\ ~answer.ok
  BY DEF Answer
<1>4. /\ log' = log /\ UNCHANGED <<late, txs, up>>
      /\ toServer # <<>> /\ toServer' = Tail(toServer)
  BY DEF Refuse, shard
<1>5. spent' \in [{"remote", "faults", "crashes"} -> Nat]
  BY DEF PushInv, CountersOk, Refuse, Spend
<1>6. /\ CountersOk' /\ LogOk' /\ PushedOnce'
      /\ \A i : IsLogged(i) <=> IsLogged(i)'
  BY <1>4, <1>5, SameLog
<1> HIDE DEF push, answer
<1> QED
  BY <1>1, <1>2, <1>3, <1>4, <1>6, Handled DEF push

\* A push that was applied is accepted, and a new one enters the log once.
LEMMA PushInvHandlePush ==
  ASSUME PushInv, toServer # <<>>, toServer' = Tail(toServer),
         NEW push, push = Head(toServer), push.type = "push", HandlePush(push),
         UNCHANGED <<late, txs, up, spent>>
  PROVE  PushInv'
<1> DEFINE answer(ok) == Answer(push, ok)
<1>1. push \in ToSet(toServer) /\ push.tx \in Txs /\ push.id = push.tx
  BY HeadSet DEF PushInv, MessagesOk
<1>2. \A ok \in BOOLEAN : /\ answer(ok).type = "answer" /\ answer(ok).tx = push.tx
                          /\ answer(ok).attempt = push.attempt
                          /\ answer(ok).ok = ok
  BY DEF Answer
<1>3. \A i \in Txs : i \in Nat \ {0} /\ i <= MaxLocal
  BY LenProperties, OfflineAssumption DEF PushInv, CountersOk, Txs
<1>4. CASE IsApplied(push)
  <2>1. log' = log /\ toClient' = Append(toClient, answer(TRUE))
    BY <1>4 DEF HandlePush
  <2>2. /\ CountersOk' /\ LogOk' /\ PushedOnce'
        /\ \A i : IsLogged(i) <=> IsLogged(i)'
    BY <2>1, SameLog DEF PushInv, CountersOk
  <2>3. IsLogged(push.tx)
    BY <1>1, <1>3, <1>4, OfflineAssumption DEF IsApplied, PushInv, LogOk, IsLogged
  <2>4. IsSequence(toClient') /\ ToSet(toClient') = ToSet(toClient) \cup {answer(TRUE)}
    BY <2>1, AppendSet DEF PushInv, MessagesOk
  <2> HIDE DEF answer
  <2> QED
    BY <1>1, <1>2, <2>2, <2>3, <2>4, Handled
<1>5. CASE ~IsApplied(push) /\ Throws(push)
  <2>1. log' = log /\ toClient' = Append(toClient, answer(FALSE))
    BY <1>5 DEF HandlePush
  <2>2. /\ CountersOk' /\ LogOk' /\ PushedOnce'
        /\ \A i : IsLogged(i) <=> IsLogged(i)'
    BY <2>1, SameLog DEF PushInv, CountersOk
  <2>3. IsSequence(toClient') /\ ToSet(toClient') = ToSet(toClient) \cup {answer(FALSE)}
    BY <2>1, AppendSet DEF PushInv, MessagesOk
  <2> HIDE DEF answer
  <2> QED
    BY <1>1, <1>2, <2>2, <2>3, Handled
<1>6. CASE ~IsApplied(push) /\ ~Throws(push)
  <2> DEFINE change == Change(push)
             told == Broadcast(change)
  <2>1. log' = Append(log, change) /\ toClient' = toClient \o <<told, answer(TRUE)>>
    BY <1>6 DEF HandlePush
  <2>2. change.tx = push.tx /\ change.id = push.id /\ told.type = "updates"
    BY DEF Change, Broadcast
  <2>3. ~ \E n \in DOMAIN log : log[n].id = push.id
    BY <1>6 DEF IsApplied
  <2> HIDE DEF answer, change, told
  <2>4. CountersOk'
    BY DEF PushInv, CountersOk
  <2>5. /\ LogOk' /\ PushedOnce'
        /\ \A i : IsLogged(i) => IsLogged(i)'
        /\ IsLogged(push.tx)'
    BY <1>1, <2>1, <2>2, <2>3, LogGrows DEF PushInv
  <2>6. /\ IsSequence(toClient')
        /\ ToSet(toClient') = ToSet(toClient) \cup {told, answer(TRUE)}
    <3> DEFINE pair == <<told, answer(TRUE)>>
    <3>1. IsSequence(pair) /\ ToSet(pair) = {told, answer(TRUE)}
      BY PairSet
    <3>2. toClient' = toClient \o pair
      BY <2>1
    <3>3. IsSequence(toClient)
      BY DEF PushInv, MessagesOk
    <3> HIDE DEF pair
    <3> QED
      BY <3>1, <3>2, <3>3, ConcatSet
  <2> QED
    BY <1>1, <1>2, <2>2, <2>4, <2>5, <2>6, Handled
<1> QED
  BY <1>4, <1>5, <1>6

LEMMA PushInvHandle ==
  ASSUME PushInv, Handle
  PROVE  PushInv'
<1>1. /\ toServer # <<>> /\ toServer' = Tail(toServer)
      /\ UNCHANGED <<late, txs, up, spent>>
  BY DEF Handle
<1>2. CASE Head(toServer).type = "push" /\ HandlePush(Head(toServer))
  <2>1. PICK push : push = Head(toServer)
    OBVIOUS
  <2>2. push.type = "push" /\ HandlePush(push)
    BY <1>2, <2>1
  <2> QED
    BY <1>1, <2>1, <2>2, PushInvHandlePush
<1>3. CASE /\ Head(toServer).type \in {"read", "changes"} /\ log' = log
           /\ \E m : m.type \in {"rows", "changes"} /\ toClient' = Append(toClient, m)
  <2>1. PICK m : m.type \in {"rows", "changes"} /\ toClient' = Append(toClient, m)
    BY <1>3
  <2>2. IsSequence(toClient') /\ ToSet(toClient') = ToSet(toClient) \cup {m}
    BY <2>1, AppendSet DEF PushInv, MessagesOk
  <2>3. /\ CountersOk' /\ LogOk' /\ PushedOnce'
        /\ \A i : IsLogged(i) <=> IsLogged(i)'
    BY <1>1, <1>3, SameLog DEF PushInv, CountersOk
  <2> QED
    BY <1>1, <1>3, <2>1, <2>2, <2>3, Handled
<1>4. \/ Head(toServer).type = "push" /\ HandlePush(Head(toServer))
      \/ /\ Head(toServer).type \in {"read", "changes"} /\ log' = log
         /\ \E m : m.type \in {"rows", "changes"} /\ toClient' = Append(toClient, m)
  <2>1. [type |-> "rows", rows |-> Rows, watermark |-> Len(log)].type = "rows"
    OBVIOUS
  <2>2. [type |-> "changes", updates |-> Page(Head(toServer).cursor),
         watermark |-> Len(log)].type = "changes"
    OBVIOUS
  <2> QED
    BY <2>1, <2>2 DEF Handle
<1> QED
  BY <1>2, <1>3, <1>4

\* The log grows without an answer: a late push, or another client.
LEMMA Told ==
  ASSUME PushInv, NEW change, Publish(change), UNCHANGED <<toServer, txs, up>>,
         late' \subseteq late, spent' \in [{"remote", "faults", "crashes"} -> Nat],
         \/ /\ change.tx \in Txs /\ change.id = change.tx
            /\ ~ \E n \in DOMAIN log : log[n].id = change.id
         \/ change.tx = 0 /\ change.id \in Nat /\ change.id > MaxLocal
  PROVE  PushInv'
<1> DEFINE told == Broadcast(change)
<1>1. /\ log' = Append(log, change) /\ told.type = "updates"
      /\ toClient' = IF up THEN Append(toClient, told) ELSE toClient
  BY DEF Publish, Broadcast
<1> HIDE DEF told
<1>2. /\ LogOk' /\ PushedOnce'
      /\ \A i : IsLogged(i) => IsLogged(i)'
  BY <1>1, LogGrows DEF PushInv
<1>3. CountersOk' /\ Txs' = Txs
  BY DEF PushInv, CountersOk, Txs
<1>4. /\ IsSequence(toClient')
      /\ ToSet(toClient) \subseteq ToSet(toClient')
      /\ ToSet(toClient') \subseteq ToSet(toClient) \cup {told}
  BY <1>1, AppendSet DEF PushInv, MessagesOk
<1>5. MessagesOk'
  BY <1>1, <1>2, <1>3, <1>4, MessagesChange DEF PushInv, MessagesOk
<1>6. SentIsUp' /\ NoPushHangs'
  BY <1>3, <1>4 DEF PushInv, SentIsUp, NoPushHangs
<1> QED
  BY <1>2, <1>3, <1>5, <1>6 DEF PushInv

LEMMA PushInvRemote ==
  ASSUME PushInv, NEW k \in Keys, NEW type \in Types, Remote(k, type)
  PROVE  PushInv'
<1> DEFINE change == [key |-> k, type |-> type, id |-> MaxLocal + spent'.remote, tx |-> 0]
<1>1. /\ spent.remote \in Nat /\ spent'.remote = spent.remote + 1
      /\ spent' \in [{"remote", "faults", "crashes"} -> Nat]
  BY DEF PushInv, CountersOk, Remote, Spend
<1>2. change.tx = 0 /\ change.id \in Nat /\ change.id > MaxLocal
  BY <1>1, OfflineAssumption
<1>3. Publish(change) /\ UNCHANGED <<toServer, txs, up, late>>
  BY DEF Remote
<1> HIDE DEF change
<1> QED
  BY <1>1, <1>2, <1>3, Told

LEMMA PushInvHandleLate ==
  ASSUME PushInv, NEW push \in late, HandleLate(push)
  PROVE  PushInv'
<1>1. push.tx \in Txs /\ push.id = push.tx
  BY DEF PushInv, MessagesOk
<1>2. UNCHANGED <<toServer, txs, up, spent>> /\ late' \subseteq late
  BY DEF HandleLate
<1>3. CASE ~(IsApplied(push) \/ Throws(push))
  <2>1. Publish(Change(push))
    BY <1>3 DEF HandleLate
  <2>2. Change(push).tx = push.tx /\ Change(push).id = push.id
    BY DEF Change
  <2>3. ~ \E n \in DOMAIN log : log[n].id = push.id
    BY <1>3 DEF IsApplied
  <2>4. spent' \in [{"remote", "faults", "crashes"} -> Nat]
    BY <1>2 DEF PushInv, CountersOk
  <2> QED
    BY <1>1, <1>2, <2>1, <2>2, <2>3, <2>4, Told
<1>4. CASE IsApplied(push) \/ Throws(push)
  <2>1. UNCHANGED <<log, toClient>>
    BY <1>4 DEF HandleLate
  <2>2. /\ CountersOk' /\ LogOk' /\ PushedOnce' /\ Txs' = Txs
        /\ \A i : IsLogged(i) <=> IsLogged(i)'
    BY <1>2, <2>1, SameLog DEF PushInv, CountersOk, Txs
  <2>3. MessagesOk'
    BY <1>2, <2>1, <2>2, MessagesChange DEF PushInv, MessagesOk
  <2>4. SentIsUp' /\ NoPushHangs'
    BY <1>2, <2>1, <2>2 DEF PushInv, SentIsUp, NoPushHangs
  <2> QED
    BY <2>2, <2>3, <2>4 DEF PushInv
<1> QED
  BY <1>3, <1>4

\* The client takes the first message.  What it does keeps the invariant when
\* no mutation waits for that message any more.
LEMMA Taken ==
  ASSUME PushInv, toClient # <<>>, toClient' = Tail(toClient),
         UNCHANGED <<shard, up, toServer, spent>>,
         txs' \in Seq(Mutations), Len(txs') = Len(txs),
         \A i \in Txs : txs'[i].state = "done" => txs[i].state = "done" \/ IsLogged(i),
         \A i \in Txs : txs'[i].state = "sent" =>
           /\ txs[i].state = "sent" /\ txs'[i].attempt = txs[i].attempt
           /\ ~ /\ Head(toClient).type \in {"push", "answer"} /\ Head(toClient).tx = i
                /\ Head(toClient).attempt = txs[i].attempt
  PROVE  PushInv'
<1>1. /\ IsSequence(toClient')
      /\ ToSet(toClient) = {Head(toClient)} \cup ToSet(toClient')
  BY HeadSet DEF PushInv, MessagesOk
<1>2. Txs' = Txs /\ log' = log /\ late' = late
  BY DEF Txs, shard
<1>3. CountersOk' /\ LogOk' /\ PushedOnce' /\ Txs \subseteq Txs'
  <2>1. Len(txs) \in Nat /\ MaxLocal \in Nat /\ Len(txs) <= MaxLocal
    BY LenProperties, OfflineAssumption DEF PushInv, CountersOk
  <2>2. spent' \in [{"remote", "faults", "crashes"} -> Nat]
    BY DEF PushInv, CountersOk
  <2> QED
    BY <1>2, <2>1, <2>2, TxsChange
<1>4. MessagesOk'
  <2>1. \A i : IsLogged(i) => IsLogged(i)'
    BY <1>2 DEF IsLogged
  <2> QED
    BY <1>1, <1>2, <1>3, <2>1, MessagesChange DEF PushInv, MessagesOk
<1>5. SentIsUp'
  BY <1>2 DEF PushInv, SentIsUp
<1>6. NoPushHangs'
  <2> SUFFICES ASSUME NEW i \in Txs, txs'[i].state = "sent"
               PROVE  \E m \in ToSet(toServer') \cup ToSet(toClient') :
                        /\ m.type \in {"push", "answer"} /\ m.tx = i
                        /\ m.attempt = txs'[i].attempt
    BY <1>2 DEF NoPushHangs
  <2>1. PICK m \in ToSet(toServer) \cup ToSet(toClient) :
          m.type \in {"push", "answer"} /\ m.tx = i /\ m.attempt = txs[i].attempt
    BY DEF PushInv, NoPushHangs
  <2>2. m \in ToSet(toServer') \cup ToSet(toClient')
    BY <1>1, <2>1
  <2> QED
    BY <2>1, <2>2
<1> QED
  BY <1>3, <1>4, <1>5, <1>6 DEF PushInv

LEMMA PushInvDeliver ==
  ASSUME PushInv, Deliver
  PROVE  PushInv'
<1> DEFINE message == Head(toClient)
<1>1. /\ toClient # <<>> /\ toClient' = Tail(toClient)
      /\ UNCHANGED <<shard, up, toServer, spent>>
  BY DEF Deliver
<1>2. message \in ToSet(toClient)
  BY <1>1, HeadSet DEF PushInv, MessagesOk
<1>3. txs \in Seq(Mutations)
  BY DEF PushInv, CountersOk
<1>4. CASE message.type # "answer"
  <2>1. txs' = txs /\ message.type \in {"updates", "rows", "changes"}
    BY <1>4 DEF Deliver, Receive, LoadEager, Recover
  <2> HIDE DEF message
  <2> QED
    BY <1>1, <1>3, <2>1, Taken DEF message
<1>5. CASE message.type = "answer"
  <2> DEFINE i == message.tx
  <2>1. Answered(message)
    BY <1>5 DEF Deliver
  <2>2. i \in Txs /\ (message.ok => IsLogged(i))
    BY <1>2, <1>5 DEF PushInv, MessagesOk
  <2>3. CASE txs[i].state # "sent" \/ txs[i].attempt # message.attempt
    <3>1. txs' = txs
      BY <2>1, <2>3 DEF Answered
    <3> HIDE DEF message
    <3> QED
      BY <1>1, <1>3, <2>3, <3>1, Taken DEF message
  <2>4. CASE txs[i].state = "sent" /\ txs[i].attempt = message.attempt
    <3> DEFINE tx == [txs[i] EXCEPT !.state = IF message.ok THEN "done" ELSE "failed"]
    <3>1. txs' = [txs EXCEPT ![i] = tx]
      BY <2>1, <2>4 DEF Answered
    <3>2. /\ tx \in Mutations /\ tx.state # "sent"
          /\ tx.state = "done" => message.ok
      BY <1>3, <2>2, MutationAt DEF Mutations, States
    <3> HIDE DEF tx
    <3>3. /\ txs' \in Seq(Mutations) /\ Len(txs') = Len(txs)
          /\ \A j \in Txs : txs'[j] = IF j = i THEN tx ELSE txs[j]
      BY <1>3, <2>2, <3>1, <3>2, ExceptTx
    <3> HIDE DEF message
    <3>4. \A j \in Txs : txs'[j].state = "done" => txs[j].state = "done" \/ IsLogged(j)
      BY <2>2, <3>2, <3>3
    <3>5. \A j \in Txs : txs'[j].state = "sent" =>
            txs[j].state = "sent" /\ txs'[j].attempt = txs[j].attempt /\ i # j
      BY <3>2, <3>3
    <3> QED
      BY <1>1, <3>3, <3>4, <3>5, Taken DEF message
  <2> QED
    BY <2>3, <2>4
<1> QED
  BY <1>4, <1>5

-----------------------------------------------------------------------------
\* What holds of pushes and answers between any two events: the log has the
\* changes under their ids, the messages on their way are right, and every push
\* that waits has its request or its answer on the way.
THEOREM PushInvariance == Spec => []PushInv
<1>1. Init => PushInv
  BY PushInvInit
<1>2. PushInv /\ [Next]_vars => PushInv'
  <2> SUFFICES ASSUME PushInv, [Next]_vars
               PROVE  PushInv'
    OBVIOUS
  <2>1. CASE Start \/ Hydrate \/ Connect \/ Load \/ Stored \/ Perform
    BY <2>1, PushInvAside
  <2>2. CASE Deliver
    BY <2>2, PushInvDeliver
  <2>3. CASE \E i \in Txs : SendPush(i)
    BY <2>3, PushInvSendPush
  <2>4. CASE \E k \in Keys, type \in Types : Mutate(k, type) \/ Remote(k, type)
    BY <2>4, PushInvMutate, PushInvRemote
  <2>5. CASE \E push \in late : HandleLate(push)
    BY <2>5, PushInvHandleLate
  <2>6. CASE \E i \in Txs : Timeout(i) \/ OpenFails(i)
    BY <2>6, PushInvGivesUp
  <2>7. CASE Refuse
    BY <2>7, PushInvRefuse
  <2>8. CASE Drop \/ Crash
    BY <2>8, PushInvLost
  <2>9. CASE Handle
    BY <2>9, PushInvHandle
  <2>10. CASE UNCHANGED vars
    <3>1. UNCHANGED <<shard, up, toServer, toClient, txs, spent>>
      BY <2>10 DEF vars, shard
    <3> QED
      BY <3>1, Aside DEF PushInv, MessagesOk
  <2> QED
    BY <2>1, <2>2, <2>3, <2>4, <2>5, <2>6, <2>7, <2>8, <2>9, <2>10
    DEF Next, Client, Environment
<1> QED
  BY <1>1, <1>2, PTL DEF Spec

\* However often a push is sent again, and whenever it arrives, its change is in
\* the log once, and an accepted one is there (client.push, createBatch).
THEOREM PushedOnceHolds == Spec => []PushedOnce
<1>1. PushInv => PushedOnce
  BY DEF PushInv
<1> QED
  BY <1>1, PushInvariance, PTL

\* A push that waits for an answer has it, or its request, on the way: no lost
\* socket leaves one waiting for ever (rejectPending).
THEOREM NoPushHangsHolds == Spec => []NoPushHangs
<1>1. PushInv => NoPushHangs
  BY DEF PushInv
<1> QED
  BY <1>1, PushInvariance, PTL

-----------------------------------------------------------------------------
(* The parts of the invariant of the rows, over a log L, the held (that is,*)
(* buffered) updates h and the messages w on their way to the client.      *)

Changes == [key : Keys, type : Types, id : Nat \ {0}, tx : Nat]
Value(c) == IF c.type = "delete" THEN 0 ELSE c.id

\* Row k is v after the first n changes of the log.
IsRow(L, n, k, v) ==
  \/ v = 0 /\ \A j \in 1 .. n : L[j].key # k
  \/ \E m \in 1 .. n : /\ L[m].key = k /\ v = Value(L[m])
                       /\ \A j \in m + 1 .. n : L[j].key # k
RowsAre(L, n, rows) == rows \in [Keys -> Nat] /\ \A k \in Keys : IsRow(L, n, k, rows[k])

\* An update tells of a change in the log.
TellsOf(L, u) ==
  /\ u.seq \in 1 .. Len(L)
  /\ u.key = L[u.seq].key /\ u.type = L[u.seq].type /\ u.id = L[u.seq].id

IsUpdate(w, i) == i \in DOMAIN w /\ w[i].type = "updates"
SeqAt(w, i) == w[i].update.seq
OnWire(w, n) == \E i \in DOMAIN w : IsUpdate(w, i) /\ SeqAt(w, i) = n
Held(h, n) == \E i \in DOMAIN h : h[i].seq = n
Past(w, n) == \A i \in DOMAIN w : IsUpdate(w, i) => n < SeqAt(w, i)
Reached(L, w, n) == \A m \in n + 1 .. Len(L) : OnWire(w, m)

\* Held updates and those on the way are in the order of the log.
StreamOk(L, h, w) ==
  /\ IsSequence(h) /\ IsSequence(w)
  /\ \A i \in DOMAIN h : TellsOf(L, h[i])
  /\ \A i \in DOMAIN w : IsUpdate(w, i) => TellsOf(L, w[i].update)
  /\ \A i, j \in DOMAIN h : i < j => h[i].seq < h[j].seq
  /\ \A i, j \in DOMAIN w :
       IsUpdate(w, i) /\ IsUpdate(w, j) /\ i < j => SeqAt(w, i) < SeqAt(w, j)
  /\ \A i \in DOMAIN h : Past(w, h[i].seq)

\* An answer came from the log when it had reached the watermark: just what is
\* on the way behind it is later, and all that is later is on the way.
Answers == {"rows", "changes"}
AnswerOk(L, w, i) ==
  /\ w[i].watermark \in 0 .. Len(L)
  /\ Reached(L, w, w[i].watermark)
  /\ \A j \in DOMAIN w : IsUpdate(w, j) => (i < j <=> w[i].watermark < SeqAt(w, j))
PageOk(L, page, m, n) ==
  /\ IsSequence(page) /\ DOMAIN page = 1 .. n - m
  /\ \A j \in DOMAIN page : TellsOf(L, page[j]) /\ page[j].seq = m + j
AnswersOk(L, w, from) ==
  /\ \A i, j \in DOMAIN w : w[i].type \in Answers /\ w[j].type \in Answers => i = j
  /\ \A i \in DOMAIN w : w[i].type = "rows" =>
       AnswerOk(L, w, i) /\ RowsAre(L, w[i].watermark, w[i].rows)
  /\ \A i \in DOMAIN w : w[i].type = "changes" =>
       /\ AnswerOk(L, w, i) /\ from <= w[i].watermark
       /\ PageOk(L, w[i].updates, from, w[i].watermark)

\* The one request besides the pushes is the one that the session waits for.
RequestsOk(r, w, at, from) ==
  /\ \A i \in DOMAIN r : \/ r[i].type = "push"
                         \/ r[i].type = "read" /\ at = "loading"
                         \/ r[i].type = "changes" /\ at = "recovering" /\ r[i].cursor = from
  /\ \A i, j \in DOMAIN r : r[i].type # "push" /\ r[j].type # "push" => i = j
  /\ \A i \in DOMAIN w : \/ w[i].type \in {"updates", "answer"}
                         \/ w[i].type = "rows" /\ at = "loading"
                         \/ w[i].type = "changes" /\ at = "recovering"
  /\ \A i \in DOMAIN r, j \in DOMAIN w : r[i].type # "push" => w[j].type \notin Answers

OnSocket == {"loading", "storing", "synced", "recovering"}
SocketOk(at, on, r, w) ==
  /\ at \in OnSocket \cup {"closed", "hydrating", "subscribing", "disconnected"}
  /\ on \in BOOLEAN
  /\ on => at \notin {"closed", "disconnected"}
  /\ ~on => at \notin OnSocket /\ r = <<>> /\ w = <<>>

\* The rows are those of the shard at the cursor; what a session that is
\* synced lacks is on the way, or held until its rows are stored.
WithRows == {"storing", "synced", "disconnected", "recovering"}
RowsOk(L, h, w, at, n, rows) ==
  /\ at \in WithRows => n \in 0 .. Len(L) /\ RowsAre(L, n, rows)
  /\ at = "synced" => h = <<>>
  /\ at \in {"storing", "synced"} => \A m \in n + 1 .. Len(L) : OnWire(w, m) \/ Held(h, m)
  /\ at \in {"storing", "synced", "recovering"} => Past(w, n)

\* The change of a local mutation is what the mutation says.
EntriesOk(L, ts) ==
  /\ L \in Seq(Changes)
  /\ \A n \in DOMAIN L : L[n].tx # 0 =>
       L[n].tx \in DOMAIN ts /\ L[n].key = ts[L[n].tx].key /\ L[n].type = ts[L[n].tx].type
  /\ \A i \in DOMAIN ts : ts[i].id = i /\ ts[i].attempt # 0

\* The operations of the cache.
PutOps == UNION {[op : {"put"}, rows : [K -> Nat]] : K \in SUBSET Keys}
DeleteOps == [op : {"delete"}, keys : SUBSET Keys]
ReplaceOps == [op : {"replace"}, rows : [Keys -> Nat]]
Ops == PutOps \cup DeleteOps \cup ReplaceOps

\* The shard's log, what the collection holds and what is between them.
ConnOk(L, h, w, r, at, on, n, rows) ==
  /\ StreamOk(L, h, w) /\ AnswersOk(L, w, n) /\ RequestsOk(r, w, at, n)
  /\ SocketOk(at, on, r, w) /\ RowsOk(L, h, w, at, n, rows)

SyncInv ==
  /\ EntriesOk(log, txs) /\ queue \in Seq(Ops)
  /\ ConnOk(log, buffered, toClient, toServer, session, up, cursor, synced)

-----------------------------------------------------------------------------
\* The rest of a sequence, by position.
LEMMA TailAt ==
  ASSUME NEW s, IsSequence(s), s # <<>>
  PROVE  /\ IsSequence(Tail(s)) /\ Head(s) = s[1]
         /\ Len(s) \in Nat \ {0} /\ DOMAIN s = 1 .. Len(s) /\ 1 \in DOMAIN s
         /\ DOMAIN Tail(s) = 1 .. Len(s) - 1
         /\ \A i \in DOMAIN Tail(s) : i + 1 \in DOMAIN s /\ Tail(s)[i] = s[i + 1]
         /\ \A i \in DOMAIN s : i # 1 => i - 1 \in DOMAIN Tail(s) /\ Tail(s)[i - 1] = s[i]
<1>1. /\ Tail(s) \in Seq(ToSet(s))
      /\ Len(Tail(s)) = Len(s) - 1
      /\ \A i \in 1 .. Len(Tail(s)) : Tail(s)[i] = s[i + 1]
  BY HeadTailProperties DEF IsSequence
<1>2. /\ Len(s) \in Nat \ {0} /\ DOMAIN s = 1 .. Len(s)
      /\ DOMAIN Tail(s) = 1 .. Len(s) - 1
  BY <1>1, LenProperties, EmptySeq DEF IsSequence
<1>3. Head(s) = s[1] /\ IsSequence(Tail(s))
  BY HeadSet DEF IsSequence
<1>4. \A i \in DOMAIN Tail(s) : i + 1 \in DOMAIN s /\ Tail(s)[i] = s[i + 1]
  BY <1>1, <1>2
<1>5. ASSUME NEW i \in DOMAIN s, i # 1
      PROVE  i - 1 \in DOMAIN Tail(s) /\ Tail(s)[i - 1] = s[i]
  <2>1. i - 1 \in 1 .. Len(s) - 1 /\ (i - 1) + 1 = i
    BY <1>2, <1>5
  <2> QED
    BY <1>1, <1>2, <2>1
<1>6. 1 \in DOMAIN s
  BY <1>2
<1> QED
  BY <1>2, <1>3, <1>4, <1>5, <1>6

LEMMA EmptyAt == IsSequence(<<>>) /\ DOMAIN <<>> = {} /\ Len(<<>>) = 0
BY EmptySet

LEMMA LogAt ==
  ASSUME NEW L \in Seq(Changes)
  PROVE  /\ Len(L) \in Nat /\ DOMAIN L = 1 .. Len(L)
         /\ \A n \in 1 .. Len(L) : /\ L[n].key \in Keys /\ L[n].type \in Types
                                   /\ L[n].id \in Nat \ {0} /\ L[n].tx \in Nat
                                   /\ Value(L[n]) \in Nat
<1>1. Len(L) \in Nat /\ DOMAIN L = 1 .. Len(L)
  BY LenProperties
<1>2. ASSUME NEW n \in 1 .. Len(L)
      PROVE  /\ L[n].key \in Keys /\ L[n].type \in Types
             /\ L[n].id \in Nat \ {0} /\ L[n].tx \in Nat /\ Value(L[n]) \in Nat
  <2>1. L[n] \in Changes
    BY ElementOfSeq
  <2> QED
    BY <2>1 DEF Changes, Value
<1> QED
  BY <1>1, <1>2

LEMMA LogGrown ==
  ASSUME NEW L \in Seq(Changes), NEW c \in Changes
  PROVE  /\ Append(L, c) \in Seq(Changes) /\ Len(Append(L, c)) = Len(L) + 1
         /\ \A n \in 1 .. Len(L) : Append(L, c)[n] = L[n]
         /\ Append(L, c)[Len(L) + 1] = c
BY AppendProperties

-----------------------------------------------------------------------------
(* The rows of a log.                                                      *)
LEMMA RowsUnique ==
  ASSUME NEW L \in Seq(Changes), NEW n \in 0 .. Len(L), NEW r, NEW s,
         RowsAre(L, n, r), RowsAre(L, n, s)
  PROVE  r = s
<1>1. Len(L) \in Nat /\ n \in Nat
  BY LogAt
<1>2. ASSUME NEW k \in Keys
      PROVE  r[k] = s[k]
  <2>1. IsRow(L, n, k, r[k]) /\ IsRow(L, n, k, s[k])
    BY DEF RowsAre
  <2>2. ASSUME NEW l \in 1 .. n, NEW m \in 1 .. n,
               L[l].key = k, \A j \in l + 1 .. n : L[j].key # k,
               L[m].key = k, \A j \in m + 1 .. n : L[j].key # k
        PROVE  l = m
    <3>1. ~(l < m) /\ ~(m < l)
      BY <1>1, <2>2
    <3> QED
      BY <1>1, <3>1
  <2> QED
    BY <2>1, <2>2 DEF IsRow
<1> QED
  BY <1>2 DEF RowsAre

LEMMA RowsAtNone ==
  ASSUME NEW L
  PROVE  RowsAre(L, 0, NoRows)
BY DEF RowsAre, IsRow, NoRows

LEMMA RowsNext ==
  ASSUME NEW L \in Seq(Changes), NEW n \in Nat, n + 1 <= Len(L), NEW r, RowsAre(L, n, r),
         NEW s, s = [r EXCEPT ![L[n + 1].key] = Value(L[n + 1])]
  PROVE  RowsAre(L, n + 1, s)
<1> DEFINE c == L[n + 1]
<1>1. n + 1 \in 1 .. Len(L) /\ c.key \in Keys /\ Value(c) \in Nat
  BY LogAt
<1>2. s \in [Keys -> Nat] /\ \A k \in Keys : s[k] = IF k = c.key THEN Value(c) ELSE r[k]
  BY <1>1 DEF RowsAre
<1>3. ASSUME NEW k \in Keys
      PROVE  IsRow(L, n + 1, k, s[k])
  <2>1. CASE k = c.key
    <3>1. /\ n + 1 \in 1 .. n + 1 /\ L[n + 1].key = k /\ s[k] = Value(L[n + 1])
          /\ \A j \in (n + 1) + 1 .. n + 1 : L[j].key # k
      BY <1>2, <2>1
    <3> QED
      BY <3>1 DEF IsRow
  <2>2. CASE k # c.key
    <3>1. s[k] = r[k] /\ IsRow(L, n, k, r[k])
      BY <1>2, <2>2 DEF RowsAre
    <3>2. CASE r[k] = 0 /\ \A j \in 1 .. n : L[j].key # k
      <4>1. \A j \in 1 .. n + 1 : L[j].key # k
        BY <2>2, <3>2
      <4> QED
        BY <3>1, <3>2, <4>1 DEF IsRow
    <3>3. CASE \E m \in 1 .. n : /\ L[m].key = k /\ r[k] = Value(L[m])
                                 /\ \A j \in m + 1 .. n : L[j].key # k
      <4>1. PICK m \in 1 .. n : /\ L[m].key = k /\ r[k] = Value(L[m])
                                /\ \A j \in m + 1 .. n : L[j].key # k
        BY <3>3
      <4>2. m \in 1 .. n + 1 /\ \A j \in m + 1 .. n + 1 : L[j].key # k
        BY <2>2, <4>1
      <4> QED
        BY <3>1, <4>1, <4>2 DEF IsRow
    <3> QED
      BY <3>1, <3>2, <3>3 DEF IsRow
  <2> QED
    BY <2>1, <2>2
<1> QED
  BY <1>2, <1>3 DEF RowsAre

\* The log grows.
LEMMA RowsStay ==
  ASSUME NEW L \in Seq(Changes), NEW M, \A n \in 1 .. Len(L) : M[n] = L[n],
         NEW n \in 0 .. Len(L), NEW r, RowsAre(L, n, r)
  PROVE  RowsAre(M, n, r)
<1>1. Len(L) \in Nat /\ n \in Nat /\ n <= Len(L)
  BY LogAt
<1>2. \A j \in 1 .. n : M[j] = L[j]
  BY <1>1
<1>3. \A m \in 1 .. n : \A j \in m + 1 .. n : j \in 1 .. n
  BY <1>1
<1> QED
  BY <1>2, <1>3 DEF RowsAre, IsRow

(* What Written leaves: the rows after each of the changes.                *)
IsWritten(t, rows, changes, n) ==
  /\ t[0] = rows
  /\ \A i \in 1 .. n : t[i] = [t[i - 1] EXCEPT ![changes[i].key] = Value(changes[i])]
EndsWritten(end, X, rows, changes, n) ==
  \E t \in [0 .. n -> X] : IsWritten(t, rows, changes, n) /\ t[n] = end

LEMMA WrittenTrace ==
  ASSUME NEW n \in Nat, NEW X, NEW rows \in X, NEW changes, DOMAIN changes = 1 .. n,
         \A r \in X, i \in 1 .. n : [r EXCEPT ![changes[i].key] = Value(changes[i])] \in X
  PROVE  EndsWritten(Written(rows, changes), X, rows, changes, n)
<1> DEFINE step == [p \in X \X (1 .. n) |->
                      [p[1] EXCEPT ![changes[p[2]].key] = Value(changes[p[2]])]]
           D(f) == [s \in SUBSET (DOMAIN changes) |->
                      IF s = {} THEN rows
                      ELSE LET x == Max(s) IN
                           [f[s \ {x}] EXCEPT ![changes[x].key] =
                              IF changes[x].type = "delete" THEN 0 ELSE changes[x].id]]
           E(f) == [s \in SUBSET (1 .. n) |->
                      IF s = {} THEN rows
                      ELSE [f[s \ {Max(s)}] EXCEPT
                              ![changes[Max(s)].key] = Value(changes[Max(s)])]]
           fold == CHOOSE f : f = D(f)
<1>1. step \in [X \X (1 .. n) -> X]
  OBVIOUS
<1>2. \A r \in X, i \in 1 .. n :
        step[<<r, i>>] = [r EXCEPT ![changes[i].key] = Value(changes[i])]
  OBVIOUS
<1> HIDE DEF step
<1>3. PICK it \in [SUBSET (1 .. n) -> X] : IsFold(it, rows, step, n)
  BY <1>1, FoldExists
<1>4. Written(rows, changes) = fold[1 .. n]
  BY DEF Written, FoldLeft, MapThenFoldSet
<1>5. \A f : D(f) = E(f)
  BY Zenon DEF Value
<1>6. it = E(it)
  <2>1. \A s \in SUBSET (1 .. n) : s # {} =>
          Max(s) \in 1 .. n /\ s \ {Max(s)} \in SUBSET (1 .. n)
    BY WithoutMax
  <2>2. ASSUME NEW s \in SUBSET (1 .. n)
        PROVE  it[s] = E(it)[s]
    <3>1. CASE s = {}
      BY <1>3, <3>1 DEF IsFold
    <3>2. CASE s # {}
      <4>1. it[s] = step[<<it[s \ {Max(s)}], Max(s)>>]
        BY <1>3, <3>2 DEF IsFold
      <4> QED
        BY <1>2, <1>3, <2>1, <4>1, <3>2
    <3> QED
      BY <3>1, <3>2
  <2> QED
    BY <1>3, <2>2
<1>7. fold = E(fold)
  <2> HIDE DEF D, E
  <2>1. \E f : f = D(f)
    BY <1>5, <1>6
  <2> QED
    BY <1>5, <2>1
<1> HIDE DEF fold
<1>8. fold[{}] = rows
  <2>1. {} \in SUBSET (1 .. n)
    OBVIOUS
  <2> QED
    BY <1>7, <2>1
<1>9. ASSUME NEW s \in SUBSET (1 .. n), s # {}, fold[s \ {Max(s)}] \in X
      PROVE  fold[s] = step[<<fold[s \ {Max(s)}], Max(s)>>]
  <2>1. Max(s) \in 1 .. n
    BY <1>9, WithoutMax
  <2>2. fold[s] = [fold[s \ {Max(s)}] EXCEPT ![changes[Max(s)].key] = Value(changes[Max(s)])]
    BY <1>7, <1>9
  <2> QED
    BY <1>2, <1>9, <2>1, <2>2
<1>10. FoldsOn(fold, X, rows, step, n)
  BY <1>8, <1>9 DEF FoldsOn
<1>11. EndsTrace(fold[1 .. n], X, rows, step, n)
  BY <1>1, <1>10, FoldTrace
<1>12. PICK t \in [0 .. n -> X] : IsTrace(t, rows, step, n) /\ t[n] = fold[1 .. n]
  BY <1>11 DEF EndsTrace
<1>13. \A i \in 1 .. n : t[i - 1] \in X
  OBVIOUS
<1> QED
  BY <1>2, <1>4, <1>12, <1>13 DEF IsTrace, IsWritten, EndsWritten

(* The rows of a log, written on.                                          *)
LEMMA WrittenOn ==
  ASSUME NEW L \in Seq(Changes), NEW m \in Nat, NEW n \in Nat, m + n <= Len(L),
         NEW rows, RowsAre(L, m, rows), NEW changes, DOMAIN changes = 1 .. n,
         \A i \in 1 .. n : /\ changes[i].key = L[m + i].key
                           /\ Value(changes[i]) = Value(L[m + i])
  PROVE  RowsAre(L, m + n, Written(rows, changes))
<1> DEFINE X == [Keys -> Nat]
<1>1. Len(L) \in Nat /\ \A i \in 1 .. n : m + i \in 1 .. Len(L)
  BY LogAt
<1>2. \A i \in 1 .. n : changes[i].key \in Keys /\ Value(changes[i]) \in Nat
  BY <1>1, LogAt
<1>3. \A r \in X, i \in 1 .. n : [r EXCEPT ![changes[i].key] = Value(changes[i])] \in X
  BY <1>2
<1>4. rows \in X
  BY DEF RowsAre
<1>5. PICK t \in [0 .. n -> X] :
        IsWritten(t, rows, changes, n) /\ t[n] = Written(rows, changes)
  <2> HIDE DEF X
  <2>1. EndsWritten(Written(rows, changes), X, rows, changes, n)
    BY <1>3, <1>4, WrittenTrace
  <2> QED
    BY <2>1 DEF EndsWritten
<1> DEFINE bad == {i \in 0 .. n : ~RowsAre(L, m + i, t[i])}
<1> HIDE DEF X
<1>6. bad = {}
  <2> SUFFICES ASSUME bad # {} PROVE FALSE
    OBVIOUS
  <2>1. bad \in SUBSET Nat
    OBVIOUS
  <2>2. PICK i \in bad : \A j \in bad : i <= j
    BY <2>1, LeastNumber
  <2>3. i # 0
    <3>1. t[0] = rows /\ m + 0 = m
      BY <1>5 DEF IsWritten
    <3> QED
      BY <3>1
  <2>4. i \in 1 .. n /\ i - 1 \in 0 .. n /\ i - 1 \notin bad
    BY <2>2, <2>3
  <2>5. RowsAre(L, m + (i - 1), t[i - 1])
    BY <2>4
  <2>6. t[i] = [t[i - 1] EXCEPT ![L[m + i].key] = Value(L[m + i])]
    BY <1>5, <2>4 DEF IsWritten
  <2>7. m + (i - 1) \in Nat /\ (m + (i - 1)) + 1 = m + i /\ m + i <= Len(L)
    BY <1>1, <2>4
  <2>8. RowsAre(L, m + i, t[i])
    BY <2>5, <2>6, <2>7, RowsNext
  <2> QED
    BY <2>2, <2>8
<1>7. n \in 0 .. n /\ n \notin bad
  BY <1>6
<1>8. RowsAre(L, m + n, t[n])
  BY <1>7
<1> QED
  BY <1>5, <1>8

LEMMA RowsOfLog ==
  ASSUME log \in Seq(Changes)
  PROVE  RowsAre(log, Len(log), Rows)
<1>1. Len(log) \in Nat /\ DOMAIN log = 1 .. Len(log)
  BY LogAt
<1>2. \A i \in 1 .. Len(log) : log[0 + i].key = log[i].key /\ Value(log[0 + i]) = Value(log[i])
  OBVIOUS
<1>3. RowsAre(log, 0, NoRows) /\ 0 \in Nat /\ 0 + Len(log) <= Len(log)
  BY <1>1, RowsAtNone
<1>4. RowsAre(log, 0 + Len(log), Written(NoRows, log))
  BY ONLY <1>1, <1>2, <1>3, WrittenOn, log \in Seq(Changes)
<1>5. 0 + Len(log) = Len(log)
  BY <1>1
<1> QED
  BY <1>4, <1>5 DEF Rows

-----------------------------------------------------------------------------
(* The operations of the cache that changes lead to.                       *)
LEMMA OpsAre ==
  /\ \A K \in SUBSET Keys : \A rows \in [K -> Nat] : PutOp(rows) \in Seq(Ops)
  /\ \A K \in SUBSET Keys : DeleteOp(K) \in Seq(Ops)
  /\ \A rows \in [Keys -> Nat] : ReplaceOp(rows) \in Seq(Ops)
<1>1. <<>> \in Seq(Ops) /\ \A op \in Ops : <<op>> \in Seq(Ops)
  OBVIOUS
<1>2. ASSUME NEW K \in SUBSET Keys, NEW rows \in [K -> Nat]
      PROVE  PutOp(rows) \in Seq(Ops)
  <2>1. [op |-> "put", rows |-> rows] \in Ops
    BY DEF Ops, PutOps
  <2> QED
    BY <1>1, <2>1 DEF PutOp
<1>3. ASSUME NEW K \in SUBSET Keys
      PROVE  DeleteOp(K) \in Seq(Ops)
  <2>1. [op |-> "delete", keys |-> K] \in Ops
    BY DEF Ops, DeleteOps
  <2> QED
    BY <1>1, <2>1 DEF DeleteOp
<1>4. ASSUME NEW rows \in [Keys -> Nat]
      PROVE  ReplaceOp(rows) \in Seq(Ops)
  <2>1. [op |-> "replace", rows |-> rows] \in Ops
    BY DEF Ops, ReplaceOps
  <2> QED
    BY <1>1, <2>1 DEF ReplaceOp
<1> QED
  BY <1>2, <1>3, <1>4

LEMMA ViewIs ==
  ASSUME txs \in Seq(Mutations), NEW rows \in [Keys -> Nat], NEW k \in Keys
  PROVE  /\ View(rows, k) \in Nat
         /\ (\A i \in Txs : txs[i].key = k => txs[i].state \notin Open) =>
               View(rows, k) = rows[k]
<1> DEFINE mine == {i \in Txs : txs[i].key = k /\ txs[i].state \in Open}
           last == CHOOSE i \in mine : \A j \in mine : j <= i
<1>1. View(rows, k) = IF mine = {} THEN rows[k]
                      ELSE IF txs[last].type = "delete" THEN 0 ELSE txs[last].id
  BY DEF View
<1>2. ASSUME mine # {}
      PROVE  txs[last].id \in Nat
  <2>1. Len(txs) \in Nat
    BY LenProperties
  <2>2. mine \in SUBSET Nat /\ \A i \in mine : i <= Len(txs)
    BY <2>1 DEF Txs
  <2>3. \E i \in mine : \A j \in mine : j <= i
    BY <1>2, <2>1, <2>2, GreatestNumber
  <2>4. last \in Txs
    BY <2>3
  <2>5. txs[last] \in Mutations
    BY <2>4, MutationAt
  <2> QED
    BY <2>5 DEF Mutations
<1>3. rows[k] \in Nat
  OBVIOUS
<1>4. (\A i \in Txs : txs[i].key = k => txs[i].state \notin Open) => mine = {}
  OBVIOUS
<1> HIDE DEF mine, last
<1> QED
  BY <1>1, <1>2, <1>3, <1>4

LEMMA PersistIs ==
  ASSUME txs \in Seq(Mutations), NEW rows \in [Keys -> Nat], NEW changes,
         \A c \in ToSet(changes) : c.key \in Keys
  PROVE  PersistChanges(rows, changes) \in Seq(Ops)
<1> DEFINE put == {k \in Keys : /\ View(rows, k) # 0
                                /\ \E c \in ToSet(changes) : c.type # "delete" /\ c.key = k}
           written == [k \in put |-> View(rows, k)]
           deleted == {c.key : c \in {c \in ToSet(changes) : c.type = "delete"}}
<1>1. PersistChanges(rows, changes) = PutOp(written) \o DeleteOp(deleted)
  BY DEF PersistChanges
<1>2. put \in SUBSET Keys /\ written \in [put -> Nat]
  BY ViewIs
<1>3. deleted \in SUBSET Keys
  OBVIOUS
<1> HIDE DEF written, deleted, put
<1>4. PutOp(written) \in Seq(Ops) /\ DeleteOp(deleted) \in Seq(Ops)
  BY <1>2, <1>3, OpsAre
<1> QED
  BY <1>1, <1>4, ConcatProperties

-----------------------------------------------------------------------------
(* What the cache ends with when its queue has been performed.             *)
Touches(op, k) == \/ op.op = "put" /\ k \in DOMAIN op.rows
                  \/ op.op = "delete" /\ k \in op.keys
                  \/ op.op = "replace"
ValueIn(op, k) == IF op.op = "delete" THEN 0 ELSE op.rows[k]

\* The last operation on row k leaves v, or none touches it and it is v.
Ends(q, c, k, v) ==
  \/ c[k] = v /\ \A i \in DOMAIN q : ~Touches(q[i], k)
  \/ \E i \in DOMAIN q : /\ Touches(q[i], k) /\ ValueIn(q[i], k) = v
                         /\ \A j \in DOMAIN q : i < j => ~Touches(q[j], k)

LEMMA EndsAppend ==
  ASSUME NEW q \in Seq(Ops), NEW op \in Ops, NEW c, NEW k
  PROVE  /\ Append(q, op) \in Seq(Ops)
         /\ Touches(op, k) => Ends(Append(q, op), c, k, ValueIn(op, k))
         /\ \A v : ~Touches(op, k) /\ Ends(q, c, k, v) => Ends(Append(q, op), c, k, v)
<1> DEFINE p == Append(q, op)
<1>1. /\ Len(q) \in Nat /\ DOMAIN q = 1 .. Len(q)
      /\ p \in Seq(Ops) /\ Len(p) = Len(q) + 1
      /\ \A i \in 1 .. Len(q) : p[i] = q[i]
      /\ p[Len(q) + 1] = op
  BY AppendProperties, LenProperties
<1>2. DOMAIN p = 1 .. Len(q) + 1
  BY <1>1, LenProperties
<1> HIDE DEF p
<1>3. ASSUME Touches(op, k)
      PROVE  Ends(p, c, k, ValueIn(op, k))
  <2>1. /\ Len(q) + 1 \in DOMAIN p
        /\ \A j \in DOMAIN p : ~(Len(q) + 1 < j)
    BY <1>1, <1>2
  <2>2. Touches(p[Len(q) + 1], k) /\ ValueIn(p[Len(q) + 1], k) = ValueIn(op, k)
    BY <1>1, <1>3
  <2> QED
    BY <2>1, <2>2 DEF Ends
<1>4. ASSUME NEW v, ~Touches(op, k), Ends(q, c, k, v)
      PROVE  Ends(p, c, k, v)
  <2>1. \A j \in DOMAIN p : j \in DOMAIN q \/ ~Touches(p[j], k)
    BY <1>1, <1>2, <1>4
  <2>2. \A j \in DOMAIN q : j \in DOMAIN p /\ p[j] = q[j]
    BY <1>1, <1>2
  <2>3. CASE c[k] = v /\ \A i \in DOMAIN q : ~Touches(q[i], k)
    BY <2>1, <2>2, <2>3 DEF Ends
  <2>4. CASE \E i \in DOMAIN q : /\ Touches(q[i], k) /\ ValueIn(q[i], k) = v
                                 /\ \A j \in DOMAIN q : i < j => ~Touches(q[j], k)
    <3>1. PICK i \in DOMAIN q : /\ Touches(q[i], k) /\ ValueIn(q[i], k) = v
                                /\ \A j \in DOMAIN q : i < j => ~Touches(q[j], k)
      BY <2>4
    <3>2. i \in DOMAIN p /\ p[i] = q[i]
      BY <2>2
    <3>3. \A j \in DOMAIN p : i < j => ~Touches(p[j], k)
      BY <2>1, <2>2, <3>1
    <3>4. Touches(p[i], k) /\ ValueIn(p[i], k) = v
      BY <3>1, <3>2
    <3> QED
      BY <3>2, <3>3, <3>4 DEF Ends
  <2> QED
    BY <1>4, <2>3, <2>4 DEF Ends
<1> QED
  BY <1>1, <1>3, <1>4 DEF p

\* The first operation is performed.
LEMMA EndsTail ==
  ASSUME NEW q \in Seq(Ops), q # <<>>, NEW c, NEW d, NEW k, NEW v, Ends(q, c, k, v),
         d[k] = IF Touches(Head(q), k) THEN ValueIn(Head(q), k) ELSE c[k]
  PROVE  Ends(Tail(q), d, k, v)
<1> DEFINE p == Tail(q)
<1>0. IsSequence(q)
  BY SeqOfRange DEF IsSequence, ToSet, Range
<1>1. /\ 1 \in DOMAIN q /\ Head(q) = q[1]
      /\ \A i \in DOMAIN p : i + 1 \in DOMAIN q /\ p[i] = q[i + 1]
      /\ \A i \in DOMAIN q : i # 1 => i - 1 \in DOMAIN p /\ p[i - 1] = q[i]
  BY <1>0, TailAt
<1>2. \A i \in DOMAIN q : i \in Nat \ {0}
  BY <1>0, TailAt
<1>3. \A i \in DOMAIN p : i \in Nat \ {0}
  BY <1>0, TailAt
<1> HIDE DEF p
<1>4. CASE c[k] = v /\ \A i \in DOMAIN q : ~Touches(q[i], k)
  BY <1>1, <1>4 DEF Ends, p
<1>5. CASE \E i \in DOMAIN q : /\ Touches(q[i], k) /\ ValueIn(q[i], k) = v
                               /\ \A j \in DOMAIN q : i < j => ~Touches(q[j], k)
  <2>1. PICK i \in DOMAIN q : /\ Touches(q[i], k) /\ ValueIn(q[i], k) = v
                              /\ \A j \in DOMAIN q : i < j => ~Touches(q[j], k)
    BY <1>5
  <2>2. CASE i = 1
    <3>1. d[k] = v
      BY <1>1, <2>1, <2>2
    <3>2. \A j \in DOMAIN p : 1 < j + 1
      BY <1>3
    <3>3. \A j \in DOMAIN p : ~Touches(p[j], k)
      BY <1>1, <2>1, <2>2, <3>2
    <3> QED
      BY <3>1, <3>3 DEF Ends, p
  <2>3. CASE i # 1
    <3>1. i - 1 \in DOMAIN p /\ Touches(p[i - 1], k) /\ ValueIn(p[i - 1], k) = v
      BY <1>1, <2>1, <2>3
    <3>2. \A j \in DOMAIN p : i - 1 < j => i < j + 1
      BY <1>2, <1>3
    <3>3. \A j \in DOMAIN p : i - 1 < j => ~Touches(p[j], k)
      BY <1>1, <2>1, <3>2
    <3> QED
      BY <3>1, <3>3 DEF Ends, p
  <2> QED
    BY <2>2, <2>3
<1> QED
  BY <1>4, <1>5 DEF Ends

Pending(k) == \E i \in Txs : txs[i].key = k /\ txs[i].state \in Open

LEMMA EndsPut ==
  ASSUME NEW q \in Seq(Ops), NEW K \in SUBSET Keys, NEW rows \in [K -> Nat], NEW c, NEW k
  PROVE  /\ q \o PutOp(rows) \in Seq(Ops)
         /\ k \in K => Ends(q \o PutOp(rows), c, k, rows[k])
         /\ \A v : k \notin K /\ Ends(q, c, k, v) => Ends(q \o PutOp(rows), c, k, v)
<1> DEFINE op == [op |-> "put", rows |-> rows]
<1>1. op \in Ops
  BY DEF Ops, PutOps
<1>2. DOMAIN rows = K /\ op.op = "put" /\ op.rows = rows
  OBVIOUS
<1>3. (Touches(op, k) <=> k \in K) /\ ValueIn(op, k) = rows[k]
  BY <1>2 DEF Touches, ValueIn
<1>4. CASE K = {}
  <2>1. PutOp(rows) = <<>> /\ q \o <<>> = q
    BY <1>2, <1>4, ConcatEmptySeq DEF PutOp
  <2> QED
    BY <1>4, <2>1
<1>5. CASE K # {}
  <2>1. q \o PutOp(rows) = Append(q, op)
    BY <1>1, <1>2, <1>5, AppendIsConcat DEF PutOp
  <2> HIDE DEF op
  <2> QED
    BY <1>1, <1>3, <2>1, EndsAppend
<1> QED
  BY <1>4, <1>5

LEMMA EndsDelete ==
  ASSUME NEW q \in Seq(Ops), NEW K \in SUBSET Keys, NEW c, NEW k
  PROVE  /\ q \o DeleteOp(K) \in Seq(Ops)
         /\ k \in K => Ends(q \o DeleteOp(K), c, k, 0)
         /\ \A v : k \notin K /\ Ends(q, c, k, v) => Ends(q \o DeleteOp(K), c, k, v)
<1> DEFINE op == [op |-> "delete", keys |-> K]
<1>1. op \in Ops
  BY DEF Ops, DeleteOps
<1>2. op.op = "delete" /\ op.keys = K
  OBVIOUS
<1>3. (Touches(op, k) <=> k \in K) /\ ValueIn(op, k) = 0
  BY <1>2 DEF Touches, ValueIn
<1>4. CASE K = {}
  <2>1. DeleteOp(K) = <<>> /\ q \o <<>> = q
    BY <1>4, ConcatEmptySeq DEF DeleteOp
  <2> QED
    BY <1>4, <2>1
<1>5. CASE K # {}
  <2>1. q \o DeleteOp(K) = Append(q, op)
    BY <1>1, <1>5, AppendIsConcat DEF DeleteOp
  <2> HIDE DEF op
  <2> QED
    BY <1>1, <1>3, <2>1, EndsAppend
<1> QED
  BY <1>4, <1>5

LEMMA EndsReplace ==
  ASSUME NEW q \in Seq(Ops), NEW rows \in [Keys -> Nat], NEW c, NEW k
  PROVE  /\ q \o ReplaceOp(rows) \in Seq(Ops)
         /\ Ends(q \o ReplaceOp(rows), c, k, rows[k])
<1> DEFINE op == [op |-> "replace", rows |-> rows]
<1>1. op \in Ops
  BY DEF Ops, ReplaceOps
<1>2. Touches(op, k) /\ ValueIn(op, k) = rows[k]
  BY DEF Touches, ValueIn
<1>3. q \o ReplaceOp(rows) = Append(q, op)
  BY <1>1, AppendIsConcat DEF ReplaceOp
<1> HIDE DEF op
<1> QED
  BY <1>1, <1>2, <1>3, EndsAppend

\* persistChanges, for a row that no local mutation waits for.
LEMMA EndsPersist ==
  ASSUME txs \in Seq(Mutations), NEW rows \in [Keys -> Nat], NEW changes,
         \A x \in ToSet(changes) : x.key \in Keys,
         NEW q \in Seq(Ops), NEW c, NEW k \in Keys, ~Pending(k)
  PROVE  LET p == q \o PersistChanges(rows, changes)
             gone == \E x \in ToSet(changes) : x.type = "delete" /\ x.key = k
             kept == \E x \in ToSet(changes) : x.type # "delete" /\ x.key = k
         IN  /\ p \in Seq(Ops)
             /\ gone => Ends(p, c, k, 0)
             /\ ~gone /\ kept /\ rows[k] # 0 => Ends(p, c, k, rows[k])
             /\ \A v : ~gone /\ ~kept /\ Ends(q, c, k, v) => Ends(p, c, k, v)
<1> DEFINE put == {l \in Keys : /\ View(rows, l) # 0
                                /\ \E x \in ToSet(changes) : x.type # "delete" /\ x.key = l}
           written == [l \in put |-> View(rows, l)]
           deleted == {x.key : x \in {x \in ToSet(changes) : x.type = "delete"}}
           half == q \o PutOp(written)
           p == half \o DeleteOp(deleted)
<1>1. PersistChanges(rows, changes) = PutOp(written) \o DeleteOp(deleted)
  BY DEF PersistChanges
<1>2. put \in SUBSET Keys /\ written \in [put -> Nat]
  BY ViewIs
<1>3. deleted \in SUBSET Keys
  OBVIOUS
<1>4. View(rows, k) = rows[k]
  BY ViewIs DEF Pending
<1>5. k \in put <=> rows[k] # 0 /\ \E x \in ToSet(changes) : x.type # "delete" /\ x.key = k
  BY <1>4
<1>6. k \in put => written[k] = rows[k]
  BY <1>4
<1>7. k \in deleted <=> \E x \in ToSet(changes) : x.type = "delete" /\ x.key = k
  OBVIOUS
<1> HIDE DEF written, deleted, put
<1>8. /\ half \in Seq(Ops)
      /\ k \in put => Ends(half, c, k, written[k])
      /\ \A v : k \notin put /\ Ends(q, c, k, v) => Ends(half, c, k, v)
  BY <1>2, EndsPut
<1>9. q \o PersistChanges(rows, changes) = p
  <2>1. PutOp(written) \in Seq(Ops) /\ DeleteOp(deleted) \in Seq(Ops)
    BY <1>2, <1>3, OpsAre
  <2>2. q \o (PutOp(written) \o DeleteOp(deleted)) = (q \o PutOp(written)) \o DeleteOp(deleted)
    <3> HIDE DEF PutOp, DeleteOp
    <3> QED
      BY <2>1, ConcatAssociative
  <2> QED
    BY <1>1, <2>2
<1> HIDE DEF half
<1>10. /\ p \in Seq(Ops)
       /\ k \in deleted => Ends(p, c, k, 0)
       /\ \A v : k \notin deleted /\ Ends(half, c, k, v) => Ends(p, c, k, v)
  BY <1>3, <1>8, EndsDelete
<1> HIDE DEF p
<1> QED
  BY <1>5, <1>6, <1>7, <1>8, <1>9, <1>10

-----------------------------------------------------------------------------
(* What applyCollectionBroadcast and persistChanges leave.                 *)

\* A row between two moments of the log.
LEMMA RowMoves ==
  ASSUME NEW L \in Seq(Changes), NEW m \in Nat, NEW n \in Nat, m <= n, n <= Len(L),
         NEW r, RowsAre(L, m, r), NEW s, RowsAre(L, n, s), NEW k \in Keys
  PROVE  \/ s[k] = r[k] /\ \A j \in m + 1 .. n : L[j].key # k
         \/ \E j \in m + 1 .. n : /\ L[j].key = k /\ s[k] = Value(L[j])
                                  /\ \A i \in j + 1 .. n : L[i].key # k
<1>1. IsRow(L, m, k, r[k]) /\ IsRow(L, n, k, s[k])
  BY DEF RowsAre
<1>2. CASE s[k] = 0 /\ \A j \in 1 .. n : L[j].key # k
  <2>1. \A j \in 1 .. m : L[j].key # k
    BY <1>2
  <2>2. r[k] = 0
    BY <1>1, <2>1 DEF IsRow
  <2>3. \A j \in m + 1 .. n : L[j].key # k
    BY <1>2
  <2> QED
    BY <1>2, <2>2, <2>3
<1>3. CASE \E j \in 1 .. n : /\ L[j].key = k /\ s[k] = Value(L[j])
                             /\ \A i \in j + 1 .. n : L[i].key # k
  <2>1. PICK j \in 1 .. n : /\ L[j].key = k /\ s[k] = Value(L[j])
                            /\ \A i \in j + 1 .. n : L[i].key # k
    BY <1>3
  <2>2. CASE m < j
    <3>1. j \in m + 1 .. n
      BY <2>2
    <3> QED
      BY <2>1, <3>1
  <2>3. CASE j <= m
    <3>1. j \in 1 .. m /\ \A i \in j + 1 .. m : i \in j + 1 .. n
      BY <2>3
    <3>2. \A i \in j + 1 .. m : L[i].key # k
      BY <2>1, <3>1
    <3>3. r[k] = Value(L[j])
      <4>1. ~ \A i \in 1 .. m : L[i].key # k
        BY <2>1, <3>1
      <4>2. PICK l \in 1 .. m : /\ L[l].key = k /\ r[k] = Value(L[l])
                                /\ \A i \in l + 1 .. m : L[i].key # k
        BY <1>1, <4>1 DEF IsRow
      <4>3. ~(l < j) /\ ~(j < l)
        BY <2>1, <3>1, <3>2, <4>2
      <4>4. l = j
        BY <4>3
      <4> QED
        BY <4>2, <4>4
    <3>4. \A i \in m + 1 .. n : i \in j + 1 .. n
      BY <2>3
    <3> QED
      BY <2>1, <3>3, <3>4
  <2> QED
    BY <2>2, <2>3
<1> QED
  BY <1>1, <1>2, <1>3 DEF IsRow

LEMMA PageApplied ==
  ASSUME txs \in Seq(Mutations), NEW L \in Seq(Changes), NEW m \in Nat, NEW n \in Nat,
         m <= n, n <= Len(L), NEW r, RowsAre(L, m, r), NEW page, PageOk(L, page, m, n),
         NEW q \in Seq(Ops)
  PROVE  LET s == Written(r, page)
             p == q \o PersistChanges(s, page)
         IN  /\ RowsAre(L, n, s) /\ p \in Seq(Ops)
             /\ \A c : \A k \in Keys :
                  /\ ~Pending(k) /\ ~Reinserts(page)
                  /\ (\E j \in DOMAIN page : page[j].key = k) \/ Ends(q, c, k, r[k])
                  => Ends(p, c, k, s[k])
<1> DEFINE s == Written(r, page)
           p == q \o PersistChanges(s, page)
           at(j) == L[m + j]
<1>1. Len(L) \in Nat /\ n - m \in Nat /\ DOMAIN page = 1 .. n - m
  BY LogAt DEF PageOk
<1>2. \A j \in 1 .. n - m : m + j \in 1 .. Len(L) /\ m + j \in m + 1 .. n
  BY <1>1
<1>3. \A j \in 1 .. n - m : /\ page[j].key = at(j).key /\ page[j].type = at(j).type
                            /\ page[j].id = at(j).id
  BY <1>1 DEF PageOk, TellsOf
<1>4. \A j \in 1 .. n - m : Value(page[j]) = Value(at(j))
  BY <1>3 DEF Value
<1>5. RowsAre(L, n, s)
  <2>1. m + (n - m) = n
    BY <1>1
  <2>2. m + (n - m) <= Len(L)
    BY <1>1
  <2> HIDE DEF s
  <2>3. RowsAre(L, m + (n - m), s)
    BY ONLY <1>1, <1>3, <1>4, <2>2, WrittenOn, RowsAre(L, m, r), L \in Seq(Changes), m \in Nat
    DEF s
  <2> QED
    BY <2>1, <2>3
<1>6. \A j \in 1 .. n - m : at(j).key \in Keys /\ at(j).id \in Nat \ {0}
  BY <1>2, LogAt
<1>7. \A x : x \in ToSet(page) <=> \E j \in 1 .. n - m : x = page[j]
  BY <1>1 DEF ToSet
<1>8. ASSUME NEW x \in ToSet(page)
      PROVE  x.key \in Keys
  <2>1. PICK j \in 1 .. n - m : x = page[j]
    BY <1>7
  <2> QED
    BY <1>3, <1>6, <2>1
<1>9. s \in [Keys -> Nat]
  BY <1>5 DEF RowsAre
<1>10. p \in Seq(Ops)
  <2> HIDE DEF s
  <2>1. PersistChanges(s, page) \in Seq(Ops)
    BY <1>8, <1>9, PersistIs
  <2> QED
    BY <2>1, ConcatProperties
<1>11. ASSUME NEW c, NEW k \in Keys, ~Pending(k), ~Reinserts(page),
              (\E j \in DOMAIN page : page[j].key = k) \/ Ends(q, c, k, r[k])
       PROVE  Ends(p, c, k, s[k])
  <2> DEFINE gone == \E x \in ToSet(page) : x.type = "delete" /\ x.key = k
             kept == \E x \in ToSet(page) : x.type # "delete" /\ x.key = k
  <2> HIDE DEF s
  <2>1. /\ gone => Ends(p, c, k, 0)
        /\ ~gone /\ kept /\ s[k] # 0 => Ends(p, c, k, s[k])
        /\ \A v : ~gone /\ ~kept /\ Ends(q, c, k, v) => Ends(p, c, k, v)
    BY <1>8, <1>9, <1>11, EndsPersist
  <2> HIDE DEF p
  <2>2. CASE s[k] = r[k] /\ \A j \in m + 1 .. n : L[j].key # k
    <3>1. \A j \in 1 .. n - m : page[j].key # k
      BY <1>2, <1>3, <2>2
    <3>2. ~gone /\ ~kept
      BY <1>7, <3>1
    <3>3. Ends(q, c, k, r[k])
      BY <1>1, <1>11, <3>1
    <3> QED
      BY <2>1, <2>2, <3>2, <3>3
  <2>3. CASE \E j \in m + 1 .. n : /\ L[j].key = k /\ s[k] = Value(L[j])
                                   /\ \A i \in j + 1 .. n : L[i].key # k
    <3>1. PICK i \in m + 1 .. n : /\ L[i].key = k /\ s[k] = Value(L[i])
                                  /\ \A j \in i + 1 .. n : L[j].key # k
      BY <2>3
    <3>2. PICK l \in 1 .. n - m : m + l = i
      <4>1. i - m \in 1 .. n - m /\ m + (i - m) = i
        BY <1>1
      <4> QED
        BY <4>1
    <3>3. page[l].key = k /\ s[k] = Value(page[l]) /\ page[l] \in ToSet(page)
      BY <1>3, <1>4, <1>7, <3>1, <3>2
    <3>4. CASE page[l].type = "delete"
      <4>1. s[k] = 0 /\ gone
        BY <3>3, <3>4 DEF Value
      <4> QED
        BY <2>1, <4>1
    <3>5. CASE page[l].type # "delete"
      <4>1. s[k] # 0 /\ kept
        BY <1>3, <1>6, <3>3, <3>5 DEF Value
      <4>2. ~gone
        <5> SUFFICES ASSUME NEW j \in 1 .. n - m, page[j].type = "delete", page[j].key = k
                     PROVE  FALSE
          BY <1>7
        <5>1. m + j \notin i + 1 .. n
          BY <1>3, <3>1
        <5>2. j <= l
          BY <1>2, <3>2, <5>1
        <5>3. j < l
          BY <3>5, <5>2
        <5> QED
          BY <1>1, <1>11, <3>3, <5>3 DEF Reinserts
      <4> QED
        BY <2>1, <4>1, <4>2
    <3> QED
      BY <3>4, <3>5
  <2>4. m \in Nat /\ n \in Nat /\ n <= Len(L)
    OBVIOUS
  <2> QED
    BY <1>5, <2>2, <2>3, <2>4, RowMoves
<1> HIDE DEF s, p
<1>12. \A c : \A k \in Keys :
         /\ ~Pending(k) /\ ~Reinserts(page)
         /\ (\E j \in DOMAIN page : page[j].key = k) \/ Ends(q, c, k, r[k])
         => Ends(p, c, k, s[k])
  BY <1>11
<1> QED
  BY <1>5, <1>10, <1>12 DEF s, p

\* One update: nothing is inserted again on its page.
LEMMA OneUpdate ==
  ASSUME NEW L \in Seq(Changes), NEW u, TellsOf(L, u), NEW n \in Nat, u.seq = n + 1
  PROVE  PageOk(L, <<u>>, n, n + 1) /\ ~Reinserts(<<u>>)
<1>1. (n + 1) - n = 1 /\ 1 .. 1 = {1}
  OBVIOUS
<1>2. DOMAIN <<u>> = 1 .. 1 /\ <<u>>[1] = u
  OBVIOUS
<1>3. IsSequence(<<u>>)
  BY OneSet
<1> QED
  BY <1>1, <1>2, <1>3 DEF PageOk, Reinserts

-----------------------------------------------------------------------------
(* What the flush leaves: the states after each of the updates.            *)
Rowset == [Keys -> Nat]
Collections == [rows : Rowset, queue : Seq(Ops), cursor : Nat]

Flushed(st, h) == FoldLeft(ApplyBroadcast, st, h)
IsFlush(t, st, h, n) ==
  t[0] = st /\ \A i \in 1 .. n : t[i] = ApplyBroadcast(t[i - 1], h[i])
EndsFlush(end, st, h, n) ==
  \E t \in [0 .. n -> Collections] : IsFlush(t, st, h, n) /\ t[n] = end

LEMMA FlushTrace ==
  ASSUME NEW n \in Nat, NEW st \in Collections, NEW h, DOMAIN h = 1 .. n,
         \A v \in Collections, i \in 1 .. n : ApplyBroadcast(v, h[i]) \in Collections
  PROVE  EndsFlush(Flushed(st, h), st, h, n)
<1> DEFINE step == [p \in Collections \X (1 .. n) |-> ApplyBroadcast(p[1], h[p[2]])]
<1>1. step \in [Collections \X (1 .. n) -> Collections]
  OBVIOUS
<1>2. \A v \in Collections, i \in 1 .. n : step[<<v, i>>] = ApplyBroadcast(v, h[i])
  OBVIOUS
<1> HIDE DEF step
<1>3. PICK it \in [SUBSET (1 .. n) -> Collections] : IsFold(it, st, step, n)
  BY <1>1, FoldExists
<1> DEFINE D(f) == [s \in SUBSET (DOMAIN h) |->
                      IF s = {} THEN st
                      ELSE LET x == Max(s) IN ApplyBroadcast(f[s \ {x}], h[x])]
           E(f) == [s \in SUBSET (1 .. n) |->
                      IF s = {} THEN st
                      ELSE ApplyBroadcast(f[s \ {Max(s)}], h[Max(s)])]
           fold == CHOOSE f : f = D(f)
<1>4. Flushed(st, h) = fold[1 .. n]
  BY DEF Flushed, FoldLeft, MapThenFoldSet
<1>5. \A f : D(f) = E(f)
  BY Zenon
<1>6. it = E(it)
  <2>1. \A s \in SUBSET (1 .. n) : s # {} =>
          Max(s) \in 1 .. n /\ s \ {Max(s)} \in SUBSET (1 .. n)
    BY WithoutMax
  <2>2. ASSUME NEW s \in SUBSET (1 .. n)
        PROVE  it[s] = E(it)[s]
    <3>1. CASE s = {}
      BY <1>3, <3>1 DEF IsFold
    <3>2. CASE s # {}
      <4>1. it[s] = step[<<it[s \ {Max(s)}], Max(s)>>]
        BY <1>3, <3>2 DEF IsFold
      <4> QED
        BY <1>2, <1>3, <2>1, <4>1, <3>2
    <3> QED
      BY <3>1, <3>2
  <2> QED
    BY <1>3, <2>2
<1>7. fold = E(fold)
  <2> HIDE DEF D, E
  <2>1. \E f : f = D(f)
    BY <1>5, <1>6
  <2> QED
    BY <1>5, <2>1
<1> HIDE DEF fold
<1>8. fold[{}] = st
  <2>1. {} \in SUBSET (1 .. n)
    OBVIOUS
  <2> QED
    BY <1>7, <2>1
<1>9. ASSUME NEW s \in SUBSET (1 .. n), s # {}, fold[s \ {Max(s)}] \in Collections
      PROVE  fold[s] = step[<<fold[s \ {Max(s)}], Max(s)>>]
  <2>1. Max(s) \in 1 .. n
    BY <1>9, WithoutMax
  <2>2. fold[s] = ApplyBroadcast(fold[s \ {Max(s)}], h[Max(s)])
    BY <1>7, <1>9
  <2> QED
    BY <1>2, <1>9, <2>1, <2>2
<1>10. FoldsOn(fold, Collections, st, step, n)
  BY <1>8, <1>9 DEF FoldsOn
<1>11. EndsTrace(fold[1 .. n], Collections, st, step, n)
  BY <1>1, <1>10, FoldTrace
<1>12. PICK t \in [0 .. n -> Collections] : IsTrace(t, st, step, n) /\ t[n] = fold[1 .. n]
  BY <1>11 DEF EndsTrace
<1>13. \A i \in 1 .. n : t[i - 1] \in Collections
  OBVIOUS
<1>14. ASSUME NEW i \in 1 .. n
       PROVE  t[i] = ApplyBroadcast(t[i - 1], h[i])
  <2>1. t[i] = step[<<t[i - 1], i>>]
    BY <1>12 DEF IsTrace
  <2> QED
    BY <1>2, <1>13, <2>1
<1>15. IsFlush(t, st, h, n)
  BY <1>12, <1>14 DEF IsTrace, IsFlush
<1> QED
  BY <1>4, <1>12, <1>15 DEF EndsFlush

LEMMA WrittenType ==
  ASSUME NEW rows \in Rowset, NEW u, u.key \in Keys, u.id \in Nat
  PROVE  Written(rows, <<u>>) \in Rowset
<1>1. DOMAIN <<u>> = 1 .. 1 /\ <<u>>[1] = u /\ 1 \in Nat
  OBVIOUS
<1>2. Value(u) \in Nat
  BY DEF Value
<1>3. \A r \in Rowset, i \in 1 .. 1 : [r EXCEPT ![<<u>>[i].key] = Value(<<u>>[i])] \in Rowset
  <2> TAKE r \in Rowset, i \in 1 .. 1
  <2>1. <<u>>[i] = u
    BY <1>1
  <2>2. [r EXCEPT ![u.key] = Value(u)] \in Rowset
    BY <1>2 DEF Rowset
  <2> QED
    BY <2>1, <2>2
<1>4. EndsWritten(Written(rows, <<u>>), Rowset, rows, <<u>>, 1)
  BY <1>1, <1>3, WrittenTrace
<1>5. PICK t \in [0 .. 1 -> Rowset] : t[1] = Written(rows, <<u>>)
  BY <1>4 DEF EndsWritten
<1> QED
  BY <1>5

LEMMA CollectionIs ==
  ASSUME NEW st \in Collections
  PROVE  st.rows \in Rowset /\ st.queue \in Seq(Ops) /\ st.cursor \in Nat
BY DEF Collections

LEMMA Collected ==
  ASSUME NEW rows \in Rowset, NEW q \in Seq(Ops), NEW n \in Nat
  PROVE  [rows |-> rows, queue |-> q, cursor |-> n] \in Collections
BY DEF Collections

LEMMA BroadcastIs ==
  ASSUME txs \in Seq(Mutations), NEW st \in Collections,
         NEW u, u.key \in Keys, u.id \in Nat, u.seq \in Nat
  PROVE  LET s == Written(st.rows, <<u>>)
             end == ApplyBroadcast(st, u)
         IN  /\ end \in Collections
             /\ u.seq <= st.cursor => end = st
             /\ ~(u.seq <= st.cursor) =>
                  /\ end.rows = s
                  /\ end.queue = st.queue \o PersistChanges(s, <<u>>)
                  /\ end.cursor = u.seq
<1> DEFINE s == Written(st.rows, <<u>>)
           p == PersistChanges(s, <<u>>)
           q == st.queue \o p
           next == [[st EXCEPT !.rows = s, !.queue = q] EXCEPT !.cursor = u.seq]
<1>1. st.rows \in Rowset /\ st.queue \in Seq(Ops) /\ st.cursor \in Nat
  BY CollectionIs
<1>2. s \in Rowset
  BY <1>1, WrittenType
<1>3. q \in Seq(Ops)
  <2>1. \A c \in ToSet(<<u>>) : c.key \in Keys
    BY OneSet
  <2>2. s \in [Keys -> Nat]
    BY <1>2 DEF Rowset
  <2> HIDE DEF s
  <2>3. p \in Seq(Ops)
    BY <2>1, <2>2, PersistIs
  <2> QED
    BY <1>1, <2>3, ConcatProperties
<1>4. [Apply(st, <<u>>) EXCEPT !.cursor = u.seq] = next
  BY DEF Apply
<1>5. ApplyBroadcast(st, u) = IF u.seq <= st.cursor THEN st ELSE next
  BY <1>4 DEF ApplyBroadcast
<1> HIDE DEF s, q
<1>6. next \in Collections /\ next.rows = s /\ next.queue = q /\ next.cursor = u.seq
  BY <1>2, <1>3 DEF Collections
<1> HIDE DEF next
<1> QED
  BY <1>5, <1>6 DEF q, s

\* The next update of the log.
LEMMA BroadcastNext ==
  ASSUME txs \in Seq(Mutations), NEW L \in Seq(Changes), NEW st \in Collections,
         NEW u, TellsOf(L, u), u.seq = st.cursor + 1, RowsAre(L, st.cursor, st.rows)
  PROVE  LET end == ApplyBroadcast(st, u) IN
         /\ end \in Collections /\ end.cursor = u.seq
         /\ RowsAre(L, u.seq, end.rows)
         /\ \A c : \A k \in Keys : ~Pending(k) =>
              /\ u.key = k => Ends(end.queue, c, k, end.rows[k])
              /\ Ends(st.queue, c, k, st.rows[k]) => Ends(end.queue, c, k, end.rows[k])
<1> DEFINE n == st.cursor
           page == <<u>>
           s == Written(st.rows, page)
           p == st.queue \o PersistChanges(s, page)
           end == ApplyBroadcast(st, u)
<1>1. st.queue \in Seq(Ops) /\ n \in Nat
  BY CollectionIs
<1>2. /\ n + 1 <= Len(L) /\ Len(L) \in Nat
      /\ u.key \in Keys /\ u.id \in Nat /\ u.seq \in Nat
  BY <1>1, LogAt DEF TellsOf
<1>3. end.rows = s /\ end.queue = p /\ end.cursor = u.seq /\ end \in Collections
  <2>1. ~(u.seq <= st.cursor)
    BY <1>1
  <2> HIDE DEF end, s, p
  <2> QED
    BY <1>2, <2>1, BroadcastIs DEF end, s, p
<1>4. PageOk(L, page, n, n + 1) /\ ~Reinserts(page)
  BY <1>1, OneUpdate
<1>5. DOMAIN page = {1} /\ page[1] = u
  OBVIOUS
<1> HIDE DEF page
<1>6. /\ RowsAre(L, n + 1, s)
      /\ \A c : \A k \in Keys :
           /\ ~Pending(k) /\ ~Reinserts(page)
           /\ (\E j \in DOMAIN page : page[j].key = k) \/ Ends(st.queue, c, k, st.rows[k])
           => Ends(p, c, k, s[k])
  <2>1. n <= n + 1 /\ n + 1 \in Nat
    BY <1>1
  <2> HIDE DEF s, p, n
  <2>2. RowsAre(L, n, st.rows)
    BY DEF n
  <2> QED
    BY <1>1, <1>2, <1>4, <2>1, <2>2, PageApplied DEF s, p
<1> HIDE DEF end, s, p
<1>7. end.rows = s /\ end.queue = p /\ end.cursor = u.seq
  BY <1>3
<1>8. \A c : \A k \in Keys : ~Pending(k) =>
        /\ u.key = k => Ends(p, c, k, s[k])
        /\ Ends(st.queue, c, k, st.rows[k]) => Ends(p, c, k, s[k])
  BY <1>4, <1>5, <1>6
<1>9. RowsAre(L, u.seq, end.rows)
  BY <1>6, <1>7 DEF n
<1>10. \A c : \A k \in Keys : ~Pending(k) =>
        /\ u.key = k => Ends(end.queue, c, k, end.rows[k])
        /\ Ends(st.queue, c, k, st.rows[k]) => Ends(end.queue, c, k, end.rows[k])
  BY <1>7, <1>8
<1> QED
  BY <1>3, <1>7, <1>9, <1>10 DEF end

\* The held updates are written from the cursor on; what is later is on the way.
LEMMA FlushIs ==
  ASSUME txs \in Seq(Mutations), NEW L \in Seq(Changes), NEW h, NEW w, StreamOk(L, h, w),
         NEW st \in Collections, st.cursor <= Len(L), RowsAre(L, st.cursor, st.rows),
         \A m \in st.cursor + 1 .. Len(L) : OnWire(w, m) \/ Held(h, m)
  PROVE  LET end == Flushed(st, h) IN
         /\ end \in Collections /\ st.cursor <= end.cursor /\ end.cursor <= Len(L)
         /\ RowsAre(L, end.cursor, end.rows)
         /\ \A i \in DOMAIN h : h[i].seq <= end.cursor
         /\ end.cursor = st.cursor \/ Held(h, end.cursor)
         /\ \A c : \A k \in Keys :
              /\ ~Pending(k)
              /\ \/ Ends(st.queue, c, k, st.rows[k])
                 \/ \E i \in DOMAIN h : h[i].key = k /\ st.cursor < h[i].seq
              => Ends(end.queue, c, k, end.rows[k])
<1> DEFINE n == Len(h)
           from == st.cursor
<1>1. n \in Nat /\ DOMAIN h = 1 .. n /\ Len(L) \in Nat /\ from \in Nat
  BY LenProperties, LogAt, CollectionIs DEF StreamOk, IsSequence
<1>2. ASSUME NEW i \in 1 .. n
      PROVE  /\ TellsOf(L, h[i]) /\ h[i].seq \in Nat /\ h[i].seq <= Len(L)
             /\ h[i].key \in Keys /\ h[i].id \in Nat
  <2>1. TellsOf(L, h[i])
    BY <1>1 DEF StreamOk
  <2> QED
    BY <1>1, <2>1, LogAt DEF TellsOf
<1>3. PICK t \in [0 .. n -> Collections] : IsFlush(t, st, h, n) /\ t[n] = Flushed(st, h)
  <2>1. \A v \in Collections, i \in 1 .. n : ApplyBroadcast(v, h[i]) \in Collections
    BY <1>2, BroadcastIs
  <2>2. EndsFlush(Flushed(st, h), st, h, n)
    BY <1>1, <2>1, FlushTrace
  <2> QED
    BY <2>2 DEF EndsFlush
<1> DEFINE Reach(i) ==
             /\ from <= t[i].cursor /\ t[i].cursor <= Len(L)
             /\ RowsAre(L, t[i].cursor, t[i].rows)
             /\ \A j \in 1 .. i : h[j].seq <= t[i].cursor
             /\ t[i].cursor = from \/ \E j \in 1 .. i : h[j].seq = t[i].cursor
           Kept(i) ==
             \A c : \A k \in Keys :
               /\ ~Pending(k)
               /\ \/ Ends(st.queue, c, k, st.rows[k])
                  \/ \E j \in 1 .. i : h[j].key = k /\ from < h[j].seq
               => Ends(t[i].queue, c, k, t[i].rows[k])
           bad == {i \in 0 .. n : ~(Reach(i) /\ Kept(i))}
<1>4. Reach(0) /\ Kept(0)
  BY <1>1, <1>3 DEF IsFlush
<1>5. ASSUME NEW i \in 1 .. n, Reach(i - 1), Kept(i - 1)
      PROVE  Reach(i) /\ Kept(i)
  <2> DEFINE v == t[i - 1]
             u == h[i]
  <2>0. v \in Collections
    <3>1. i - 1 \in 0 .. n
      BY <1>1
    <3> QED
      BY <1>3, <3>1
  <2>9. v.cursor \in Nat
    BY <2>0, CollectionIs
  <2>1. /\ v \in Collections /\ v.cursor \in Nat
        /\ t[i] = ApplyBroadcast(v, u)
        /\ TellsOf(L, u) /\ u.seq \in Nat /\ u.seq <= Len(L) /\ u.key \in Keys /\ u.id \in Nat
    <3>1. t[i] = ApplyBroadcast(v, u)
      BY <1>3 DEF IsFlush
    <3> HIDE DEF v
    <3> QED
      BY <1>2, <2>0, <2>9, <3>1
  <2>2. \A j \in 1 .. i - 1 : j \in 1 .. n /\ h[j].seq < u.seq
    <3>1. \A a, b \in 1 .. n : a < b => h[a].seq < h[b].seq
      BY <1>1 DEF StreamOk
    <3>2. \A j \in 1 .. i - 1 : j \in 1 .. n /\ j < i
      BY <1>1
    <3> HIDE DEF n
    <3> QED
      BY <3>1, <3>2
  <2>3. \A j \in 1 .. i : j = i \/ j \in 1 .. i - 1
    BY <1>1
  <2>4. CASE u.seq <= v.cursor
    <3>1. t[i] = v
      BY <2>1, <2>4, BroadcastIs
    <3>2. v.cursor = from
      BY <1>2, <1>5, <2>1, <2>2, <2>4
    <3>3. Reach(i)
      BY <1>5, <2>3, <2>4, <3>1, <3>2
    <3>4. \A k : (\E j \in 1 .. i : h[j].key = k /\ from < h[j].seq) =>
                   \E j \in 1 .. i - 1 : h[j].key = k /\ from < h[j].seq
      BY <1>1, <2>1, <2>3, <2>4, <3>2
    <3>5. Kept(i)
      BY <1>5, <3>1, <3>4
    <3> QED
      BY <3>3, <3>5
  <2>5. CASE v.cursor < u.seq
    <3>1. u.seq = v.cursor + 1
      <4> DEFINE m == v.cursor + 1
      <4>1. m \in from + 1 .. Len(L) /\ m <= u.seq
        BY <1>1, <1>5, <2>1, <2>5
      <4>2. CASE OnWire(w, m)
        <5>1. PICK j \in DOMAIN w : IsUpdate(w, j) /\ SeqAt(w, j) = m
          BY <4>2 DEF OnWire
        <5>2. u.seq < SeqAt(w, j)
          BY <1>1, <5>1 DEF StreamOk, Past
        <5> QED
          BY <2>1, <4>1, <5>1, <5>2
      <4>3. CASE Held(h, m)
        <5>1. PICK j \in 1 .. n : h[j].seq = m
          BY <1>1, <4>3 DEF Held
        <5>2. CASE j < i
          <6>1. h[j].seq <= v.cursor
            BY <1>5, <5>2
          <6>2. ~(v.cursor + 1 <= v.cursor)
            BY <2>1
          <6> HIDE DEF v
          <6> QED
            BY <5>1, <6>1, <6>2
        <5>3. CASE i < j
          <6>1. u.seq < h[j].seq
            BY <1>1, <5>3 DEF StreamOk
          <6> QED
            BY <2>1, <4>1, <5>1, <6>1
        <5>4. CASE i = j
          BY <5>1, <5>4
        <5> QED
          BY <5>2, <5>3, <5>4
      <4> QED
        BY <4>1, <4>2, <4>3
    <3>2. /\ t[i] \in Collections /\ t[i].cursor = u.seq
          /\ RowsAre(L, u.seq, t[i].rows)
          /\ \A c : \A k \in Keys : ~Pending(k) =>
               /\ u.key = k => Ends(t[i].queue, c, k, t[i].rows[k])
               /\ Ends(v.queue, c, k, v.rows[k]) => Ends(t[i].queue, c, k, t[i].rows[k])
      <4>1. RowsAre(L, v.cursor, v.rows)
        BY <1>5
      <4> DEFINE e == ApplyBroadcast(v, u)
      <4>3. v \in Collections /\ TellsOf(L, u)
        BY <2>1
      <4>4. t[i] = e
        BY <2>1
      <4> HIDE DEF v, u
      <4>5. e \in Collections /\ e.cursor = u.seq
        BY <3>1, <4>1, <4>3, BroadcastNext
      <4>6. RowsAre(L, u.seq, e.rows)
        BY <3>1, <4>1, <4>3, BroadcastNext
      <4>7. \A c : \A k \in Keys : ~Pending(k) =>
              /\ u.key = k => Ends(e.queue, c, k, e.rows[k])
              /\ Ends(v.queue, c, k, v.rows[k]) => Ends(e.queue, c, k, e.rows[k])
        BY <3>1, <4>1, <4>3, BroadcastNext
      <4> HIDE DEF e
      <4> QED
        BY <4>4, <4>5, <4>6, <4>7
    <3>3. Reach(i)
      <4>1. from <= u.seq /\ u.seq <= Len(L)
        BY <1>1, <1>5, <2>1, <2>5
      <4>2. \A j \in 1 .. i : h[j].seq <= u.seq
        <5> TAKE j \in 1 .. i
        <5>1. CASE j = i
          BY <2>1, <5>1
        <5>2. CASE j \in 1 .. i - 1
          <6>1. j \in 1 .. n /\ h[j].seq < u.seq /\ h[j].seq \in Nat
            BY <1>2, <2>2, <5>2
          <6> QED
            BY <2>1, <6>1
        <5> QED
          BY <2>3, <5>1, <5>2
      <4>3. i \in 1 .. i
        BY <1>1
      <4> QED
        BY <3>2, <4>1, <4>2, <4>3
    <3>4. Kept(i)
      <4> SUFFICES ASSUME NEW c, NEW k \in Keys, ~Pending(k),
                          \/ Ends(st.queue, c, k, st.rows[k])
                          \/ \E j \in 1 .. i : h[j].key = k /\ from < h[j].seq
                   PROVE  Ends(t[i].queue, c, k, t[i].rows[k])
        OBVIOUS
      <4>1. CASE u.key = k
        BY <3>2, <4>1
      <4>2. CASE u.key # k
        <5>1. \/ Ends(st.queue, c, k, st.rows[k])
              \/ \E j \in 1 .. i - 1 : h[j].key = k /\ from < h[j].seq
          BY <2>3, <4>2
        <5>2. Ends(v.queue, c, k, v.rows[k])
          BY <1>5, <5>1
        <5> QED
          BY <3>2, <5>2
      <4> QED
        BY <4>1, <4>2
    <3> QED
      BY <3>3, <3>4
  <2> QED
    BY <2>1, <2>4, <2>5
<1> HIDE DEF Reach, Kept
<1>6. bad = {}
  <2> SUFFICES ASSUME bad # {} PROVE FALSE
    OBVIOUS
  <2>1. bad \in SUBSET Nat
    OBVIOUS
  <2>2. PICK i \in bad : \A j \in bad : i <= j
    BY <2>1, LeastNumber
  <2>3. i # 0
    BY <1>4
  <2>4. i \in 1 .. n /\ i - 1 \in 0 .. n /\ i - 1 \notin bad
    BY <2>2, <2>3
  <2> QED
    BY <1>5, <2>2, <2>4
<1>7. n \in 0 .. n /\ n \notin bad
  BY <1>1, <1>6
<1>8. Reach(n) /\ Kept(n) /\ t[n] \in Collections
  BY <1>7
<1>9. Held(h, t[n].cursor) <=> \E j \in 1 .. n : h[j].seq = t[n].cursor
  BY <1>1 DEF Held
<1> QED
  BY <1>1, <1>3, <1>8, <1>9 DEF Reach, Kept

-----------------------------------------------------------------------------
(* What a message more or less on the wire, and a longer log, preserve.    *)

\* M is L or one change longer, and m is an update that tells of that change.
Sends(L, M, m) ==
  /\ L \in Seq(Changes) /\ M \in Seq(Changes)
  /\ \/ M = L /\ m.type # "updates"
     \/ /\ Len(M) = Len(L) + 1 /\ \A n \in 1 .. Len(L) : M[n] = L[n]
        /\ m.type = "updates" /\ TellsOf(M, m.update) /\ m.update.seq = Len(M)

LEMMA TellsLonger ==
  ASSUME NEW L \in Seq(Changes), NEW M \in Seq(Changes), Len(L) <= Len(M),
         \A n \in 1 .. Len(L) : M[n] = L[n], NEW u, TellsOf(L, u)
  PROVE  TellsOf(M, u)
<1>1. Len(L) \in Nat /\ Len(M) \in Nat
  BY LogAt
<1>2. u.seq \in 1 .. Len(L) /\ u.seq \in 1 .. Len(M)
  BY <1>1 DEF TellsOf
<1>3. M[u.seq] = L[u.seq]
  BY <1>2
<1> QED
  BY <1>2, <1>3 DEF TellsOf

LEMMA StreamLonger ==
  ASSUME NEW L \in Seq(Changes), NEW M \in Seq(Changes), Len(L) <= Len(M),
         \A n \in 1 .. Len(L) : M[n] = L[n], NEW h, NEW w, StreamOk(L, h, w)
  PROVE  StreamOk(M, h, w)
<1>1. \A u : TellsOf(L, u) => TellsOf(M, u)
  BY TellsLonger
<1> QED
  BY <1>1 DEF StreamOk

LEMMA SeqsAre ==
  ASSUME NEW L \in Seq(Changes), NEW h, NEW w, StreamOk(L, h, w)
  PROVE  /\ Len(L) \in Nat
         /\ \A i \in DOMAIN h : h[i].seq \in Nat /\ 1 <= h[i].seq /\ h[i].seq <= Len(L)
         /\ \A i \in DOMAIN w : IsUpdate(w, i) =>
              SeqAt(w, i) \in Nat /\ 1 <= SeqAt(w, i) /\ SeqAt(w, i) <= Len(L)
<1>1. Len(L) \in Nat
  BY LogAt
<1>2. \A u : TellsOf(L, u) => u.seq \in Nat /\ 1 <= u.seq /\ u.seq <= Len(L)
  BY <1>1 DEF TellsOf
<1> QED
  BY <1>1, <1>2 DEF StreamOk, SeqAt

LEMMA SendsIs ==
  ASSUME NEW L, NEW M, NEW m, Sends(L, M, m)
  PROVE  /\ L \in Seq(Changes) /\ M \in Seq(Changes)
         /\ Len(L) \in Nat /\ Len(M) \in Nat /\ Len(L) <= Len(M)
         /\ \A n \in 1 .. Len(L) : M[n] = L[n]
         /\ m.type = "updates" => TellsOf(M, m.update) /\ m.update.seq = Len(L) + 1
         /\ \A n \in Len(L) + 1 .. Len(M) : m.type = "updates" /\ m.update.seq = n
<1>1. L \in Seq(Changes) /\ M \in Seq(Changes)
  BY DEF Sends
<1>2. Len(L) \in Nat /\ Len(M) \in Nat
  BY <1>1, LogAt
<1>3. CASE M = L /\ m.type # "updates"
  BY <1>1, <1>2, <1>3
<1>4. CASE /\ Len(M) = Len(L) + 1 /\ \A n \in 1 .. Len(L) : M[n] = L[n]
           /\ m.type = "updates" /\ TellsOf(M, m.update) /\ m.update.seq = Len(M)
  BY <1>1, <1>2, <1>4
<1> QED
  BY <1>3, <1>4 DEF Sends

\* The wire with one message more, by position.
LEMMA WireMore ==
  ASSUME NEW L, NEW M, NEW m, Sends(L, M, m), NEW h, NEW w, StreamOk(L, h, w)
  PROVE  LET x == Append(w, m) IN
         /\ IsSequence(x) /\ Len(w) \in Nat
         /\ DOMAIN w = 1 .. Len(w) /\ DOMAIN x = 1 .. Len(w) + 1
         /\ \A i \in DOMAIN w : x[i] = w[i] /\ (IsUpdate(x, i) <=> IsUpdate(w, i))
                                /\ SeqAt(x, i) = SeqAt(w, i)
         /\ x[Len(w) + 1] = m
         /\ IsUpdate(x, Len(w) + 1) => SeqAt(x, Len(w) + 1) = Len(L) + 1
         /\ \A n : OnWire(w, n) => OnWire(x, n)
         /\ \A n \in Len(L) + 1 .. Len(M) : OnWire(x, n)
         /\ \A n \in 0 .. Len(L) : Past(w, n) => Past(x, n)
<1> DEFINE x == Append(w, m)
<1>1. IsSequence(w)
  BY DEF StreamOk
<1>2. /\ IsSequence(x) /\ Len(w) \in Nat
      /\ DOMAIN w = 1 .. Len(w) /\ DOMAIN x = 1 .. Len(w) + 1
      /\ \A i \in DOMAIN w : x[i] = w[i]
      /\ x[Len(w) + 1] = m
  BY <1>1, AppendAt
<1> HIDE DEF x
<1>3. \A i \in DOMAIN w : /\ i \in DOMAIN x /\ IsUpdate(x, i) <=> IsUpdate(w, i)
                          /\ SeqAt(x, i) = SeqAt(w, i)
  BY <1>2 DEF IsUpdate, SeqAt
<1>4. Len(w) + 1 \in DOMAIN x /\ \A i \in DOMAIN x : i \in DOMAIN w \/ i = Len(w) + 1
  BY <1>2
<1>5. IsUpdate(x, Len(w) + 1) => SeqAt(x, Len(w) + 1) = Len(L) + 1
  BY <1>2, SendsIs DEF IsUpdate, SeqAt
<1>6. \A n : OnWire(w, n) => OnWire(x, n)
  BY <1>3 DEF OnWire
<1>7. \A n \in Len(L) + 1 .. Len(M) : OnWire(x, n)
  BY <1>2, <1>4, SendsIs DEF OnWire, IsUpdate, SeqAt
<1>8. ASSUME NEW n \in 0 .. Len(L), Past(w, n)
      PROVE  Past(x, n)
  <2>1. Len(L) \in Nat /\ n < Len(L) + 1
    BY SendsIs
  <2> QED
    BY <1>3, <1>4, <1>5, <1>8, <2>1 DEF Past
<1> QED
  BY <1>2, <1>3, <1>5, <1>6, <1>7, <1>8 DEF x

LEMMA StreamMore ==
  ASSUME NEW L, NEW M, NEW m, Sends(L, M, m), NEW h, NEW w, StreamOk(L, h, w)
  PROVE  StreamOk(M, h, Append(w, m))
<1> DEFINE x == Append(w, m)
           e == Len(w) + 1
<1>1. /\ L \in Seq(Changes) /\ M \in Seq(Changes) /\ Len(L) \in Nat
      /\ m.type = "updates" => TellsOf(M, m.update)
      /\ StreamOk(M, h, w)
  BY SendsIs, StreamLonger
<1>2. /\ IsSequence(x) /\ DOMAIN x = 1 .. e /\ DOMAIN w = 1 .. Len(w) /\ Len(w) \in Nat
      /\ \A i \in DOMAIN w : /\ x[i] = w[i] /\ (IsUpdate(x, i) <=> IsUpdate(w, i))
                             /\ SeqAt(x, i) = SeqAt(w, i)
      /\ x[e] = m
      /\ IsUpdate(x, e) => SeqAt(x, e) = Len(L) + 1
      /\ \A n \in 0 .. Len(L) : Past(w, n) => Past(x, n)
  BY WireMore
<1> HIDE DEF x
<1>3. /\ \A i \in DOMAIN h : h[i].seq \in 0 .. Len(L)
      /\ \A i \in DOMAIN w : IsUpdate(w, i) => SeqAt(w, i) \in Nat /\ SeqAt(w, i) < Len(L) + 1
  BY <1>1, SeqsAre
<1>4. \A i \in DOMAIN x : i \in DOMAIN w \/ i = e
  BY <1>2
<1>5. \A i \in DOMAIN x : IsUpdate(x, i) => TellsOf(M, x[i].update)
  BY <1>1, <1>2, <1>4 DEF StreamOk, IsUpdate
<1>6. ASSUME NEW i \in DOMAIN x, NEW j \in DOMAIN x, IsUpdate(x, i), IsUpdate(x, j), i < j
      PROVE  SeqAt(x, i) < SeqAt(x, j)
  <2>1. i \in DOMAIN w
    BY <1>2, <1>4, <1>6
  <2>2. CASE j \in DOMAIN w
    BY <1>2, <1>6, <2>1, <2>2 DEF StreamOk
  <2>3. CASE j = e
    BY <1>2, <1>3, <1>6, <2>1, <2>3
  <2> QED
    BY <1>4, <2>2, <2>3
<1>7. \A i \in DOMAIN h : Past(x, h[i].seq)
  BY <1>2, <1>3 DEF StreamOk
<1>8. StreamOk(M, h, x)
  BY <1>1, <1>2, <1>5, <1>6, <1>7 DEF StreamOk
<1> QED
  BY <1>8 DEF x

LEMMA AnswersMore ==
  ASSUME NEW L, NEW M, NEW m, Sends(L, M, m), NEW h, NEW w, StreamOk(L, h, w),
         m.type \notin Answers, NEW from, AnswersOk(L, w, from)
  PROVE  AnswersOk(M, Append(w, m), from)
<1> DEFINE x == Append(w, m)
           e == Len(w) + 1
<1>1. /\ L \in Seq(Changes) /\ M \in Seq(Changes) /\ Len(L) \in Nat /\ Len(M) \in Nat
      /\ Len(L) <= Len(M) /\ \A n \in 1 .. Len(L) : M[n] = L[n]
  BY SendsIs
<1>2. /\ DOMAIN x = 1 .. e /\ DOMAIN w = 1 .. Len(w) /\ Len(w) \in Nat
      /\ \A i \in DOMAIN w : /\ x[i] = w[i] /\ (IsUpdate(x, i) <=> IsUpdate(w, i))
                             /\ SeqAt(x, i) = SeqAt(w, i)
      /\ x[e] = m
      /\ IsUpdate(x, e) => SeqAt(x, e) = Len(L) + 1
      /\ \A n : OnWire(w, n) => OnWire(x, n)
      /\ \A n \in Len(L) + 1 .. Len(M) : OnWire(x, n)
  BY WireMore
<1> HIDE DEF x
<1>3. \A i \in DOMAIN x : x[i].type \in Answers => i \in DOMAIN w /\ w[i] = x[i]
  <2>1. \A i \in DOMAIN x : i \in DOMAIN w \/ i = e
    BY <1>2
  <2> QED
    BY <1>2, <2>1
<1>4. ASSUME NEW i \in DOMAIN w, AnswerOk(L, w, i)
      PROVE  AnswerOk(M, x, i)
  <2>1. w[i].watermark \in 0 .. Len(L) /\ x[i] = w[i]
    BY <1>2, <1>4 DEF AnswerOk
  <2>2. Reached(M, x, w[i].watermark)
    <3> SUFFICES ASSUME NEW n \in w[i].watermark + 1 .. Len(M)
                 PROVE  OnWire(x, n)
      BY DEF Reached
    <3>1. n \in w[i].watermark + 1 .. Len(L) \/ n \in Len(L) + 1 .. Len(M)
      BY <1>1, <2>1
    <3> QED
      BY <1>2, <1>4, <3>1 DEF AnswerOk, Reached
  <2>3. ASSUME NEW j \in DOMAIN x, IsUpdate(x, j)
        PROVE  i < j <=> x[i].watermark < SeqAt(x, j)
    <3>1. CASE j \in DOMAIN w
      BY <1>2, <1>4, <2>1, <2>3, <3>1 DEF AnswerOk
    <3>2. CASE j = e
      BY <1>1, <1>2, <2>1, <2>3, <3>2
    <3> QED
      BY <1>2, <3>1, <3>2
  <2>4. x[i].watermark \in 0 .. Len(M)
    BY <1>1, <2>1
  <2> QED
    BY <2>1, <2>2, <2>3, <2>4 DEF AnswerOk
<1>5. \A i, j \in DOMAIN x : x[i].type \in Answers /\ x[j].type \in Answers => i = j
  BY <1>3 DEF AnswersOk
<1>6. ASSUME NEW i \in DOMAIN x, x[i].type = "rows"
      PROVE  AnswerOk(M, x, i) /\ RowsAre(M, x[i].watermark, x[i].rows)
  <2>1. i \in DOMAIN w /\ w[i] = x[i]
    BY <1>3, <1>6 DEF Answers
  <2>2. AnswerOk(L, w, i) /\ RowsAre(L, w[i].watermark, w[i].rows)
    BY <1>6, <2>1 DEF AnswersOk
  <2>3. w[i].watermark \in 0 .. Len(L)
    BY <2>2 DEF AnswerOk
  <2> QED
    BY <1>1, <1>4, <2>1, <2>2, <2>3, RowsStay
<1>7. ASSUME NEW i \in DOMAIN x, x[i].type = "changes"
      PROVE  /\ AnswerOk(M, x, i) /\ from <= x[i].watermark
             /\ PageOk(M, x[i].updates, from, x[i].watermark)
  <2>1. i \in DOMAIN w /\ w[i] = x[i]
    BY <1>3, <1>7 DEF Answers
  <2>2. /\ AnswerOk(L, w, i) /\ from <= w[i].watermark
        /\ PageOk(L, w[i].updates, from, w[i].watermark)
    BY <1>7, <2>1 DEF AnswersOk
  <2>3. PageOk(M, w[i].updates, from, w[i].watermark)
    <3>1. \A u : TellsOf(L, u) => TellsOf(M, u)
      BY <1>1, TellsLonger
    <3> QED
      BY <2>2, <3>1 DEF PageOk
  <2> QED
    BY <1>4, <2>1, <2>2, <2>3
<1>8. AnswersOk(M, x, from)
  BY <1>5, <1>6, <1>7 DEF AnswersOk
<1> QED
  BY <1>8 DEF x

\* The shard answers a read or a catch-up.
LEMMA AnswersNew ==
  ASSUME NEW L \in Seq(Changes), NEW h, NEW w, StreamOk(L, h, w),
         \A i \in DOMAIN w : w[i].type \notin Answers, NEW m, NEW from, m.type \in Answers, m.watermark = Len(L),
         m.type = "rows" => RowsAre(L, Len(L), m.rows),
         m.type = "changes" => from <= Len(L) /\ PageOk(L, m.updates, from, Len(L))
  PROVE  AnswersOk(L, Append(w, m), from)
<1> DEFINE x == Append(w, m)
           e == Len(w) + 1
<1>1. Len(L) \in Nat
  BY LogAt
<1>2. /\ Len(w) \in Nat /\ DOMAIN w = 1 .. Len(w) /\ DOMAIN x = 1 .. e
      /\ \A i \in DOMAIN w : x[i] = w[i]
      /\ x[e] = m
  BY AppendAt DEF StreamOk
<1> HIDE DEF x
<1>3. \A i \in DOMAIN x : x[i].type \in Answers => i = e
  BY <1>2
<1>4. AnswerOk(L, x, e)
  <2>1. ASSUME NEW j \in DOMAIN x, IsUpdate(x, j)
        PROVE  e < j <=> x[e].watermark < SeqAt(x, j)
    <3>1. j \in DOMAIN w /\ IsUpdate(w, j) /\ SeqAt(w, j) = SeqAt(x, j)
      BY <1>2, <2>1 DEF IsUpdate, SeqAt, Answers
    <3>2. SeqAt(w, j) \in Nat /\ SeqAt(w, j) <= Len(L)
      BY <3>1, SeqsAre
    <3> QED
      BY <1>1, <1>2, <3>1, <3>2
  <2>2. Len(L) + 1 .. Len(L) = {}
    BY <1>1
  <2> QED
    BY <1>1, <1>2, <2>1, <2>2 DEF AnswerOk, Reached
<1>5. AnswersOk(L, x, from)
  BY <1>2, <1>3, <1>4 DEF AnswersOk, Answers
<1> QED
  BY <1>5 DEF x

LEMMA RowsMore ==
  ASSUME NEW L, NEW M, NEW m, Sends(L, M, m), NEW h, NEW w, StreamOk(L, h, w),
         NEW at, NEW n, NEW rows, RowsOk(L, h, w, at, n, rows)
  PROVE  RowsOk(M, h, Append(w, m), at, n, rows)
<1> DEFINE x == Append(w, m)
<1>1. /\ L \in Seq(Changes) /\ M \in Seq(Changes) /\ Len(L) \in Nat /\ Len(M) \in Nat
      /\ Len(L) <= Len(M) /\ \A k \in 1 .. Len(L) : M[k] = L[k]
  BY SendsIs
<1>2. /\ \A k : OnWire(w, k) => OnWire(x, k)
      /\ \A k \in Len(L) + 1 .. Len(M) : OnWire(x, k)
      /\ \A k \in 0 .. Len(L) : Past(w, k) => Past(x, k)
  BY WireMore
<1> HIDE DEF x
<1>3. at \in WithRows => n \in 0 .. Len(L) /\ n \in 0 .. Len(M) /\ RowsAre(M, n, rows)
  BY <1>1, RowsStay DEF RowsOk
<1>4. ASSUME at \in {"storing", "synced"}, NEW k \in n + 1 .. Len(M)
      PROVE  OnWire(x, k) \/ Held(h, k)
  <2>1. n \in 0 .. Len(L)
    BY <1>3, <1>4 DEF WithRows
  <2>2. k \in n + 1 .. Len(L) \/ k \in Len(L) + 1 .. Len(M)
    BY <1>1, <1>4, <2>1
  <2> QED
    BY <1>2, <1>4, <2>2 DEF RowsOk
<1>5. at \in {"storing", "synced", "recovering"} => Past(x, n)
  BY <1>2, <1>3 DEF RowsOk, WithRows
<1>6. RowsOk(M, h, x, at, n, rows)
  BY <1>3, <1>4, <1>5 DEF RowsOk
<1> QED
  BY <1>6 DEF x

-----------------------------------------------------------------------------
\* The first message is taken.
LEMMA WireLess ==
  ASSUME NEW w, IsSequence(w), w # <<>>
  PROVE  LET x == Tail(w) IN
         /\ IsSequence(x) /\ Head(w) = w[1] /\ 1 \in DOMAIN w
         /\ \A i \in DOMAIN x : /\ i + 1 \in DOMAIN w /\ x[i] = w[i + 1] /\ i \in Nat
                                /\ IsUpdate(x, i) <=> IsUpdate(w, i + 1)
                                /\ SeqAt(x, i) = SeqAt(w, i + 1)
         /\ \A i \in DOMAIN w : i \in Nat /\ 1 <= i
         /\ \A n : OnWire(w, n) => OnWire(x, n) \/ (IsUpdate(w, 1) /\ SeqAt(w, 1) = n)
         /\ \A n : Past(w, n) => Past(x, n)
<1> DEFINE x == Tail(w)
<1>1. /\ IsSequence(x) /\ Head(w) = w[1] /\ 1 \in DOMAIN w
      /\ Len(w) \in Nat /\ DOMAIN w = 1 .. Len(w) /\ DOMAIN x = 1 .. Len(w) - 1
      /\ \A i \in DOMAIN x : i + 1 \in DOMAIN w /\ x[i] = w[i + 1]
      /\ \A i \in DOMAIN w : i # 1 => i - 1 \in DOMAIN x /\ x[i - 1] = w[i]
  BY TailAt
<1> HIDE DEF x
<1>2. \A i \in DOMAIN x : /\ i \in Nat /\ IsUpdate(x, i) <=> IsUpdate(w, i + 1)
                          /\ SeqAt(x, i) = SeqAt(w, i + 1)
  BY <1>1 DEF IsUpdate, SeqAt
<1>3. \A i \in DOMAIN w : i \in Nat /\ 1 <= i
  BY <1>1
<1>4. ASSUME NEW n, OnWire(w, n)
      PROVE  OnWire(x, n) \/ (IsUpdate(w, 1) /\ SeqAt(w, 1) = n)
  <2>1. PICK i \in DOMAIN w : IsUpdate(w, i) /\ SeqAt(w, i) = n
    BY <1>4 DEF OnWire
  <2>2. CASE i # 1
    BY <1>1, <2>1, <2>2 DEF OnWire, IsUpdate, SeqAt
  <2> QED
    BY <2>1, <2>2
<1>5. \A n : Past(w, n) => Past(x, n)
  BY <1>1, <1>2 DEF Past
<1> QED
  BY <1>1, <1>2, <1>3, <1>4, <1>5 DEF x

LEMMA StreamLess ==
  ASSUME NEW L, NEW h, NEW w, StreamOk(L, h, w), w # <<>>
  PROVE  StreamOk(L, h, Tail(w))
<1> DEFINE x == Tail(w)
<1>1. IsSequence(w)
  BY DEF StreamOk
<1>2. /\ IsSequence(x)
      /\ \A i \in DOMAIN x : /\ i + 1 \in DOMAIN w /\ x[i] = w[i + 1] /\ i \in Nat
                             /\ IsUpdate(x, i) <=> IsUpdate(w, i + 1)
                             /\ SeqAt(x, i) = SeqAt(w, i + 1)
      /\ \A n : Past(w, n) => Past(x, n)
  BY <1>1, WireLess
<1> HIDE DEF x
<1>3. \A i, j \in DOMAIN x : i < j => i + 1 < j + 1
  BY <1>2
<1>4. StreamOk(L, h, x)
  BY <1>2, <1>3 DEF StreamOk
<1> QED
  BY <1>4 DEF x

\* An update is taken that the collection holds, or has written.
LEMMA StreamHeld ==
  ASSUME NEW L, NEW h, NEW w, StreamOk(L, h, w), w # <<>>, IsUpdate(w, 1)
  PROVE  /\ Head(w) = w[1] /\ TellsOf(L, w[1].update)
         /\ Past(Tail(w), SeqAt(w, 1))
         /\ \A i \in DOMAIN h : h[i].seq < SeqAt(w, 1)
         /\ StreamOk(L, Append(h, w[1].update), Tail(w))
         /\ StreamOk(L, <<>>, Tail(w))
<1> DEFINE x == Tail(w)
           u == w[1].update
           g == Append(h, u)
<1>1. IsSequence(w) /\ IsSequence(h)
  BY DEF StreamOk
<1>2. /\ Head(w) = w[1] /\ 1 \in DOMAIN w
      /\ \A i \in DOMAIN x : /\ i + 1 \in DOMAIN w /\ i \in Nat
                             /\ IsUpdate(x, i) <=> IsUpdate(w, i + 1)
                             /\ SeqAt(x, i) = SeqAt(w, i + 1)
      /\ \A i \in DOMAIN w : i \in Nat /\ 1 <= i
  BY <1>1, WireLess
<1>3. TellsOf(L, u) /\ SeqAt(w, 1) = u.seq
  BY <1>2 DEF StreamOk, SeqAt
<1>4. StreamOk(L, h, x)
  BY StreamLess
<1> HIDE DEF x
<1>5. Past(x, u.seq)
  <2> SUFFICES ASSUME NEW i \in DOMAIN x, IsUpdate(x, i)
               PROVE  u.seq < SeqAt(x, i)
    BY DEF Past
  <2>1. i + 1 \in DOMAIN w /\ 1 < i + 1
    <3>1. 1 <= i
      <4>1. IsSequence(x)
        BY <1>4 DEF StreamOk
      <4> QED
        BY <4>1, LenProperties DEF IsSequence
    <3> QED
      BY <1>2, <3>1
  <2> QED
    BY <1>2, <1>3, <2>1 DEF StreamOk
<1>6. \A i \in DOMAIN h : h[i].seq < u.seq
  BY <1>2, <1>3 DEF StreamOk, Past
<1>7. StreamOk(L, g, x)
  <2>1. /\ IsSequence(g) /\ Len(h) \in Nat /\ DOMAIN h = 1 .. Len(h)
        /\ DOMAIN g = 1 .. Len(h) + 1
        /\ \A i \in DOMAIN h : g[i] = h[i]
        /\ g[Len(h) + 1] = u
    BY <1>1, AppendAt
  <2> HIDE DEF g, u
  <2>2. \A i \in DOMAIN g : i \in DOMAIN h \/ i = Len(h) + 1
    BY <2>1
  <2>3. \A i \in DOMAIN g : TellsOf(L, g[i]) /\ Past(x, g[i].seq)
    BY <1>3, <1>4, <1>5, <2>1, <2>2 DEF StreamOk
  <2>4. ASSUME NEW i \in DOMAIN g, NEW j \in DOMAIN g, i < j
        PROVE  g[i].seq < g[j].seq
    <3>1. i \in DOMAIN h
      BY <2>1, <2>4
    <3>2. CASE j \in DOMAIN h
      BY <2>1, <2>4, <3>1, <3>2 DEF StreamOk
    <3>3. CASE j = Len(h) + 1
      BY <1>6, <2>1, <3>1, <3>3
    <3> QED
      BY <2>2, <3>2, <3>3
  <2> QED
    BY <1>4, <2>1, <2>3, <2>4 DEF StreamOk
<1>8. StreamOk(L, <<>>, x)
  BY <1>4, EmptyAt DEF StreamOk
<1> QED
  BY <1>2, <1>3, <1>5, <1>6, <1>7, <1>8 DEF x

LEMMA AnswersLess ==
  ASSUME NEW L, NEW w, IsSequence(w), w # <<>>, w[1].type \notin Answers,
         NEW from, AnswersOk(L, w, from), Len(L) \in Nat,
         IsUpdate(w, 1) => SeqAt(w, 1) \in Nat
  PROVE  AnswersOk(L, Tail(w), from)
<1> DEFINE x == Tail(w)
<1>1. /\ \A i \in DOMAIN x : /\ i + 1 \in DOMAIN w /\ x[i] = w[i + 1] /\ i \in Nat
                             /\ IsUpdate(x, i) <=> IsUpdate(w, i + 1)
                             /\ SeqAt(x, i) = SeqAt(w, i + 1)
  BY WireLess
<1>2. \A n : OnWire(w, n) => OnWire(x, n) \/ (IsUpdate(w, 1) /\ SeqAt(w, 1) = n)
  BY WireLess
<1> HIDE DEF x
<1>3. ASSUME NEW i \in DOMAIN x, AnswerOk(L, w, i + 1)
      PROVE  AnswerOk(L, x, i)
  <2>1. x[i].watermark \in 0 .. Len(L) /\ x[i] = w[i + 1]
    BY <1>1, <1>3 DEF AnswerOk
  <2>2. ASSUME NEW j \in DOMAIN x, IsUpdate(x, j)
        PROVE  i < j <=> x[i].watermark < SeqAt(x, j)
    <3>1. j + 1 \in DOMAIN w /\ IsUpdate(w, j + 1) /\ (i + 1 < j + 1 <=> i < j)
      BY <1>1, <2>2
    <3> QED
      BY <1>1, <1>3, <2>1, <3>1 DEF AnswerOk
  <2>3. \A m \in x[i].watermark + 1 .. Len(L) : OnWire(w, m)
    BY <1>3, <2>1 DEF AnswerOk, Reached
  <2>4. IsUpdate(w, 1) => SeqAt(w, 1) <= x[i].watermark
    <3>1. ~(i + 1 < 1)
      <4>1. IsSequence(x)
        BY WireLess DEF x
      <4> QED
        BY <1>1, <4>1
    <3> QED
      BY <1>1, <1>3, <2>1, <3>1 DEF AnswerOk, IsUpdate
  <2>5. Reached(L, x, x[i].watermark)
    BY <1>2, <2>1, <2>3, <2>4 DEF Reached
  <2> QED
    BY <2>1, <2>2, <2>5 DEF AnswerOk
<1>4. \A i, j \in DOMAIN x : i + 1 = j + 1 => i = j
  BY <1>1
<1>5. \A i, j \in DOMAIN x : x[i].type \in Answers /\ x[j].type \in Answers => i = j
  BY <1>1, <1>4 DEF AnswersOk
<1>6. AnswersOk(L, x, from)
  BY <1>1, <1>3, <1>5 DEF AnswersOk
<1> QED
  BY <1>6 DEF x

\* A wire without an answer.
LEMMA AnswersNone ==
  ASSUME NEW L, NEW w, \A i \in DOMAIN w : w[i].type \notin Answers, NEW from
  PROVE  AnswersOk(L, w, from)
BY DEF AnswersOk, Answers

-----------------------------------------------------------------------------
(* Requests and answers, one more or one less.                             *)
OnlyPushes(r) == \A i \in DOMAIN r : r[i].type = "push"
NoAnswers(w) == \A i \in DOMAIN w : w[i].type \in {"updates", "answer"}

LEMMA RequestsNone ==
  ASSUME NEW r, NEW w, OnlyPushes(r), NoAnswers(w), NEW at, NEW from
  PROVE  RequestsOk(r, w, at, from)
BY DEF RequestsOk, OnlyPushes, NoAnswers, Answers

LEMMA NoneRequested ==
  ASSUME NEW r, NEW w, NEW at, NEW from, RequestsOk(r, w, at, from),
         at \notin {"loading", "recovering"}
  PROVE  OnlyPushes(r) /\ NoAnswers(w)
BY DEF RequestsOk, OnlyPushes, NoAnswers

LEMMA RequestsPush ==
  ASSUME NEW r, IsSequence(r), NEW m, m.type = "push",
         NEW w, NEW at, NEW from, RequestsOk(r, w, at, from)
  PROVE  RequestsOk(Append(r, m), w, at, from)
<1> DEFINE s == Append(r, m)
<1>1. /\ Len(r) \in Nat /\ DOMAIN r = 1 .. Len(r) /\ DOMAIN s = 1 .. Len(r) + 1
      /\ \A i \in DOMAIN r : s[i] = r[i]
      /\ s[Len(r) + 1] = m
  BY AppendAt
<1> HIDE DEF s
<1>2. \A i \in DOMAIN s : (i \in DOMAIN r /\ s[i] = r[i]) \/ s[i].type = "push"
  <2> TAKE i \in DOMAIN s
  <2>1. i \in DOMAIN r \/ i = Len(r) + 1
    BY <1>1
  <2> QED
    BY <1>1, <2>1
<1>3. RequestsOk(s, w, at, from)
  BY <1>2 DEF RequestsOk
<1> QED
  BY <1>3 DEF s

LEMMA RequestsTail ==
  ASSUME NEW r, IsSequence(r), r # <<>>, NEW w, NEW at, NEW from, RequestsOk(r, w, at, from)
  PROVE  /\ RequestsOk(Tail(r), w, at, from)
         /\ Head(r).type # "push" => /\ OnlyPushes(Tail(r))
                                     /\ \A i \in DOMAIN w : w[i].type \notin Answers
<1> DEFINE s == Tail(r)
<1>1. /\ Head(r) = r[1] /\ 1 \in DOMAIN r /\ Len(r) \in Nat
      /\ DOMAIN s = 1 .. Len(r) - 1
      /\ \A i \in DOMAIN s : i + 1 \in DOMAIN r /\ s[i] = r[i + 1]
  BY TailAt
<1> HIDE DEF s
<1>2. \A i, j \in DOMAIN s : i + 1 = j + 1 => i = j
  BY <1>1
<1>3. \A i, j \in DOMAIN s : s[i].type # "push" /\ s[j].type # "push" => i = j
  BY <1>1, <1>2 DEF RequestsOk
<1>4. RequestsOk(s, w, at, from)
  BY <1>1, <1>3 DEF RequestsOk
<1>5. \A i \in DOMAIN s : i + 1 # 1
  BY <1>1
<1>6. r[1].type # "push" => OnlyPushes(s) /\ \A i \in DOMAIN w : w[i].type \notin Answers
  BY <1>1, <1>5 DEF RequestsOk, OnlyPushes
<1> QED
  BY <1>1, <1>4, <1>6 DEF s

LEMMA RequestsMore ==
  ASSUME NEW w, IsSequence(w), NEW m, m.type \in {"updates", "answer"},
         NEW r, NEW at, NEW from, RequestsOk(r, w, at, from)
  PROVE  RequestsOk(r, Append(w, m), at, from)
<1> DEFINE x == Append(w, m)
<1>1. /\ Len(w) \in Nat /\ DOMAIN w = 1 .. Len(w) /\ DOMAIN x = 1 .. Len(w) + 1
      /\ \A i \in DOMAIN w : x[i] = w[i]
      /\ x[Len(w) + 1] = m
  BY AppendAt
<1> HIDE DEF x
<1>2. \A i \in DOMAIN x : (i \in DOMAIN w /\ x[i] = w[i]) \/ x[i].type \in {"updates", "answer"}
  <2> TAKE i \in DOMAIN x
  <2>1. i \in DOMAIN w \/ i = Len(w) + 1
    BY <1>1
  <2> QED
    BY <1>1, <2>1
<1>3. RequestsOk(r, x, at, from)
  BY <1>2 DEF RequestsOk, Answers
<1> QED
  BY <1>3 DEF x

\* The shard takes the request and answers it.
LEMMA RequestsAnswered ==
  ASSUME NEW w, IsSequence(w), NEW m, NEW at, NEW from,
         (m.type = "rows" /\ at = "loading") \/ (m.type = "changes" /\ at = "recovering"),
         NEW r, OnlyPushes(r),
         \A i \in DOMAIN w : \/ w[i].type \in {"updates", "answer"}
                             \/ w[i].type = "rows" /\ at = "loading"
                             \/ w[i].type = "changes" /\ at = "recovering"
  PROVE  RequestsOk(r, Append(w, m), at, from)
<1> DEFINE x == Append(w, m)
<1>1. /\ Len(w) \in Nat /\ DOMAIN w = 1 .. Len(w) /\ DOMAIN x = 1 .. Len(w) + 1
      /\ \A i \in DOMAIN w : x[i] = w[i]
      /\ x[Len(w) + 1] = m
  BY AppendAt
<1> HIDE DEF x
<1>2. \A i \in DOMAIN x : (i \in DOMAIN w /\ x[i] = w[i]) \/ x[i] = m
  <2> TAKE i \in DOMAIN x
  <2>1. i \in DOMAIN w \/ i = Len(w) + 1
    BY <1>1
  <2> QED
    BY <1>1, <2>1
<1>3. RequestsOk(r, x, at, from)
  BY <1>2 DEF RequestsOk, OnlyPushes
<1> QED
  BY <1>3 DEF x

LEMMA RequestsLess ==
  ASSUME NEW w, IsSequence(w), w # <<>>, NEW r, NEW at, NEW from, RequestsOk(r, w, at, from)
  PROVE  RequestsOk(r, Tail(w), at, from)
<1> DEFINE x == Tail(w)
<1>1. \A i \in DOMAIN x : i + 1 \in DOMAIN w /\ x[i] = w[i + 1]
  BY TailAt
<1> HIDE DEF x
<1>2. RequestsOk(r, x, at, from)
  BY <1>1 DEF RequestsOk
<1> QED
  BY <1>2 DEF x

\* Its answer is taken: no request and no answer remains.
LEMMA RequestsDone ==
  ASSUME NEW L, NEW w, IsSequence(w), w # <<>>, w[1].type \in Answers,
         NEW r, NEW at, NEW from, RequestsOk(r, w, at, from), AnswersOk(L, w, from)
  PROVE  OnlyPushes(r) /\ NoAnswers(Tail(w))
<1> DEFINE x == Tail(w)
<1>1. /\ 1 \in DOMAIN w /\ Len(w) \in Nat
      /\ DOMAIN x = 1 .. Len(w) - 1
      /\ \A i \in DOMAIN x : i + 1 \in DOMAIN w /\ x[i] = w[i + 1]
  BY TailAt
<1> HIDE DEF x
<1>2. OnlyPushes(r)
  BY <1>1 DEF RequestsOk, OnlyPushes
<1>3. ASSUME NEW i \in DOMAIN x
      PROVE  x[i].type \in {"updates", "answer"}
  <2>1. i + 1 # 1 /\ i + 1 \in DOMAIN w
    BY <1>1
  <2>2. w[i + 1].type \notin Answers
    BY <1>1, <2>1 DEF AnswersOk
  <2>3. w[i + 1].type \in {"updates", "answer"}
    BY <2>1, <2>2 DEF RequestsOk, Answers
  <2> QED
    BY <1>1, <2>3
<1> QED
  BY <1>2, <1>3 DEF NoAnswers, x

-----------------------------------------------------------------------------
(* The mutations: what they are stays, and none opens again.               *)
Goes(t, u) ==
  /\ u.key = t.key /\ u.type = t.type /\ u.id = t.id /\ u.attempt # 0
  /\ u.state \in Open => t.state \in Open
  /\ u.state \in Open /\ u.attempt = 1 => t.attempt = 1

Stay(ts, us) ==
  /\ DOMAIN us = DOMAIN ts
  /\ \A i \in DOMAIN ts : Goes(ts[i], us[i])

LEMMA EntriesStay ==
  ASSUME NEW L, NEW ts, EntriesOk(L, ts), NEW us, Stay(ts, us)
  PROVE  EntriesOk(L, us)
BY DEF EntriesOk, Stay, Goes

LEMMA EntriesGrow ==
  ASSUME NEW L, NEW ts, EntriesOk(L, ts), NEW c \in Changes,
         c.tx # 0 => c.tx \in DOMAIN ts /\ c.key = ts[c.tx].key /\ c.type = ts[c.tx].type
  PROVE  EntriesOk(Append(L, c), ts)
<1> DEFINE M == Append(L, c)
<1>1. L \in Seq(Changes)
  BY DEF EntriesOk
<1>2. /\ M \in Seq(Changes) /\ Len(M) = Len(L) + 1 /\ Len(L) \in Nat
      /\ \A n \in 1 .. Len(L) : M[n] = L[n]
      /\ M[Len(L) + 1] = c
      /\ DOMAIN L = 1 .. Len(L) /\ DOMAIN M = 1 .. Len(M)
  <2>1. M \in Seq(Changes)
    BY <1>1, LogGrown
  <2> QED
    BY <1>1, <2>1, LogGrown, LogAt
<1> HIDE DEF M
<1>3. \A n \in DOMAIN M : (n \in DOMAIN L /\ M[n] = L[n]) \/ M[n] = c
  BY <1>2
<1>4. EntriesOk(M, ts)
  BY <1>2, <1>3 DEF EntriesOk
<1> QED
  BY <1>4 DEF M

LEMMA FailureGoes ==
  ASSUME NEW tx \in Mutations, tx.attempt # 0, tx.state \in Open
  PROVE  /\ Goes(tx, AfterFailure(tx))
         /\ AfterFailure(tx).state = "waiting" => AfterFailure(tx).attempt # 1
<1>1. CASE tx.attempt < MaxAttempts
  <2> DEFINE u == [tx EXCEPT !.state = "waiting", !.attempt = @ + 1]
  <2>1. tx.attempt \in Nat
    BY DEF Mutations
  <2>2. /\ u.key = tx.key /\ u.type = tx.type /\ u.id = tx.id
        /\ u.state = "waiting" /\ u.attempt = tx.attempt + 1
    BY DEF Mutations
  <2>3. u.attempt # 0 /\ u.attempt # 1
    BY <2>1, <2>2
  <2> HIDE DEF u
  <2>4. AfterFailure(tx) = u
    BY <1>1 DEF AfterFailure, u
  <2> QED
    BY <2>2, <2>3, <2>4 DEF Goes, Open
<1>2. CASE ~(tx.attempt < MaxAttempts)
  <2> DEFINE u == [tx EXCEPT !.state = "failed"]
  <2>1. /\ u.key = tx.key /\ u.type = tx.type /\ u.id = tx.id
        /\ u.state = "failed" /\ u.attempt = tx.attempt
    BY DEF Mutations
  <2> HIDE DEF u
  <2>2. AfterFailure(tx) = u
    BY <1>2 DEF AfterFailure, u
  <2> QED
    BY <2>1, <2>2 DEF Goes, Open
<1> QED
  BY <1>1, <1>2

LEMMA StateGoes ==
  ASSUME NEW tx \in Mutations, tx.attempt # 0, NEW state,
         state \in Open => tx.state \in Open
  PROVE  LET u == [tx EXCEPT !.state = state] IN
         /\ Goes(tx, u) /\ u.state = state /\ u.attempt = tx.attempt
<1> DEFINE u == [tx EXCEPT !.state = state]
<1>1. /\ u.key = tx.key /\ u.type = tx.type /\ u.id = tx.id
      /\ u.state = state /\ u.attempt = tx.attempt
  BY DEF Mutations
<1> HIDE DEF u
<1> QED
  BY <1>1 DEF Goes, u

LEMMA TxsAre ==
  ASSUME PushInv, EntriesOk(log, txs)
  PROVE  /\ txs \in Seq(Mutations) /\ Len(txs) \in Nat /\ DOMAIN txs = Txs
         /\ Txs = 1 .. Len(txs)
         /\ \A i \in Txs : txs[i] \in Mutations /\ txs[i].id = i /\ txs[i].attempt # 0
                           /\ Goes(txs[i], txs[i])
<1>1. txs \in Seq(Mutations)
  BY DEF PushInv, CountersOk
<1>2. Len(txs) \in Nat /\ DOMAIN txs = Txs /\ Txs = 1 .. Len(txs)
  BY <1>1, LenProperties DEF Txs
<1>3. \A i \in Txs : txs[i] \in Mutations
  BY <1>1, MutationAt
<1> QED
  BY <1>1, <1>2, <1>3 DEF EntriesOk, Goes

LEMMA OneStays ==
  ASSUME PushInv, EntriesOk(log, txs), NEW i \in Txs, NEW tx, Goes(txs[i], tx),
         txs' = [txs EXCEPT ![i] = tx]
  PROVE  /\ Stay(txs, txs') /\ txs'[i] = tx
         /\ \A j \in Txs : j # i => txs'[j] = txs[j]
<1>1. /\ DOMAIN txs = Txs /\ \A j \in Txs : Goes(txs[j], txs[j])
      /\ txs' = [j \in DOMAIN txs |-> IF j = i THEN tx ELSE txs[j]]
  <2>1. DOMAIN txs = Txs /\ \A j \in Txs : Goes(txs[j], txs[j])
    BY TxsAre
  <2>2. txs \in [DOMAIN txs -> Mutations]
    BY <2>1, TxsAre
  <2> QED
    BY <2>1, <2>2
<1> QED
  BY <1>1 DEF Stay

-----------------------------------------------------------------------------
(* The steps, over the log, what is held and what is on the way.           *)

\* A push is sent.
LEMMA ConnPush ==
  ASSUME NEW L, NEW h, NEW w, NEW r, IsSequence(r), NEW at, NEW on, on = TRUE, NEW n, NEW rows,
         ConnOk(L, h, w, r, at, on, n, rows), NEW m, m.type = "push"
  PROVE  ConnOk(L, h, w, Append(r, m), at, on, n, rows)
<1>1. RequestsOk(Append(r, m), w, at, n)
  BY RequestsPush DEF ConnOk
<1>2. SocketOk(at, on, Append(r, m), w)
  BY DEF ConnOk, SocketOk
<1> QED
  BY <1>1, <1>2 DEF ConnOk

\* The shard takes a request.
LEMMA ConnTaken ==
  ASSUME NEW L, NEW h, NEW w, NEW r, IsSequence(r), r # <<>>, NEW at, NEW on, NEW n,
         NEW rows, ConnOk(L, h, w, r, at, on, n, rows)
  PROVE  ConnOk(L, h, w, Tail(r), at, on, n, rows) /\ on = TRUE
<1>1. RequestsOk(Tail(r), w, at, n)
  BY RequestsTail DEF ConnOk
<1>2. on = TRUE /\ SocketOk(at, on, Tail(r), w)
  BY DEF ConnOk, SocketOk
<1> QED
  BY <1>1, <1>2 DEF ConnOk

\* The shard sends a message, after a change or not.
LEMMA ConnTells ==
  ASSUME NEW L, NEW M, NEW m, Sends(L, M, m), m.type \in {"updates", "answer"},
         NEW h, NEW w, NEW r, NEW at, NEW on, on = TRUE, NEW n, NEW rows,
         ConnOk(L, h, w, r, at, on, n, rows)
  PROVE  ConnOk(M, h, Append(w, m), r, at, on, n, rows)
<1>1. StreamOk(L, h, w) /\ IsSequence(w)
  BY DEF ConnOk, StreamOk
<1>2. StreamOk(M, h, Append(w, m))
  BY <1>1, StreamMore
<1>3. AnswersOk(M, Append(w, m), n)
  <2>1. m.type \notin Answers
    BY DEF Answers
  <2> QED
    BY <1>1, <2>1, AnswersMore DEF ConnOk
<1>4. RequestsOk(r, Append(w, m), at, n)
  BY <1>1, RequestsMore DEF ConnOk
<1>5. SocketOk(at, on, r, Append(w, m))
  BY DEF ConnOk, SocketOk
<1>6. RowsOk(M, h, Append(w, m), at, n, rows)
  BY <1>1, RowsMore DEF ConnOk
<1> QED
  BY <1>2, <1>3, <1>4, <1>5, <1>6 DEF ConnOk

\* The log grows while no socket is open.
LEMMA ConnGrows ==
  ASSUME NEW L \in Seq(Changes), NEW M \in Seq(Changes), Len(L) <= Len(M),
         \A i \in 1 .. Len(L) : M[i] = L[i],
         NEW h, NEW w, NEW r, NEW at, NEW on, on = FALSE, NEW n, NEW rows,
         ConnOk(L, h, w, r, at, on, n, rows)
  PROVE  ConnOk(M, h, w, r, at, on, n, rows)
<1>1. w = <<>> /\ at \notin OnSocket
  BY DEF ConnOk, SocketOk
<1>2. StreamOk(M, h, w)
  BY StreamLonger DEF ConnOk
<1>3. AnswersOk(M, w, n)
  BY <1>1, EmptyAt, AnswersNone
<1>4. RowsOk(M, h, w, at, n, rows)
  <2>1. Len(L) \in Nat /\ Len(M) \in Nat
    BY LogAt
  <2>2. at \in WithRows => n \in 0 .. Len(M) /\ RowsAre(M, n, rows)
    BY <2>1, RowsStay DEF ConnOk, RowsOk
  <2> QED
    BY <1>1, <2>2 DEF RowsOk, OnSocket
<1> QED
  BY <1>2, <1>3, <1>4 DEF ConnOk

\* The shard answers a read or a catch-up.
LEMMA ConnAnswers ==
  ASSUME NEW L \in Seq(Changes), NEW h, NEW w, NEW r, IsSequence(r), r # <<>>,
         NEW at, NEW on, on = TRUE, NEW n, NEW rows, ConnOk(L, h, w, r, at, on, n, rows),
         NEW m, m.watermark = Len(L),
         \/ Head(r).type = "read" /\ m.type = "rows" /\ RowsAre(L, Len(L), m.rows)
         \/ /\ Head(r).type = "changes" /\ m.type = "changes"
            /\ n <= Len(L) => PageOk(L, m.updates, n, Len(L))
  PROVE  ConnOk(L, h, Append(w, m), Tail(r), at, on, n, rows)
<1>1. StreamOk(L, h, w) /\ IsSequence(w)
  BY DEF ConnOk, StreamOk
<1>2. Head(r) = r[1] /\ 1 \in DOMAIN r
  BY TailAt
<1>3. OnlyPushes(Tail(r)) /\ \A i \in DOMAIN w : w[i].type \notin Answers
  BY RequestsTail DEF ConnOk
<1>4. \/ m.type = "rows" /\ at = "loading" /\ RowsAre(L, Len(L), m.rows)
      \/ /\ m.type = "changes" /\ at = "recovering" /\ n <= Len(L)
         /\ PageOk(L, m.updates, n, Len(L))
  <2>1. \/ Head(r).type = "push"
        \/ Head(r).type = "read" /\ at = "loading"
        \/ Head(r).type = "changes" /\ at = "recovering"
    BY <1>2 DEF ConnOk, RequestsOk
  <2>2. at = "recovering" => n <= Len(L)
    <3>1. Len(L) \in Nat
      BY LogAt
    <3> QED
      BY <3>1 DEF ConnOk, RowsOk, WithRows
  <2> QED
    BY <2>1, <2>2
<1>5. StreamOk(L, h, Append(w, m)) /\ RowsOk(L, h, Append(w, m), at, n, rows)
  <2>1. Sends(L, L, m)
    BY <1>4 DEF Sends
  <2> QED
    BY <1>1, <2>1, StreamMore, RowsMore DEF ConnOk
<1>6. AnswersOk(L, Append(w, m), n)
  BY <1>1, <1>3, <1>4, AnswersNew DEF Answers
<1>7. RequestsOk(Tail(r), Append(w, m), at, n)
  <2>1. \A i \in DOMAIN w : \/ w[i].type \in {"updates", "answer"}
                            \/ w[i].type = "rows" /\ at = "loading"
                            \/ w[i].type = "changes" /\ at = "recovering"
    BY DEF ConnOk, RequestsOk
  <2>2. (m.type = "rows" /\ at = "loading") \/ (m.type = "changes" /\ at = "recovering")
    BY <1>4
  <2> QED
    BY <1>1, <1>3, <2>1, <2>2, RequestsAnswered
<1>8. SocketOk(at, on, Tail(r), Append(w, m))
  BY DEF ConnOk, SocketOk
<1> QED
  BY <1>5, <1>6, <1>7, <1>8 DEF ConnOk

-----------------------------------------------------------------------------
\* The socket or the tab is lost.
LEMMA ConnLost ==
  ASSUME NEW L \in Seq(Changes), NEW h, NEW w, NEW r, NEW at, NEW on, NEW n, NEW rows, NEW off, off = FALSE,
         ConnOk(L, h, w, r, at, on, n, rows)
  PROVE  /\ \A m, s : ConnOk(L, <<>>, <<>>, <<>>, "closed", off, m, s)
         /\ at = "subscribing" => ConnOk(L, h, <<>>, <<>>, at, off, n, rows)
         /\ at \in {"synced", "recovering"} =>
              ConnOk(L, h, <<>>, <<>>, "disconnected", off, n, rows)
<1> DEFINE none == <<>>
<1>1. DOMAIN none = {} /\ IsSequence(none)
  BY EmptyAt
<1>2. StreamOk(L, h, none) /\ StreamOk(L, none, none)
  BY <1>1 DEF ConnOk, StreamOk, IsUpdate, Past
<1>3. \A m : AnswersOk(L, none, m)
  BY <1>1, AnswersNone
<1>4. \A a, m : RequestsOk(none, none, a, m)
  BY <1>1 DEF RequestsOk
<1>5. \A a \in {"closed", "subscribing", "disconnected"} : SocketOk(a, off, none, none)
  BY DEF SocketOk, OnSocket
<1>6. \A m, s : RowsOk(L, none, none, "closed", m, s)
  BY DEF RowsOk, WithRows
<1>7. \A m, s : RowsOk(L, h, none, "subscribing", m, s)
  BY DEF RowsOk, WithRows
<1>8. at \in {"synced", "recovering"} => RowsOk(L, h, none, "disconnected", n, rows)
  BY DEF ConnOk, RowsOk, WithRows
<1> HIDE DEF none
<1>9. \A m, s : ConnOk(L, none, none, none, "closed", off, m, s)
  BY <1>2, <1>3, <1>4, <1>5, <1>6 DEF ConnOk
<1>10. at = "subscribing" => ConnOk(L, h, none, none, at, off, n, rows)
  BY <1>2, <1>3, <1>4, <1>5, <1>7 DEF ConnOk
<1>11. at \in {"synced", "recovering"} => ConnOk(L, h, none, none, "disconnected", off, n, rows)
  BY <1>2, <1>3, <1>4, <1>5, <1>8 DEF ConnOk
<1> QED
  BY <1>9, <1>10, <1>11 DEF none

\* start, hydrate and connectOnce (open): no rows count yet.
LEMMA ConnOpens ==
  ASSUME NEW L, NEW h, NEW w, NEW r, NEW at, NEW on, NEW n, NEW rows, NEW yes, yes = TRUE,
         ConnOk(L, h, w, r, at, on, n, rows)
  PROVE  /\ at = "closed" => ConnOk(L, h, w, r, "hydrating", on, n, rows)
         /\ \A s : at = "hydrating" => ConnOk(L, h, w, r, "subscribing", on, n, s)
         /\ at \in {"hydrating", "subscribing"} => ConnOk(L, h, w, r, at, yes, n, rows)
<1>1. at \in {"closed", "hydrating", "subscribing"} =>
        \A a \in {"hydrating", "subscribing"} : \A s :
          RequestsOk(r, w, a, n) /\ RowsOk(L, h, w, a, n, s)
  BY NoneRequested, RequestsNone DEF ConnOk, RowsOk, WithRows
<1>2. at \in {"closed", "hydrating", "subscribing"} =>
        \A a \in {"hydrating", "subscribing"} : SocketOk(a, on, r, w) /\ SocketOk(a, yes, r, w)
  BY DEF ConnOk, SocketOk, OnSocket
<1> QED
  BY <1>1, <1>2 DEF ConnOk

\* reconnected: a catch-up is the first request.
LEMMA ConnRecovers ==
  ASSUME NEW L, NEW h, NEW w, NEW r, NEW off, off = FALSE, NEW n, NEW rows,
         ConnOk(L, h, w, r, "disconnected", off, n, rows), NEW yes, yes = TRUE, NEW m,
         m.type = "changes", m.cursor = n
  PROVE  ConnOk(L, h, w, <<m>>, "recovering", yes, n, rows)
<1>1. w = <<>> /\ DOMAIN w = {}
  BY EmptyAt DEF ConnOk, SocketOk
<1>2. RequestsOk(<<m>>, w, "recovering", n)
  BY <1>1 DEF RequestsOk
<1>3. SocketOk("recovering", yes, <<m>>, w)
  BY DEF SocketOk, OnSocket
<1>4. RowsOk(L, h, w, "recovering", n, rows)
  BY <1>1 DEF ConnOk, RowsOk, WithRows, Past
<1> QED
  BY <1>2, <1>3, <1>4 DEF ConnOk

\* initialize: a read is the only request.
LEMMA ConnLoads ==
  ASSUME NEW L, NEW h, NEW w, NEW r, IsSequence(r), NEW on, on = TRUE, NEW n, NEW rows,
         ConnOk(L, h, w, r, "subscribing", on, n, rows), NEW m, m.type = "read"
  PROVE  ConnOk(L, h, w, Append(r, m), "loading", on, n, rows)
<1> DEFINE s == Append(r, m)
<1>1. OnlyPushes(r) /\ NoAnswers(w)
  BY NoneRequested DEF ConnOk
<1>2. /\ Len(r) \in Nat /\ DOMAIN r = 1 .. Len(r) /\ DOMAIN s = 1 .. Len(r) + 1
      /\ \A i \in DOMAIN r : s[i] = r[i]
      /\ s[Len(r) + 1] = m
  BY AppendAt
<1> HIDE DEF s
<1>3. \A i \in DOMAIN s : i # Len(r) + 1 => s[i].type = "push"
  BY <1>1, <1>2 DEF OnlyPushes
<1>4. RequestsOk(s, w, "loading", n)
  <2>1. \A i \in DOMAIN s : s[i].type = "push" \/ s[i].type = "read"
    BY <1>2, <1>3
  <2>2. \A i, j \in DOMAIN s : s[i].type # "push" /\ s[j].type # "push" => i = j
    BY <1>3
  <2> QED
    BY <1>1, <2>1, <2>2 DEF RequestsOk, NoAnswers, Answers
<1>5. SocketOk("loading", on, s, w)
  BY DEF SocketOk, OnSocket
<1>6. RowsOk(L, h, w, "loading", n, rows)
  BY DEF RowsOk, WithRows
<1> QED
  BY <1>4, <1>5, <1>6 DEF ConnOk, s

-----------------------------------------------------------------------------
\* The first message is taken, and it is no update: what is on the way stays.
LEMMA NotUpdate ==
  ASSUME NEW w, IsSequence(w), w # <<>>, w[1].type # "updates"
  PROVE  /\ \A n : OnWire(w, n) => OnWire(Tail(w), n)
         /\ \A n : Past(w, n) => Past(Tail(w), n)
BY WireLess DEF IsUpdate

\* An answer to a push.
LEMMA ConnAnswered ==
  ASSUME NEW L \in Seq(Changes), NEW h, NEW w, w # <<>>, w[1].type = "answer",
         NEW r, NEW at, NEW on, on = TRUE, NEW n, NEW rows,
         ConnOk(L, h, w, r, at, on, n, rows)
  PROVE  ConnOk(L, h, Tail(w), r, at, on, n, rows)
<1>1. StreamOk(L, h, w) /\ IsSequence(w) /\ Len(L) \in Nat
  BY LogAt DEF ConnOk, StreamOk
<1>2. StreamOk(L, h, Tail(w))
  BY <1>1, StreamLess
<1>3. AnswersOk(L, Tail(w), n)
  BY <1>1, AnswersLess DEF ConnOk, Answers, IsUpdate
<1>4. RequestsOk(r, Tail(w), at, n)
  BY <1>1, RequestsLess DEF ConnOk
<1>5. SocketOk(at, on, r, Tail(w))
  BY DEF ConnOk, SocketOk
<1>6. RowsOk(L, h, Tail(w), at, n, rows)
  BY <1>1, NotUpdate DEF ConnOk, RowsOk
<1> QED
  BY <1>2, <1>3, <1>4, <1>5, <1>6 DEF ConnOk

\* A held sequence with one update more.
LEMMA HeldMore ==
  ASSUME NEW h, IsSequence(h), NEW u
  PROVE  /\ \A m : Held(h, m) => Held(Append(h, u), m)
         /\ Held(Append(h, u), u.seq)
<1> DEFINE g == Append(h, u)
<1>1. /\ Len(h) \in Nat /\ DOMAIN h = 1 .. Len(h) /\ DOMAIN g = 1 .. Len(h) + 1
      /\ \A i \in DOMAIN h : g[i] = h[i]
      /\ g[Len(h) + 1] = u
  BY AppendAt
<1> HIDE DEF g
<1>2. Len(h) + 1 \in DOMAIN g /\ \A i \in DOMAIN h : i \in DOMAIN g
  BY <1>1
<1>3. (\A m : Held(h, m) => Held(g, m)) /\ Held(g, u.seq)
  BY <1>1, <1>2 DEF Held
<1> QED
  BY <1>3 DEF g

\* An update is held.
LEMMA ConnHolds ==
  ASSUME NEW L \in Seq(Changes), NEW h, NEW w, w # <<>>, w[1].type = "updates",
         NEW r, NEW at, at # "synced", NEW on, on = TRUE, NEW n, NEW rows,
         ConnOk(L, h, w, r, at, on, n, rows)
  PROVE  ConnOk(L, Append(h, w[1].update), Tail(w), r, at, on, n, rows)
<1> DEFINE g == Append(h, w[1].update)
<1>1. StreamOk(L, h, w) /\ IsSequence(w) /\ IsSequence(h) /\ Len(L) \in Nat
  BY LogAt DEF ConnOk, StreamOk
<1>2. IsUpdate(w, 1) /\ SeqAt(w, 1) = w[1].update.seq
  BY <1>1, WireLess DEF IsUpdate, SeqAt
<1>3. StreamOk(L, g, Tail(w))
  BY <1>1, <1>2, StreamHeld
<1>4. AnswersOk(L, Tail(w), n)
  <2>1. w[1].type \notin Answers /\ SeqAt(w, 1) \in Nat
    BY <1>1, <1>2, SeqsAre DEF Answers
  <2> QED
    BY <1>1, <2>1, AnswersLess DEF ConnOk
<1>5. RequestsOk(r, Tail(w), at, n)
  BY <1>1, RequestsLess DEF ConnOk
<1>6. SocketOk(at, on, r, Tail(w))
  BY DEF ConnOk, SocketOk
<1>7. RowsOk(L, g, Tail(w), at, n, rows)
  <2>1. \A m : OnWire(w, m) \/ Held(h, m) => OnWire(Tail(w), m) \/ Held(g, m)
    BY <1>1, <1>2, WireLess, HeldMore
  <2>2. \A m : Past(w, m) => Past(Tail(w), m)
    BY <1>1, WireLess
  <2> HIDE DEF g
  <2> QED
    BY <2>1, <2>2 DEF ConnOk, RowsOk
<1> QED
  BY <1>3, <1>4, <1>5, <1>6, <1>7 DEF ConnOk

\* A synced collection is told of every change, one after the other.
LEMMA NextUpdate ==
  ASSUME NEW L \in Seq(Changes), NEW h, NEW w, w # <<>>, w[1].type = "updates",
         NEW r, NEW on, on = TRUE, NEW n, NEW rows,
         ConnOk(L, h, w, r, "synced", on, n, rows)
  PROVE  /\ h = <<>> /\ n \in Nat /\ RowsAre(L, n, rows)
         /\ TellsOf(L, w[1].update) /\ w[1].update.seq = n + 1
<1>1. /\ StreamOk(L, h, w) /\ IsSequence(w) /\ Len(L) \in Nat
      /\ h = <<>> /\ n \in 0 .. Len(L) /\ RowsAre(L, n, rows)
      /\ Past(w, n)
      /\ \A m \in n + 1 .. Len(L) : OnWire(w, m) \/ Held(h, m)
  BY LogAt DEF ConnOk, StreamOk, RowsOk, WithRows
<1>2. \A m : ~Held(h, m)
  BY <1>1, EmptyAt DEF Held
<1>3. /\ IsUpdate(w, 1) /\ SeqAt(w, 1) = w[1].update.seq /\ 1 \in DOMAIN w
      /\ \A i \in DOMAIN w : i \in Nat /\ 1 <= i
  BY <1>1, WireLess DEF IsUpdate, SeqAt
<1>4. SeqAt(w, 1) \in Nat /\ SeqAt(w, 1) <= Len(L) /\ n < SeqAt(w, 1)
  BY <1>1, <1>3, SeqsAre DEF Past
<1>5. ~(n + 1 < SeqAt(w, 1))
  <2> SUFFICES ASSUME n + 1 < SeqAt(w, 1)
               PROVE  FALSE
    OBVIOUS
  <2>1. n + 1 \in n + 1 .. Len(L)
    BY <1>1, <1>4
  <2>2. OnWire(w, n + 1)
    BY <1>1, <1>2, <2>1
  <2>3. PICK i \in DOMAIN w : IsUpdate(w, i) /\ SeqAt(w, i) = n + 1
    BY <2>2 DEF OnWire
  <2>4. i # 1
    BY <1>1, <1>4, <2>3
  <2>5. SeqAt(w, 1) < SeqAt(w, i)
    BY <1>1, <1>3, <2>3, <2>4 DEF StreamOk
  <2> QED
    BY <1>1, <1>4, <2>3, <2>5
<1>6. SeqAt(w, 1) = n + 1
  BY <1>1, <1>4, <1>5
<1> QED
  BY <1>1, <1>3, <1>6, StreamHeld

\* It is written.
LEMMA ConnWrites ==
  ASSUME NEW L \in Seq(Changes), NEW h, NEW w, w # <<>>, w[1].type = "updates",
         NEW r, NEW on, on = TRUE, NEW n, NEW rows,
         ConnOk(L, h, w, r, "synced", on, n, rows),
         NEW s, RowsAre(L, w[1].update.seq, s)
  PROVE  ConnOk(L, h, Tail(w), r, "synced", on, w[1].update.seq, s)
<1> DEFINE to == w[1].update.seq
<1>1. /\ StreamOk(L, h, w) /\ IsSequence(w) /\ Len(L) \in Nat
      /\ \A m \in n + 1 .. Len(L) : OnWire(w, m) \/ Held(h, m)
  BY LogAt DEF ConnOk, StreamOk, RowsOk
<1>2. h = <<>> /\ n \in Nat /\ TellsOf(L, w[1].update) /\ to = n + 1
  <2> HIDE DEF to
  <2>1. h = <<>>
    BY NextUpdate
  <2>2. n \in Nat
    BY NextUpdate
  <2>3. TellsOf(L, w[1].update)
    BY NextUpdate
  <2>4. w[1].update.seq = n + 1
    BY NextUpdate
  <2> QED
    BY <2>1, <2>2, <2>3, <2>4 DEF to
<1>3. IsUpdate(w, 1) /\ SeqAt(w, 1) = to
  BY <1>1, WireLess DEF IsUpdate, SeqAt
<1>4. to \in 1 .. Len(L)
  BY <1>2 DEF TellsOf
<1> HIDE DEF to
<1>5. StreamOk(L, h, Tail(w)) /\ Past(Tail(w), to)
  BY <1>1, <1>2, <1>3, StreamHeld
<1>6. OnlyPushes(r) /\ NoAnswers(Tail(w))
  <2>1. OnlyPushes(r) /\ NoAnswers(w)
    BY NoneRequested DEF ConnOk
  <2> QED
    BY <1>1, <2>1, WireLess DEF NoAnswers
<1>7. AnswersOk(L, Tail(w), to) /\ RequestsOk(r, Tail(w), "synced", to)
  BY <1>6, AnswersNone, RequestsNone DEF NoAnswers, Answers
<1>8. SocketOk("synced", on, r, Tail(w))
  BY DEF ConnOk, SocketOk
<1>9. RowsOk(L, h, Tail(w), "synced", to, s)
  <2>1. \A m \in to + 1 .. Len(L) : m \in n + 1 .. Len(L) /\ m # to
    BY <1>1, <1>2, <1>4
  <2>2. \A m \in to + 1 .. Len(L) : OnWire(Tail(w), m) \/ Held(h, m)
    BY <1>1, <1>3, <2>1, WireLess
  <2>3. to \in 0 .. Len(L) /\ RowsAre(L, to, s)
    BY <1>4 DEF to
  <2> QED
    BY <1>2, <1>5, <2>2, <2>3 DEF RowsOk
<1> QED
  BY <1>5, <1>7, <1>8, <1>9 DEF ConnOk, to

-----------------------------------------------------------------------------
\* What an answer says of the shard, and what is behind it on the way.
LEMMA AnswerTells ==
  ASSUME NEW L \in Seq(Changes), NEW h, NEW w, w # <<>>, w[1].type \in Answers,
         NEW r, NEW at, NEW on, on = TRUE, NEW n, NEW rows,
         ConnOk(L, h, w, r, at, on, n, rows)
  PROVE  LET x == Tail(w)
             to == w[1].watermark
         IN  /\ to \in 0 .. Len(L) /\ Past(x, to) /\ \A m \in to + 1 .. Len(L) : OnWire(x, m)
             /\ StreamOk(L, h, x) /\ OnlyPushes(r) /\ NoAnswers(x)
             /\ w[1].type = "rows" => at = "loading" /\ RowsAre(L, to, w[1].rows)
             /\ w[1].type = "changes" =>
                  /\ at = "recovering" /\ n \in Nat /\ n <= to /\ RowsAre(L, n, rows)
                  /\ PageOk(L, w[1].updates, n, to)
<1> DEFINE x == Tail(w)
           to == w[1].watermark
<1>1. StreamOk(L, h, w) /\ IsSequence(w) /\ Len(L) \in Nat
  BY LogAt DEF ConnOk, StreamOk
<1>2. /\ 1 \in DOMAIN w
      /\ \A i \in DOMAIN x : /\ i + 1 \in DOMAIN w /\ i \in Nat
                             /\ IsUpdate(x, i) <=> IsUpdate(w, i + 1)
                             /\ SeqAt(x, i) = SeqAt(w, i + 1)
      /\ \A m : OnWire(w, m) => OnWire(x, m)
  BY <1>1, WireLess DEF IsUpdate, Answers
<1>3. AnswerOk(L, w, 1)
  BY <1>2 DEF ConnOk, AnswersOk, Answers
<1>4. StreamOk(L, h, x)
  BY <1>1, StreamLess
<1>5. OnlyPushes(r) /\ NoAnswers(x)
  BY <1>1, RequestsDone DEF ConnOk
<1>6. w[1].type = "rows" => at = "loading" /\ RowsAre(L, to, w[1].rows)
  BY <1>2 DEF ConnOk, AnswersOk, RequestsOk
<1>7. w[1].type = "changes" => at = "recovering" /\ n <= to /\ PageOk(L, w[1].updates, n, to)
  BY <1>2 DEF ConnOk, AnswersOk, RequestsOk
<1>8. at = "recovering" => n \in Nat /\ RowsAre(L, n, rows)
  BY <1>1 DEF ConnOk, RowsOk, WithRows
<1>9. to \in 0 .. Len(L) /\ \A m \in to + 1 .. Len(L) : OnWire(x, m)
  BY <1>2, <1>3 DEF AnswerOk, Reached
<1>10. Past(x, to)
  <2> SUFFICES ASSUME NEW i \in DOMAIN x, IsUpdate(x, i)
               PROVE  to < SeqAt(x, i)
    BY DEF Past
  <2> HIDE DEF x
  <2>1. i + 1 \in DOMAIN w /\ 1 < i + 1 /\ IsUpdate(w, i + 1) /\ SeqAt(x, i) = SeqAt(w, i + 1)
    BY <1>2
  <2> QED
    BY <1>3, <2>1 DEF AnswerOk
<1> QED
  BY <1>4, <1>5, <1>6, <1>7, <1>8, <1>9, <1>10

\* The rows of a read are taken: they are those of the shard at the watermark.
LEMMA ConnStores ==
  ASSUME NEW L \in Seq(Changes), NEW h, NEW w, w # <<>>, w[1].type = "rows",
         NEW r, NEW at, NEW on, on = TRUE, NEW n, NEW rows,
         ConnOk(L, h, w, r, at, on, n, rows)
  PROVE  ConnOk(L, h, Tail(w), r, "storing", on, w[1].watermark, w[1].rows)
<1> DEFINE x == Tail(w)
           to == w[1].watermark
           s == w[1].rows
<1>1. /\ to \in 0 .. Len(L) /\ Past(x, to) /\ \A m \in to + 1 .. Len(L) : OnWire(x, m)
      /\ StreamOk(L, h, x) /\ OnlyPushes(r) /\ NoAnswers(x)
      /\ RowsAre(L, to, s)
  <2>1. w[1].type \in Answers
    BY DEF Answers
  <2> QED
    BY <2>1, AnswerTells
<1> HIDE DEF x, to, s
<1>2. AnswersOk(L, x, to) /\ RequestsOk(r, x, "storing", to)
  BY <1>1, AnswersNone, RequestsNone DEF NoAnswers, Answers
<1>3. SocketOk("storing", on, r, x)
  BY DEF SocketOk, OnSocket
<1>4. RowsOk(L, h, x, "storing", to, s)
  BY <1>1 DEF RowsOk, WithRows
<1> QED
  BY <1>1, <1>2, <1>3, <1>4 DEF ConnOk, x, to, s

\* What is held is written.
LEMMA ConnFlushes ==
  ASSUME txs \in Seq(Mutations), NEW L \in Seq(Changes), NEW h, NEW w, StreamOk(L, h, w),
         NEW r, OnlyPushes(r), NoAnswers(w), NEW on, on = TRUE,
         NEW st \in Collections, st.cursor <= Len(L), RowsAre(L, st.cursor, st.rows),
         \A m \in st.cursor + 1 .. Len(L) : OnWire(w, m) \/ Held(h, m),
         Past(w, st.cursor)
  PROVE  LET end == Flushed(st, h) IN
         end.queue \in Seq(Ops) /\ ConnOk(L, <<>>, w, r, "synced", on, end.cursor, end.rows)
<1> DEFINE end == Flushed(st, h)
           to == end.cursor
           rows == end.rows
           none == <<>>
<1>1. /\ end \in Collections /\ st.cursor <= to /\ to <= Len(L)
      /\ RowsAre(L, to, rows)
      /\ \A i \in DOMAIN h : h[i].seq <= to
      /\ to = st.cursor \/ Held(h, to)
  BY FlushIs
<1> HIDE DEF end
<1>2. end.queue \in Seq(Ops) /\ to \in Nat /\ st.cursor \in Nat /\ Len(L) \in Nat
  BY <1>1, CollectionIs, LogAt
<1> HIDE DEF to, rows
<1>3. DOMAIN none = {} /\ IsSequence(none)
  BY EmptyAt
<1>4. Past(w, to)
  BY <1>1 DEF StreamOk, Held
<1>5. \A m \in to + 1 .. Len(L) : OnWire(w, m)
  <2> TAKE m \in to + 1 .. Len(L)
  <2>1. m \in st.cursor + 1 .. Len(L) /\ ~(m <= to)
    BY <1>1, <1>2
  <2>2. ~Held(h, m)
    BY <1>1, <2>1 DEF Held
  <2> QED
    BY <2>1, <2>2
<1>6. StreamOk(L, none, w)
  BY <1>3 DEF StreamOk
<1>7. AnswersOk(L, w, to) /\ RequestsOk(r, w, "synced", to)
  BY AnswersNone, RequestsNone DEF NoAnswers, Answers
<1>8. SocketOk("synced", on, r, w)
  BY DEF SocketOk, OnSocket
<1>9. RowsOk(L, none, w, "synced", to, rows)
  BY <1>1, <1>2, <1>4, <1>5 DEF RowsOk, WithRows
<1> HIDE DEF none
<1>10. ConnOk(L, none, w, r, "synced", on, to, rows)
  BY <1>6, <1>7, <1>8, <1>9 DEF ConnOk
<1> QED
  BY <1>2, <1>10 DEF end, to, rows, none

-----------------------------------------------------------------------------
LEMMA SyncAre ==
  ASSUME PushInv, SyncInv
  PROVE  /\ log \in Seq(Changes) /\ Len(log) \in Nat
         /\ txs \in Seq(Mutations) /\ queue \in Seq(Ops) /\ EntriesOk(log, txs)
         /\ IsSequence(toServer) /\ IsSequence(toClient) /\ IsSequence(buffered)
         /\ up \in BOOLEAN
         /\ ConnOk(log, buffered, toClient, toServer, session, up, cursor, synced)
<1>1. EntriesOk(log, txs) /\ queue \in Seq(Ops)
  BY DEF SyncInv
<1>2. ConnOk(log, buffered, toClient, toServer, session, up, cursor, synced)
  BY DEF SyncInv
<1>3. log \in Seq(Changes)
  BY <1>1 DEF EntriesOk
<1>4. up \in BOOLEAN
  BY <1>2 DEF ConnOk, SocketOk
<1>5. txs \in Seq(Mutations) /\ IsSequence(toServer) /\ IsSequence(toClient)
  BY DEF PushInv, CountersOk, MessagesOk
<1>6. IsSequence(buffered)
  BY <1>2 DEF ConnOk, StreamOk
<1> QED
  BY <1>1, <1>2, <1>3, <1>4, <1>5, <1>6, LogAt

LEMMA SyncInvInit == Init => SyncInv
<1> SUFFICES ASSUME Init
             PROVE  SyncInv
  OBVIOUS
<1> DEFINE none == <<>>
<1>1. DOMAIN none = {} /\ IsSequence(none) /\ Len(none) = 0
  BY EmptyAt
<1>2. none \in Seq(Changes) /\ none \in Seq(Ops)
  BY EmptySeq
<1>3. /\ log = none /\ toServer = none /\ toClient = none /\ txs = none /\ buffered = none
      /\ queue = none /\ session = "closed" /\ up = FALSE
  BY DEF Init
<1> HIDE DEF none
<1>4. EntriesOk(log, txs) /\ queue \in Seq(Ops)
  BY <1>1, <1>2, <1>3 DEF EntriesOk
<1>5. StreamOk(none, none, none)
  BY <1>1 DEF StreamOk, IsUpdate
<1>6. \A m : AnswersOk(none, none, m) /\ RequestsOk(none, none, "closed", m)
  BY <1>1, AnswersNone DEF RequestsOk
<1>7. SocketOk("closed", up, none, none)
  BY <1>3 DEF SocketOk, OnSocket, none
<1>8. \A m, s : RowsOk(none, none, none, "closed", m, s)
  BY DEF RowsOk, WithRows
<1> QED
  BY <1>3, <1>4, <1>5, <1>6, <1>7, <1>8 DEF SyncInv, ConnOk

\* start, hydrate, initialize, connectOnce and the cache.
LEMMA SyncInvAside ==
  ASSUME PushInv, SyncInv, Start \/ Hydrate \/ Connect \/ Load \/ Perform
  PROVE  SyncInv'
<1> USE SyncAre
<1>1. log' = log /\ txs' = txs /\ toClient' = toClient /\ buffered' = buffered /\ cursor' = cursor
  BY DEF Start, Hydrate, Connect, Load, Perform, shard, sync
<1>2. EntriesOk(log', txs')
  BY <1>1
<1>3. queue' \in Seq(Ops)
  <2>1. CASE Perform
    BY <2>1, HeadTailProperties DEF Perform
  <2>2. CASE ~Perform
    BY <2>2 DEF Start, Hydrate, Connect, Load, store
  <2> QED
    BY <2>1, <2>2
<1>4. ConnOk(log, buffered, toClient, toServer', session', up', cursor, synced')
  <2>1. CASE Perform
    BY <2>1 DEF Perform, sync
  <2>2. CASE Start
    <3>1. /\ session = "closed" /\ session' = "hydrating"
          /\ UNCHANGED <<toServer, up, synced>>
      BY <2>2 DEF Start
    <3>2. ConnOk(log, buffered, toClient, toServer, "hydrating", up, cursor, synced)
      BY <3>1, ConnOpens
    <3> QED
      BY <3>1, <3>2
  <2>3. CASE Hydrate
    <3>1. /\ session = "hydrating" /\ session' = "subscribing"
          /\ UNCHANGED <<toServer, up>>
      BY <2>3 DEF Hydrate
    <3>2. \A s : ConnOk(log, buffered, toClient, toServer, "subscribing", up, cursor, s)
      BY <3>1, ConnOpens
    <3> QED
      BY <3>1, <3>2
  <2>4. CASE Connect /\ session = "disconnected"
    <3> DEFINE m == [type |-> "changes", cursor |-> cursor]
    <3>1. /\ ~up /\ up' = TRUE /\ session' = "recovering" /\ toServer' = <<m>>
          /\ synced' = synced
      BY <2>4 DEF Connect
    <3>2. m.type = "changes" /\ m.cursor = cursor
      OBVIOUS
    <3>3. up = FALSE
      BY <3>1
    <3> HIDE DEF m
    <3>4. ConnOk(log, buffered, toClient, toServer, "disconnected", up, cursor, synced)
      BY <2>4
    <3>5. ConnOk(log, buffered, toClient, <<m>>, "recovering", up', cursor, synced)
      BY <3>1, <3>2, <3>3, <3>4, ConnRecovers
    <3> QED
      BY <3>1, <3>5
  <2>5. CASE Connect /\ session # "disconnected"
    <3>1. /\ session \in {"hydrating", "subscribing"} /\ up' = TRUE
          /\ UNCHANGED <<session, toServer, synced>>
      BY <2>5 DEF Connect
    <3>2. ConnOk(log, buffered, toClient, toServer, session, up', cursor, synced)
      BY <3>1, ConnOpens
    <3> QED
      BY <3>1, <3>2
  <2>6. CASE Load
    <3> DEFINE m == [type |-> "read"]
    <3>1. /\ session = "subscribing" /\ session' = "loading" /\ up = TRUE
          /\ toServer' = Append(toServer, m)
          /\ UNCHANGED <<synced, up>>
      BY <2>6 DEF Load
    <3>2. m.type = "read"
      OBVIOUS
    <3> HIDE DEF m
    <3>3. ConnOk(log, buffered, toClient, toServer, "subscribing", up, cursor, synced)
      BY <3>1
    <3>4. ConnOk(log, buffered, toClient, Append(toServer, m), "loading", up, cursor, synced)
      BY <3>1, <3>2, <3>3, ConnLoads
    <3> QED
      BY <3>1, <3>4
  <2> QED
    BY <2>1, <2>2, <2>3, <2>4, <2>5, <2>6
<1> QED
  BY <1>1, <1>2, <1>3, <1>4 DEF SyncInv

-----------------------------------------------------------------------------
\* A new mutation: no change in the log is of it.
LEMMA EntriesMutate ==
  ASSUME PushInv, SyncInv, NEW tx, tx.id = Len(txs) + 1, tx.attempt # 0
  PROVE  EntriesOk(log, Append(txs, tx))
<1> DEFINE us == Append(txs, tx)
<1>1. txs \in Seq(Mutations \cup {tx}) /\ EntriesOk(log, txs)
  BY SyncAre, SeqMonotonic
<1>2. /\ us \in Seq(Mutations \cup {tx}) /\ Len(us) = Len(txs) + 1
      /\ \A i \in 1 .. Len(txs) : us[i] = txs[i]
      /\ us[Len(txs) + 1] = tx
  BY <1>1, AppendProperties
<1>3. Len(txs) \in Nat /\ DOMAIN txs = 1 .. Len(txs) /\ DOMAIN us = 1 .. Len(us)
  BY <1>1, <1>2, LenProperties
<1> HIDE DEF us
<1>4. \A i \in DOMAIN txs : i \in DOMAIN us /\ us[i] = txs[i]
  BY <1>2, <1>3
<1>5. \A i \in DOMAIN us : i \in DOMAIN txs \/ i = Len(txs) + 1
  BY <1>2, <1>3
<1>6. \A i \in DOMAIN us : us[i].id = i /\ us[i].attempt # 0
  BY <1>1, <1>2, <1>4, <1>5 DEF EntriesOk
<1>7. EntriesOk(log, us)
  BY <1>1, <1>4, <1>6 DEF EntriesOk
<1> QED
  BY <1>7 DEF us

LEMMA SyncInvMutate ==
  ASSUME PushInv, SyncInv, NEW k \in Keys, NEW type \in Types, Mutate(k, type)
  PROVE  SyncInv'
<1> DEFINE i == Len(txs) + 1
           tx == [key |-> k, type |-> type, id |-> i, attempt |-> 1,
                  state |-> IF up THEN "sent" ELSE "waiting"]
           push == PushOf(i)
<1>1. /\ txs' = Append(txs, tx)
      /\ toServer' = IF up THEN Append(toServer, push) ELSE toServer
      /\ UNCHANGED <<log, session, up, cursor, buffered, synced, queue, toClient>>
  BY DEF Mutate, shard, sync, store
<1>2. push.type = "push"
  BY DEF PushOf
<1>3. tx.id = Len(txs) + 1 /\ tx.attempt # 0
  OBVIOUS
<1> HIDE DEF tx, push
<1>4. EntriesOk(log, txs')
  BY <1>1, <1>3, EntriesMutate
<1>5. ConnOk(log, buffered, toClient, toServer', session, up, cursor, synced)
  <2>1. CASE up = TRUE
    <3>1. ConnOk(log, buffered, toClient, Append(toServer, push), session, up, cursor, synced)
      BY <1>2, <2>1, SyncAre, ConnPush
    <3> QED
      BY <1>1, <2>1, <3>1
  <2>2. CASE up = FALSE
    BY <1>1, <2>2, SyncAre
  <2> QED
    BY <2>1, <2>2, SyncAre
<1> QED
  BY <1>1, <1>4, <1>5, SyncAre DEF SyncInv

\* The mutations stay what they are.
LEMMA SyncInvStay ==
  ASSUME PushInv, SyncInv, Stay(txs, txs'),
         UNCHANGED <<log, queue, session, up, cursor, buffered, synced, toClient>>,
         toServer' = toServer \/ \E m : /\ m.type = "push" /\ up = TRUE
                                        /\ toServer' = Append(toServer, m)
  PROVE  SyncInv'
<1>1. EntriesOk(log, txs')
  BY SyncAre, EntriesStay
<1>2. ConnOk(log, buffered, toClient, toServer', session, up, cursor, synced)
  <2>1. CASE toServer' = toServer
    BY <2>1, SyncAre
  <2>2. ASSUME NEW m, m.type = "push", up = TRUE, toServer' = Append(toServer, m)
        PROVE  ConnOk(log, buffered, toClient, toServer', session, up, cursor, synced)
    <3>1. ConnOk(log, buffered, toClient, Append(toServer, m), session, up, cursor, synced)
      BY <2>2, SyncAre, ConnPush
    <3> QED
      BY <2>2, <3>1
  <2> QED
    BY <2>1, <2>2
<1> QED
  BY <1>1, <1>2, SyncAre DEF SyncInv

\* A push is sent, is given up, or finds no socket.
LEMMA OneMutationStays ==
  ASSUME PushInv, SyncInv, NEW i \in Txs, SendPush(i) \/ Timeout(i) \/ OpenFails(i)
  PROVE  Stay(txs, txs')
<1>1. txs[i] \in Mutations /\ txs[i].attempt # 0
  BY TxsAre, SyncAre
<1>2. CASE SendPush(i)
  <2> DEFINE tx == [txs[i] EXCEPT !.state = "sent"]
  <2>1. Goes(txs[i], tx)
    BY <1>1, <1>2, StateGoes DEF SendPush, Open
  <2>2. txs' = [txs EXCEPT ![i] = tx]
    BY <1>2 DEF SendPush
  <2> HIDE DEF tx
  <2> QED
    BY <2>1, <2>2, SyncAre, OneStays
<1>3. CASE Timeout(i)
  <2> DEFINE tx == AfterFailure(txs[i])
  <2>1. Goes(txs[i], tx)
    BY <1>1, <1>3, FailureGoes DEF Timeout, Open
  <2>2. txs' = [txs EXCEPT ![i] = tx]
    BY <1>3 DEF Timeout
  <2> HIDE DEF tx
  <2> QED
    BY <2>1, <2>2, SyncAre, OneStays
<1>4. CASE OpenFails(i)
  <2> DEFINE tx == [txs[i] EXCEPT !.state = "failed"]
  <2>1. Goes(txs[i], tx)
    BY <1>1, <1>4, StateGoes DEF OpenFails, Open
  <2>2. txs' = [txs EXCEPT ![i] = tx]
    BY <1>4 DEF OpenFails
  <2> HIDE DEF tx
  <2> QED
    BY <2>1, <2>2, SyncAre, OneStays
<1> QED
  BY <1>2, <1>3, <1>4

LEMMA SyncInvOneMutation ==
  ASSUME PushInv, SyncInv, NEW i \in Txs, SendPush(i) \/ Timeout(i) \/ OpenFails(i)
  PROVE  SyncInv'
<1>1. Stay(txs, txs')
  BY OneMutationStays
<1>2. UNCHANGED <<log, queue, session, up, cursor, buffered, synced, toClient>>
  BY DEF SendPush, Timeout, OpenFails, shard, sync, store
<1>3. toServer' = toServer \/ \E m : /\ m.type = "push" /\ up = TRUE
                                     /\ toServer' = Append(toServer, m)
  <2>1. CASE SendPush(i)
    <3>1. toServer' = Append(toServer, PushOf(i)) /\ up = TRUE
      BY <2>1, SyncAre DEF SendPush
    <3>2. PushOf(i).type = "push"
      BY DEF PushOf
    <3> QED
      BY <3>1, <3>2
  <2>2. CASE ~SendPush(i)
    BY <2>2 DEF Timeout, OpenFails
  <2> QED
    BY <2>1, <2>2
<1> QED
  BY <1>1, <1>2, <1>3, SyncInvStay

\* The socket or the tab is lost.
LEMMA LostStays ==
  ASSUME PushInv, SyncInv, Drop \/ Crash
  PROVE  Stay(txs, txs')
<1>1. DOMAIN txs = Txs
  BY TxsAre, SyncAre
<1>2. \A i \in Txs : txs[i] \in Mutations /\ txs[i].attempt # 0 /\ Goes(txs[i], txs[i])
  BY TxsAre, SyncAre
<1>3. CASE Drop
  <2> DEFINE tx(i) == IF txs[i].state = "sent" THEN AfterFailure(txs[i]) ELSE txs[i]
  <2>1. txs' = [i \in Txs |-> tx(i)]
    BY <1>3 DEF Drop, RejectPending
  <2>2. \A i \in Txs : Goes(txs[i], tx(i))
    BY <1>2, FailureGoes DEF Open
  <2> HIDE DEF tx
  <2> QED
    BY <1>1, <2>1, <2>2 DEF Stay
<1>4. CASE Crash
  <2> DEFINE tx(i) == IF txs[i].state \in Open THEN [txs[i] EXCEPT !.state = "gone"]
                      ELSE txs[i]
  <2>1. txs' = [i \in Txs |-> tx(i)]
    BY <1>4 DEF Crash
  <2>2. \A i \in Txs : Goes(txs[i], tx(i))
    BY <1>2, StateGoes DEF Open
  <2> HIDE DEF tx
  <2> QED
    BY <1>1, <2>1, <2>2 DEF Stay
<1> QED
  BY <1>3, <1>4

LEMMA SyncInvLost ==
  ASSUME PushInv, SyncInv, Drop \/ Crash
  PROVE  SyncInv'
<1> DEFINE none == <<>>
<1>1. /\ log' = log /\ up' = FALSE /\ toServer' = none /\ toClient' = none
  BY DEF Drop, Crash, LoseSocket
<1>2. EntriesOk(log, txs')
  BY LostStays, SyncAre, EntriesStay
<1>3. CASE Drop
  <2>1. /\ session \in {"subscribing", "synced", "recovering"}
        /\ session' = IF session = "subscribing" THEN session ELSE "disconnected"
        /\ UNCHANGED <<cursor, buffered, synced, queue>>
    BY <1>3 DEF Drop, store
  <2>2. session = "subscribing" =>
          ConnOk(log, buffered, <<>>, <<>>, session, up', cursor, synced)
    BY <1>1, SyncAre, ConnLost
  <2>3. session \in {"synced", "recovering"} =>
          ConnOk(log, buffered, <<>>, <<>>, "disconnected", up', cursor, synced)
    BY <1>1, SyncAre, ConnLost
  <2>4. ConnOk(log, buffered, none, none, session', up', cursor, synced)
    BY <2>1, <2>2, <2>3
  <2> HIDE DEF none
  <2> QED
    BY <1>1, <1>2, <2>1, <2>4, SyncAre DEF SyncInv
<1>4. CASE Crash
  <2>1. session' = "closed" /\ buffered' = none /\ queue' = none
    BY <1>4 DEF Crash
  <2>2. \A m, s : ConnOk(log, <<>>, <<>>, <<>>, "closed", up', m, s)
    BY <1>1, SyncAre, ConnLost
  <2>3. none \in Seq(Ops)
    BY EmptySeq
  <2>4. ConnOk(log, none, none, none, "closed", up', cursor', synced')
    BY <2>2
  <2> HIDE DEF none
  <2> QED
    BY <1>1, <1>2, <2>1, <2>3, <2>4 DEF SyncInv
<1> QED
  BY <1>3, <1>4

-----------------------------------------------------------------------------
LEMMA AppendTwo ==
  ASSUME NEW s, IsSequence(s), NEW d, NEW e
  PROVE  s \o <<d, e>> = Append(Append(s, d), e)
<1> DEFINE T == ToSet(s) \cup {d, e}
<1>1. s \in Seq(T) /\ <<d, e>> \in Seq(T) /\ d \in T /\ e \in T
  BY SeqMonotonic DEF IsSequence
<1>2. /\ Append(s, d) \in Seq(T) /\ Len(Append(s, d)) = Len(s) + 1
      /\ \A i \in 1 .. Len(s) : Append(s, d)[i] = s[i]
      /\ Append(s, d)[Len(s) + 1] = d
  BY <1>1, AppendProperties
<1>3. /\ Append(Append(s, d), e) \in Seq(T)
      /\ Len(Append(Append(s, d), e)) = Len(s) + 2
      /\ \A i \in 1 .. Len(s) + 1 : Append(Append(s, d), e)[i] = Append(s, d)[i]
      /\ Append(Append(s, d), e)[Len(s) + 2] = e
  <2>1. Len(s) \in Nat /\ (Len(s) + 1) + 1 = Len(s) + 2
    BY <1>1, LenProperties
  <2> QED
    BY <1>1, <1>2, <2>1, AppendProperties
<1>4. /\ s \o <<d, e>> \in Seq(T)
      /\ Len(s \o <<d, e>>) = Len(s) + 2
      /\ \A i \in 1 .. Len(s) + 2 :
           (s \o <<d, e>>)[i] = IF i <= Len(s) THEN s[i] ELSE <<d, e>>[i - Len(s)]
  BY <1>1, ConcatProperties
<1>5. Len(s) \in Nat
  BY <1>1, LenProperties
<1> DEFINE p == s \o <<d, e>>
           q == Append(Append(s, d), e)
<1>6. ASSUME NEW i \in 1 .. Len(s) + 2
      PROVE  p[i] = q[i]
  <2>1. CASE i \in 1 .. Len(s)
    BY <1>2, <1>3, <1>4, <1>5, <2>1
  <2>2. CASE i = Len(s) + 1
    BY <1>2, <1>3, <1>4, <1>5, <2>2
  <2>3. CASE i = Len(s) + 2
    BY <1>3, <1>4, <1>5, <2>3
  <2> QED
    BY <1>5, <1>6, <2>1, <2>2, <2>3
<1>7. p \in Seq(T) /\ q \in Seq(T) /\ Len(p) = Len(s) + 2 /\ Len(q) = Len(s) + 2
  BY <1>3, <1>4
<1> HIDE DEF p, q
<1>8. p = q
  BY <1>6, <1>7, SeqEqual
<1> QED
  BY <1>8 DEF p, q

LEMMA ChangeIs ==
  ASSUME PushInv, SyncInv, NEW push, push.tx \in Txs, push.id = push.tx
  PROVE  /\ Change(push) \in Changes
         /\ Change(push).tx \in DOMAIN txs
         /\ Change(push).key = txs[push.tx].key /\ Change(push).type = txs[push.tx].type
         /\ Change(push).tx = push.tx
<1>1. /\ push.tx \in Nat \ {0} /\ push.tx \in DOMAIN txs
      /\ txs[push.tx] \in Mutations
  BY TxsAre, SyncAre
<1>2. txs[push.tx].key \in Keys /\ txs[push.tx].type \in Types
  BY <1>1 DEF Mutations
<1> QED
  BY <1>1, <1>2 DEF Change, Changes

LEMMA ToldOf ==
  ASSUME PushInv, SyncInv, NEW change \in Changes
  PROVE  /\ Sends(log, Append(log, change), Broadcast(change))
         /\ Broadcast(change).type = "updates"
<1> DEFINE M == Append(log, change)
           m == Broadcast(change)
           n == Len(log) + 1
<1>1. /\ M \in Seq(Changes) /\ Len(M) = n
      /\ \A i \in 1 .. Len(log) : M[i] = log[i]
      /\ M[n] = change
  BY SyncAre, LogGrown
<1>2. n \in 1 .. n
  BY SyncAre
<1>3. m.type = "updates" /\ m.update = Update(change, n)
  BY DEF Broadcast
<1> HIDE DEF M, m
<1>4. /\ m.update.seq = n /\ m.update.key = change.key
      /\ m.update.type = change.type /\ m.update.id = change.id
  BY <1>3 DEF Update
<1> HIDE DEF n
<1>5. TellsOf(M, m.update)
  BY <1>1, <1>2, <1>4 DEF TellsOf
<1>6. Sends(log, M, m)
  BY <1>1, <1>3, <1>4, <1>5, SyncAre DEF Sends, n
<1> QED
  BY <1>3, <1>6 DEF M, m

\* What a change leaves to be shown.
LEMMA SyncInvShard ==
  ASSUME PushInv, SyncInv, UNCHANGED <<session, up, cursor, buffered, synced, queue, txs>>,
         EntriesOk(log', txs),
         ConnOk(log', buffered, toClient', toServer', session, up, cursor, synced)
  PROVE  SyncInv'
BY SyncAre DEF SyncInv

LEMMA SyncInvPublish ==
  ASSUME PushInv, SyncInv, NEW change \in Changes, Publish(change),
         change.tx # 0 => /\ change.tx \in DOMAIN txs
                          /\ change.key = txs[change.tx].key
                          /\ change.type = txs[change.tx].type,
         UNCHANGED <<session, up, cursor, buffered, synced, queue, toServer, txs>>
  PROVE  SyncInv'
<1> DEFINE told == Broadcast(change)
<1>1. /\ log' = Append(log, change)
      /\ toClient' = IF up THEN Append(toClient, told) ELSE toClient
  BY DEF Publish
<1>2. Sends(log, log', told) /\ told.type = "updates"
  BY <1>1, ToldOf
<1> HIDE DEF told
<1>3. EntriesOk(log', txs)
  BY <1>1, SyncAre, EntriesGrow
<1>4. ConnOk(log', buffered, toClient', toServer, session, up, cursor, synced)
  <2>1. CASE up = TRUE
    <3>1. ConnOk(log', buffered, Append(toClient, told), toServer, session, up, cursor, synced)
      BY <1>2, <2>1, SyncAre, ConnTells
    <3> QED
      BY <1>1, <2>1, <3>1
  <2>2. CASE up = FALSE
    <3>1. toClient' = toClient
      BY <1>1, <2>2
    <3>2. /\ log' \in Seq(Changes) /\ Len(log) <= Len(log')
          /\ \A i \in 1 .. Len(log) : log'[i] = log[i]
      BY <1>2, SendsIs
    <3>3. ConnOk(log', buffered, toClient, toServer, session, up, cursor, synced)
      BY <2>2, <3>2, SyncAre, ConnGrows
    <3> QED
      BY <3>1, <3>3
  <2> QED
    BY <2>1, <2>2, SyncAre
<1> QED
  BY <1>3, <1>4, SyncInvShard

LEMMA SyncInvRemote ==
  ASSUME PushInv, SyncInv, NEW k \in Keys, NEW type \in Types, Remote(k, type)
  PROVE  SyncInv'
<1> DEFINE id == MaxLocal + spent'.remote
           change == [key |-> k, type |-> type, id |-> id, tx |-> 0]
<1>1. spent.remote \in Nat /\ spent'.remote = spent.remote + 1
  BY DEF PushInv, CountersOk, Remote, Spend
<1>2. id \in Nat \ {0}
  BY <1>1, OfflineAssumption
<1>3. Publish(change)
  BY DEF Remote
<1>4. UNCHANGED <<session, up, cursor, buffered, synced, queue, toServer, txs>>
  BY DEF Remote, sync, store
<1> HIDE DEF id
<1>5. change \in Changes /\ change.tx = 0
  BY <1>2 DEF Changes
<1> HIDE DEF change
<1> QED
  BY <1>3, <1>4, <1>5, SyncInvPublish

LEMMA SyncInvHandleLate ==
  ASSUME PushInv, SyncInv, NEW push \in late, HandleLate(push)
  PROVE  SyncInv'
<1>1. push.tx \in Txs /\ push.id = push.tx
  BY DEF PushInv, MessagesOk
<1>2. UNCHANGED <<session, up, cursor, buffered, synced, queue, toServer, txs>>
  BY DEF HandleLate, sync, store
<1>3. CASE ~(IsApplied(push) \/ Throws(push))
  <2> DEFINE change == Change(push)
  <2>1. Publish(change)
    BY <1>3 DEF HandleLate
  <2>2. /\ change \in Changes /\ change.tx \in DOMAIN txs /\ change.tx = push.tx
        /\ change.key = txs[push.tx].key /\ change.type = txs[push.tx].type
    BY <1>1, ChangeIs
  <2> HIDE DEF change
  <2> QED
    BY <1>2, <2>1, <2>2, SyncInvPublish
<1>4. CASE IsApplied(push) \/ Throws(push)
  <2>1. UNCHANGED <<log, toClient>>
    BY <1>4 DEF HandleLate
  <2> QED
    BY <1>2, <2>1, SyncAre, SyncInvShard
<1> QED
  BY <1>3, <1>4

-----------------------------------------------------------------------------
\* readChanges: the changes after the cursor, each with its number.
LEMMA PageIs ==
  ASSUME log \in Seq(Changes), NEW from \in Nat, from <= Len(log)
  PROVE  PageOk(log, Page(from), from, Len(log))
<1> DEFINE n == Len(log) - from
           page == Page(from)
<1>1. Len(log) \in Nat /\ n \in Nat
  BY LogAt
<1>2. page = [i \in 1 .. n |-> Update(log[from + i], from + i)]
  BY DEF Page
<1> HIDE DEF page
<1>3. ASSUME NEW i \in 1 .. n
      PROVE  TellsOf(log, page[i]) /\ page[i].seq = from + i
  <2>1. page[i] = Update(log[from + i], from + i) /\ from + i \in 1 .. Len(log)
    BY <1>1, <1>2
  <2> QED
    BY <2>1 DEF Update, TellsOf
<1> HIDE DEF n
<1>4. DOMAIN page = 1 .. n
  BY <1>2
<1>5. page \in [1 .. n -> ToSet(page)]
  BY <1>2, <1>4 DEF ToSet
<1>6. IsSequence(page)
  BY <1>1, <1>5, FunctionIsSequence DEF IsSequence
<1>7. PageOk(log, page, from, Len(log))
  BY <1>3, <1>4, <1>6 DEF PageOk, n
<1> QED
  BY <1>7 DEF page

\* An answer leaves the log alone.
LEMMA AnswerSent ==
  ASSUME PushInv, SyncInv, NEW L \in Seq(Changes), NEW w, NEW push, NEW ok,
         ConnOk(L, buffered, w, Tail(toServer), session, up, cursor, synced), up = TRUE
  PROVE  ConnOk(L, buffered, Append(w, Answer(push, ok)), Tail(toServer), session, up,
                cursor, synced)
<1> DEFINE m == Answer(push, ok)
<1>1. m.type = "answer"
  BY DEF Answer
<1> HIDE DEF m
<1>2. Sends(L, L, m) /\ m.type \in {"updates", "answer"}
  BY <1>1 DEF Sends
<1>3. ConnOk(L, buffered, Append(w, m), Tail(toServer), session, up, cursor, synced)
  BY <1>2, ConnTells
<1> QED
  BY <1>3 DEF m

LEMMA SyncInvRefuse ==
  ASSUME PushInv, SyncInv, Refuse
  PROVE  SyncInv'
<1>1. /\ toServer # <<>> /\ toServer' = Tail(toServer)
      /\ toClient' = Append(toClient, Answer(Head(toServer), FALSE))
      /\ UNCHANGED <<log, session, up, cursor, buffered, synced, queue, txs>>
  BY DEF Refuse, shard, sync, store
<1>2. /\ ConnOk(log, buffered, toClient, Tail(toServer), session, up, cursor, synced)
      /\ up = TRUE
  BY <1>1, SyncAre, ConnTaken
<1>3. ConnOk(log, buffered, Append(toClient, Answer(Head(toServer), FALSE)),
             Tail(toServer), session, up, cursor, synced)
  BY <1>2, SyncAre, AnswerSent
<1>4. ConnOk(log', buffered, toClient', toServer', session, up, cursor, synced)
  BY <1>1, <1>3
<1>5. EntriesOk(log', txs)
  BY <1>1, SyncAre
<1> QED
  BY <1>1, <1>4, <1>5, SyncInvShard

LEMMA SyncInvHandlePush ==
  ASSUME PushInv, SyncInv, toServer # <<>>, toServer' = Tail(toServer),
         NEW push, push = Head(toServer), push.type = "push", HandlePush(push),
         UNCHANGED <<session, up, cursor, buffered, synced, queue, txs>>
  PROVE  SyncInv'
<1> DEFINE answer(ok) == Answer(push, ok)
<1>1. push.tx \in Txs /\ push.id = push.tx
  BY HeadSet DEF PushInv, MessagesOk
<1>2. /\ ConnOk(log, buffered, toClient, Tail(toServer), session, up, cursor, synced)
      /\ up = TRUE
  BY SyncAre, ConnTaken
<1>3. CASE log' = log /\ \E ok : toClient' = Append(toClient, answer(ok))
  <2>1. PICK ok : toClient' = Append(toClient, answer(ok))
    BY <1>3
  <2>2. ConnOk(log, buffered, Append(toClient, answer(ok)), Tail(toServer), session, up,
               cursor, synced)
    BY <1>2, SyncAre, AnswerSent
  <2>3. ConnOk(log', buffered, toClient', toServer', session, up, cursor, synced)
    BY <1>3, <2>1, <2>2
  <2>4. EntriesOk(log', txs)
    BY <1>3, SyncAre
  <2> QED
    BY <2>3, <2>4, SyncInvShard
<1>4. CASE ~IsApplied(push) /\ ~Throws(push)
  <2> DEFINE change == Change(push)
             told == Broadcast(change)
  <2>1. log' = Append(log, change) /\ toClient' = toClient \o <<told, answer(TRUE)>>
    BY <1>4 DEF HandlePush
  <2>2. /\ change \in Changes /\ change.tx \in DOMAIN txs /\ change.tx = push.tx
        /\ change.key = txs[push.tx].key /\ change.type = txs[push.tx].type
    BY <1>1, ChangeIs
  <2>3. Sends(log, log', told) /\ told.type = "updates"
    BY <2>1, <2>2, ToldOf
  <2>4. toClient' = Append(Append(toClient, told), answer(TRUE))
    <3> DEFINE e == answer(TRUE)
    <3>1. toClient' = toClient \o <<told, e>> /\ IsSequence(toClient)
      BY <2>1, SyncAre
    <3> HIDE DEF told, e
    <3>2. toClient' = Append(Append(toClient, told), e)
      BY <3>1, AppendTwo
    <3> QED
      BY <3>2 DEF e
  <2>5. log' \in Seq(Changes)
    BY <2>3, SendsIs
  <2>6. EntriesOk(log', txs)
    BY <2>1, <2>2, SyncAre, EntriesGrow
  <2> HIDE DEF change, told
  <2>7. ConnOk(log', buffered, Append(toClient, told), Tail(toServer), session, up, cursor,
               synced)
    BY <1>2, <2>3, ConnTells
  <2>8. ConnOk(log', buffered, Append(Append(toClient, told), answer(TRUE)), Tail(toServer),
               session, up, cursor, synced)
    BY <1>2, <2>5, <2>7, AnswerSent
  <2>9. ConnOk(log', buffered, toClient', toServer', session, up, cursor, synced)
    BY <2>4, <2>8
  <2> QED
    BY <2>6, <2>9, SyncInvShard
<1> QED
  BY <1>3, <1>4 DEF HandlePush

LEMMA SyncInvHandle ==
  ASSUME PushInv, SyncInv, Handle
  PROVE  SyncInv'
<1>1. /\ toServer # <<>> /\ toServer' = Tail(toServer)
      /\ UNCHANGED <<session, up, cursor, buffered, synced, queue, txs>>
  BY DEF Handle, sync, store
<1>2. PICK request : request = Head(toServer)
  OBVIOUS
<1>3. CASE request.type = "push" /\ HandlePush(request)
  BY <1>1, <1>2, <1>3, SyncInvHandlePush
<1>4. up = TRUE
  BY <1>1, SyncAre, ConnTaken
<1>5. ASSUME NEW m, m.watermark = Len(log), log' = log, toClient' = Append(toClient, m),
             \/ request.type = "read" /\ m.type = "rows" /\ RowsAre(log, Len(log), m.rows)
             \/ /\ request.type = "changes" /\ m.type = "changes"
                /\ cursor <= Len(log) => PageOk(log, m.updates, cursor, Len(log))
      PROVE  SyncInv'
  <2>1. ConnOk(log, buffered, Append(toClient, m), Tail(toServer), session, up, cursor, synced)
    BY <1>1, <1>2, <1>4, <1>5, SyncAre, ConnAnswers
  <2>2. ConnOk(log', buffered, toClient', toServer', session, up, cursor, synced)
    BY <1>1, <1>5, <2>1
  <2>3. EntriesOk(log', txs)
    BY <1>5, SyncAre
  <2> QED
    BY <1>1, <2>2, <2>3, SyncInvShard
<1>6. CASE /\ request.type = "read" /\ log' = log
           /\ toClient' = Append(toClient, [type |-> "rows", rows |-> Rows,
                                            watermark |-> Len(log)])
  <2> DEFINE m == [type |-> "rows", rows |-> Rows, watermark |-> Len(log)]
  <2>1. m.type = "rows" /\ m.rows = Rows /\ m.watermark = Len(log)
    OBVIOUS
  <2>2. RowsAre(log, Len(log), Rows)
    BY SyncAre, RowsOfLog
  <2>3. toClient' = Append(toClient, m)
    BY <1>6
  <2> HIDE DEF m
  <2> QED
    BY <1>5, <1>6, <2>1, <2>2, <2>3
<1>7. CASE /\ request.type = "changes" /\ log' = log
           /\ toClient' = Append(toClient, [type |-> "changes", updates |-> Page(request.cursor),
                                            watermark |-> Len(log)])
  <2> DEFINE m == [type |-> "changes", updates |-> Page(request.cursor), watermark |-> Len(log)]
  <2>1. m.type = "changes" /\ m.updates = Page(request.cursor) /\ m.watermark = Len(log)
    OBVIOUS
  <2>2. toClient' = Append(toClient, m)
    BY <1>7
  <2>3. request.cursor = cursor /\ cursor \in Nat
    <3>1. Head(toServer) = toServer[1] /\ 1 \in DOMAIN toServer
      BY <1>1, SyncAre, TailAt
    <3>2. request.cursor = cursor /\ session = "recovering"
      BY <1>2, <1>7, <3>1, SyncAre DEF ConnOk, RequestsOk
    <3> QED
      BY <3>2, SyncAre DEF ConnOk, RowsOk, WithRows
  <2>4. cursor <= Len(log) => PageOk(log, m.updates, cursor, Len(log))
    BY <2>1, <2>3, SyncAre, PageIs
  <2> HIDE DEF m
  <2> QED
    BY <1>5, <1>7, <2>1, <2>2, <2>4
<1> QED
  BY <1>1, <1>2, <1>3, <1>6, <1>7 DEF Handle

-----------------------------------------------------------------------------
LEMMA CurrentIs ==
  ASSUME PushInv, SyncInv, session \in WithRows
  PROVE  /\ Current \in Collections
         /\ Current.rows = synced /\ Current.queue = queue /\ Current.cursor = cursor
         /\ cursor \in 0 .. Len(log) /\ RowsAre(log, cursor, synced)
<1>1. cursor \in 0 .. Len(log) /\ RowsAre(log, cursor, synced)
  BY SyncAre DEF ConnOk, RowsOk
<1>2. synced \in Rowset /\ queue \in Seq(Ops) /\ cursor \in Nat
  BY <1>1, SyncAre DEF RowsAre, Rowset
<1> QED
  BY <1>1, <1>2, Collected DEF Current

\* An operation for a change of the client's own.
LEMMA QueuedTransaction ==
  ASSUME PushInv, SyncInv, NEW i \in Txs
  PROVE  queue \o PersistTransaction(txs[i]) \in Seq(Ops)
<1>1. txs[i].key \in Keys /\ txs[i].id \in Nat
  BY TxsAre, SyncAre DEF Mutations
<1>2. {txs[i].key} \in SUBSET Keys /\ [k \in {txs[i].key} |-> txs[i].id] \in [{txs[i].key} -> Nat]
  BY <1>1
<1>3. PersistTransaction(txs[i]) \in Seq(Ops)
  BY <1>2, OpsAre DEF PersistTransaction
<1> QED
  BY <1>3, SyncAre, ConcatProperties

LEMMA SyncInvReceive ==
  ASSUME PushInv, SyncInv, NEW message, message = Head(toClient), toClient # <<>>,
         toClient' = Tail(toClient), message.type = "updates", Receive(message.update),
         UNCHANGED <<log, up, toServer>>
  PROVE  SyncInv'
<1>1. /\ message = toClient[1] /\ toClient[1].type = "updates" /\ up = TRUE
  BY SyncAre, TailAt DEF ConnOk, SocketOk
<1>2. UNCHANGED <<session, txs>>
  BY DEF Receive
<1>3. EntriesOk(log', txs')
  BY <1>2, SyncAre
<1>4. CASE session # "synced"
  <2>1. buffered' = Append(buffered, toClient[1].update) /\ UNCHANGED <<synced, queue, cursor>>
    BY <1>1, <1>4 DEF Receive
  <2>2. ConnOk(log, Append(buffered, toClient[1].update), Tail(toClient), toServer, session, up,
               cursor, synced)
    BY <1>1, <1>4, SyncAre, ConnHolds
  <2>3. ConnOk(log', buffered', toClient', toServer', session', up', cursor', synced')
    BY <1>2, <2>1, <2>2
  <2> QED
    BY <1>3, <2>1, <2>3, SyncAre DEF SyncInv
<1>5. CASE session = "synced"
  <2> DEFINE u == toClient[1].update
             end == ApplyBroadcast(Current, u)
  <2>1. /\ buffered' = buffered
        /\ synced' = end.rows /\ queue' = end.queue /\ cursor' = end.cursor
    BY <1>1, <1>5 DEF Receive, Becomes
  <2>2. ConnOk(log, buffered, toClient, toServer, "synced", up, cursor, synced)
    BY <1>5, SyncAre
  <2>3. TellsOf(log, u) /\ u.seq = cursor + 1
    <3>1. TellsOf(log, u)
      BY <1>1, <2>2, SyncAre, NextUpdate
    <3>2. u.seq = cursor + 1
      BY <1>1, <2>2, SyncAre, NextUpdate
    <3> QED
      BY <3>1, <3>2
  <2>4. /\ Current \in Collections /\ Current.rows = synced /\ Current.cursor = cursor
        /\ RowsAre(log, cursor, synced)
    BY <1>5, CurrentIs DEF WithRows
  <2> HIDE DEF u
  <2>5. end \in Collections /\ end.cursor = u.seq /\ RowsAre(log, u.seq, end.rows)
    BY <2>3, <2>4, SyncAre, BroadcastNext
  <2>6. end.queue \in Seq(Ops)
    BY <2>5, CollectionIs
  <2> HIDE DEF end
  <2>7. ConnOk(log, buffered, Tail(toClient), toServer, "synced", up, u.seq, end.rows)
    BY <1>1, <2>2, <2>5, SyncAre, ConnWrites DEF u
  <2>8. ConnOk(log', buffered', toClient', toServer', session', up', cursor', synced')
    BY <1>2, <1>5, <2>1, <2>5, <2>7
  <2> QED
    BY <1>3, <2>1, <2>6, <2>8 DEF SyncInv
<1> QED
  BY <1>4, <1>5

LEMMA SyncInvAnswered ==
  ASSUME PushInv, SyncInv, NEW message, message = Head(toClient), toClient # <<>>,
         toClient' = Tail(toClient), message.type = "answer", Answered(message),
         UNCHANGED <<log, up, toServer>>
  PROVE  SyncInv'
<1>1. /\ message = toClient[1] /\ toClient[1].type = "answer" /\ up = TRUE
  BY SyncAre, TailAt DEF ConnOk, SocketOk
<1>2. UNCHANGED <<session, cursor, buffered, synced>>
  BY DEF Answered, sync
<1>3. message.tx \in Txs
  BY HeadSet DEF PushInv, MessagesOk
<1>4. ConnOk(log, buffered, Tail(toClient), toServer, session, up, cursor, synced)
  BY <1>1, SyncAre, ConnAnswered
<1>5. EntriesOk(log', txs') /\ queue' \in Seq(Ops)
  <2> DEFINE i == message.tx
  <2>1. CASE txs[i].state # "sent" \/ txs[i].attempt # message.attempt
    BY <2>1, SyncAre DEF Answered
  <2>2. CASE txs[i].state = "sent" /\ txs[i].attempt = message.attempt
    <3> DEFINE tx == [txs[i] EXCEPT !.state = IF message.ok THEN "done" ELSE "failed"]
    <3>1. /\ txs' = [txs EXCEPT ![i] = tx]
          /\ queue' = IF message.ok THEN queue \o PersistTransaction(txs[i]) ELSE queue
      BY <2>2 DEF Answered
    <3>2. txs[i] \in Mutations /\ txs[i].attempt # 0
      BY <1>3, TxsAre, SyncAre
    <3>3. Goes(txs[i], tx)
      BY <2>2, <3>2, StateGoes DEF Open
    <3> HIDE DEF tx
    <3>4. Stay(txs, txs')
      BY <1>3, <3>1, <3>3, SyncAre, OneStays
    <3>5. EntriesOk(log', txs')
      BY <3>4, SyncAre, EntriesStay
    <3>6. queue' \in Seq(Ops)
      BY <1>3, <3>1, SyncAre, QueuedTransaction
    <3> QED
      BY <3>5, <3>6
  <2> QED
    BY <2>1, <2>2
<1>6. ConnOk(log', buffered', toClient', toServer', session', up', cursor', synced')
  BY <1>2, <1>4
<1> QED
  BY <1>5, <1>6 DEF SyncInv

LEMMA SyncInvLoadEager ==
  ASSUME PushInv, SyncInv, NEW message, message = Head(toClient), toClient # <<>>,
         toClient' = Tail(toClient), message.type = "rows", LoadEager(message),
         UNCHANGED <<log, up, toServer>>
  PROVE  SyncInv'
<1>1. /\ message = toClient[1] /\ toClient[1].type = "rows" /\ up = TRUE
  BY SyncAre, TailAt DEF ConnOk, SocketOk
<1>2. /\ synced' = message.rows /\ cursor' = message.watermark /\ session' = "storing"
      /\ queue' = queue \o ReplaceOp(message.rows)
      /\ UNCHANGED <<buffered, txs>>
  BY DEF LoadEager, LoadedRows, StoreOp
<1>3. RowsAre(log, message.watermark, message.rows)
  <2>1. toClient[1].type \in Answers
    BY <1>1 DEF Answers
  <2>2. RowsAre(log, toClient[1].watermark, toClient[1].rows)
    BY <1>1, <2>1, SyncAre, AnswerTells
  <2> QED
    BY <1>1, <2>2
<1>4. queue' \in Seq(Ops)
  <2>1. ReplaceOp(message.rows) \in Seq(Ops)
    BY <1>3, OpsAre DEF RowsAre
  <2> QED
    BY <1>2, <2>1, SyncAre, ConcatProperties
<1>5. ConnOk(log, buffered, Tail(toClient), toServer, "storing", up, toClient[1].watermark,
             toClient[1].rows)
  BY <1>1, SyncAre, ConnStores
<1>6. ConnOk(log', buffered', toClient', toServer', session', up', cursor', synced')
  BY <1>1, <1>2, <1>5
<1>7. EntriesOk(log', txs')
  BY <1>2, SyncAre
<1> QED
  BY <1>4, <1>6, <1>7 DEF SyncInv

\* flush and markSynchronized
LEMMA SyncInvSynchronize ==
  ASSUME PushInv, SyncInv, NEW w, StreamOk(log, buffered, w), OnlyPushes(toServer),
         NoAnswers(w), up = TRUE, NEW st \in Collections, st.cursor <= Len(log),
         RowsAre(log, st.cursor, st.rows), Past(w, st.cursor),
         \A m \in st.cursor + 1 .. Len(log) : OnWire(w, m) \/ Held(buffered, m),
         Synchronize(st), toClient' = w, UNCHANGED <<log, up, toServer, txs>>
  PROVE  SyncInv'
<1> DEFINE end == Flushed(st, buffered)
<1>1. /\ synced' = end.rows /\ queue' = end.queue /\ cursor' = end.cursor
      /\ buffered' = <<>> /\ session' = "synced"
  BY DEF Synchronize, Becomes, Flushed
<1>2. /\ end.queue \in Seq(Ops)
      /\ ConnOk(log, <<>>, w, toServer, "synced", up, end.cursor, end.rows)
  BY SyncAre, ConnFlushes
<1> HIDE DEF end
<1>3. ConnOk(log', buffered', toClient', toServer', session', up', cursor', synced')
  BY <1>1, <1>2
<1>4. EntriesOk(log', txs')
  BY SyncAre
<1> QED
  BY <1>1, <1>2, <1>3, <1>4 DEF SyncInv

LEMMA SyncInvStored ==
  ASSUME PushInv, SyncInv, Stored
  PROVE  SyncInv'
<1>1. session = "storing" /\ Synchronize(Current) /\ UNCHANGED <<log, up, toServer, toClient, txs>>
  BY DEF Stored, shard
<1>2. /\ Current \in Collections /\ Current.rows = synced /\ Current.cursor = cursor
      /\ cursor \in 0 .. Len(log) /\ RowsAre(log, cursor, synced)
  BY <1>1, CurrentIs DEF WithRows
<1>3. /\ StreamOk(log, buffered, toClient) /\ OnlyPushes(toServer) /\ NoAnswers(toClient)
      /\ up = TRUE
      /\ Past(toClient, cursor)
      /\ \A m \in cursor + 1 .. Len(log) : OnWire(toClient, m) \/ Held(buffered, m)
  BY <1>1, SyncAre, NoneRequested DEF ConnOk, SocketOk, RowsOk, OnSocket
<1>4. cursor <= Len(log)
  BY <1>2, SyncAre
<1> QED
  BY <1>1, <1>2, <1>3, <1>4, SyncInvSynchronize

\* What recover makes of the collection before the flush.
LEMMA RecoveredIs ==
  ASSUME PushInv, SyncInv, session = "recovering", NEW page, NEW n \in Nat,
         cursor <= n, n <= Len(log), PageOk(log, page, cursor, n)
  PROVE  LET st == [Apply(Current, page) EXCEPT !.cursor = n]
             s == Written(synced, page)
         IN  /\ st \in Collections /\ st.cursor = n /\ RowsAre(log, n, st.rows)
             /\ st.rows = s
             /\ st.queue = queue \o PersistChanges(s, page)
<1> DEFINE s == Written(synced, page)
           p == PersistChanges(s, page)
           q == queue \o p
           next == [[Current EXCEPT !.rows = s, !.queue = q] EXCEPT !.cursor = n]
<1>1. /\ Current \in Collections /\ Current.rows = synced /\ Current.queue = queue
      /\ cursor \in Nat /\ RowsAre(log, cursor, synced)
  BY CurrentIs, SyncAre DEF WithRows
<1>2. RowsAre(log, n, s) /\ q \in Seq(Ops)
  BY <1>1, SyncAre, PageApplied
<1>3. s \in Rowset
  BY <1>2 DEF RowsAre, Rowset
<1>4. [Apply(Current, page) EXCEPT !.cursor = n] = next
  BY <1>1 DEF Apply
<1> HIDE DEF s, q
<1>5. next \in Collections /\ next.rows = s /\ next.queue = q /\ next.cursor = n
  BY <1>1, <1>2, <1>3 DEF Collections
<1> HIDE DEF next
<1> QED
  BY <1>2, <1>4, <1>5 DEF q, s

LEMMA SyncInvRecover ==
  ASSUME PushInv, SyncInv, NEW message, message = Head(toClient), toClient # <<>>,
         toClient' = Tail(toClient), message.type = "changes", Recover(message),
         UNCHANGED <<log, up, toServer>>
  PROVE  SyncInv'
<1> DEFINE st == [Apply(Current, message.updates) EXCEPT !.cursor = message.watermark]
           n == message.watermark
           w == Tail(toClient)
<1>1. /\ message = toClient[1] /\ toClient[1].type = "changes" /\ up = TRUE
  BY SyncAre, TailAt DEF ConnOk, SocketOk
<1>2. Synchronize(st) /\ txs' = txs
  BY DEF Recover
<1>3. /\ n \in 0 .. Len(log) /\ Past(w, n) /\ \A m \in n + 1 .. Len(log) : OnWire(w, m)
      /\ StreamOk(log, buffered, w) /\ OnlyPushes(toServer) /\ NoAnswers(w)
      /\ session = "recovering" /\ cursor <= n /\ PageOk(log, message.updates, cursor, n)
  <2>1. toClient[1].type \in Answers
    BY <1>1 DEF Answers
  <2> QED
    BY <1>1, <2>1, SyncAre, AnswerTells
<1>4. n \in Nat /\ n <= Len(log)
  BY <1>3, SyncAre
<1>5. st \in Collections /\ st.cursor = n /\ RowsAre(log, n, st.rows)
  <2> HIDE DEF n
  <2> QED
    BY <1>3, <1>4, RecoveredIs DEF n
<1> HIDE DEF st, n, w
<1>6. toClient' = w
  BY DEF w
<1> QED
  BY <1>1, <1>2, <1>3, <1>4, <1>5, <1>6, SyncInvSynchronize

LEMMA SyncInvDeliver ==
  ASSUME PushInv, SyncInv, Deliver
  PROVE  SyncInv'
<1>1. /\ toClient # <<>> /\ toClient' = Tail(toClient)
      /\ UNCHANGED <<log, up, toServer>>
  BY DEF Deliver, shard
<1>2. PICK message : message = Head(toClient)
  OBVIOUS
<1>3. \/ message.type = "updates" /\ Receive(message.update)
      \/ message.type = "answer" /\ Answered(message)
      \/ message.type = "rows" /\ LoadEager(message)
      \/ message.type = "changes" /\ Recover(message)
  BY <1>2 DEF Deliver
<1> QED
  BY <1>1, <1>2, <1>3, SyncInvReceive, SyncInvAnswered, SyncInvLoadEager, SyncInvRecover

-----------------------------------------------------------------------------
\* What holds of the rows between any two events: the session's rows are those
\* of the shard at its cursor, and every later change is held, or on its way in
\* the order of the log, or will be in the answer that the session waits for.
THEOREM SyncInvariance == Spec => [](PushInv /\ SyncInv)
<1>1. Init => SyncInv
  BY SyncInvInit
<1>2. PushInv /\ SyncInv /\ [Next]_vars => SyncInv'
  <2> SUFFICES ASSUME PushInv, SyncInv, [Next]_vars
               PROVE  SyncInv'
    OBVIOUS
  <2>1. CASE Start \/ Hydrate \/ Connect \/ Load \/ Perform
    BY <2>1, SyncInvAside
  <2>2. CASE Stored
    BY <2>2, SyncInvStored
  <2>3. CASE Deliver
    BY <2>3, SyncInvDeliver
  <2>4. CASE \E i \in Txs : SendPush(i) \/ Timeout(i) \/ OpenFails(i)
    BY <2>4, SyncInvOneMutation
  <2>5. CASE \E k \in Keys, type \in Types : Mutate(k, type) \/ Remote(k, type)
    BY <2>5, SyncInvMutate, SyncInvRemote
  <2>6. CASE \E push \in late : HandleLate(push)
    BY <2>6, SyncInvHandleLate
  <2>7. CASE Refuse
    BY <2>7, SyncInvRefuse
  <2>8. CASE Drop \/ Crash
    BY <2>8, SyncInvLost
  <2>9. CASE Handle
    BY <2>9, SyncInvHandle
  <2>10. CASE UNCHANGED vars
    <3>1. UNCHANGED <<log, txs, queue, buffered, toClient, toServer, session, up, cursor, synced>>
      BY <2>10 DEF vars
    <3> QED
      BY <3>1, SyncAre DEF SyncInv
  <2> QED
    BY <2>1, <2>2, <2>3, <2>4, <2>5, <2>6, <2>7, <2>8, <2>9, <2>10
    DEF Next, Client, Environment
<1> QED
  BY <1>1, <1>2, PushInvariance, PTL DEF Spec

\* When everything has been delivered, the rows of a synced session are those of
\* the shard: no order of updates, answers, lost sockets and restarts loses a
\* change or writes one twice (SyncSession, applyCollectionBroadcast).
THEOREM ViewIsShardHolds == Spec => []ViewIsShard
<1>1. PushInv /\ SyncInv => ViewIsShard
  <2> SUFFICES ASSUME PushInv, SyncInv, AtRest
               PROVE  synced = Rows
    BY DEF ViewIsShard
  <2>1. session = "synced" /\ toClient = <<>> /\ buffered = <<>>
    BY SyncAre DEF AtRest, ConnOk, RowsOk
  <2>2. /\ cursor \in 0 .. Len(log) /\ RowsAre(log, cursor, synced)
        /\ \A m \in cursor + 1 .. Len(log) : OnWire(toClient, m) \/ Held(buffered, m)
    BY <2>1, SyncAre DEF ConnOk, RowsOk, WithRows
  <2>3. \A m : ~OnWire(toClient, m) /\ ~Held(buffered, m)
    BY <2>1, EmptyAt DEF OnWire, Held
  <2>4. cursor = Len(log)
    <3>1. Len(log) \in cursor + 1 .. Len(log) \/ cursor = Len(log)
      BY <2>2, SyncAre
    <3> QED
      BY <2>2, <2>3, <3>1
  <2> QED
    BY <2>2, <2>4, SyncAre, RowsOfLog, RowsUnique
<1> QED
  BY <1>1, SyncInvariance, PTL

-----------------------------------------------------------------------------
(* The cache.  A mutation at its first attempt has no push that was lost   *)
(* with a socket, and at most one on the socket, of which the log knows    *)
(* nothing; so the answer that accepts it comes right after its update.    *)
Fresh(t) == t.state \in Open /\ t.attempt = 1
Logged(L, i) == \E n \in DOMAIN L : L[n].tx = i
IsPush(r, n, i) == r[n].type = "push" /\ r[n].tx = i

FreshAt(t, i, L, l, r) ==
  /\ \A m \in l : m.tx # i
  /\ t.state = "waiting" => ~Logged(L, i) /\ \A n \in DOMAIN r : ~IsPush(r, n, i)
  /\ \A n \in DOMAIN r : IsPush(r, n, i) =>
       ~Logged(L, i) /\ \A m \in DOMAIN r : IsPush(r, m, i) => m = n

\* The change n is the newest that the collection was told of.
Newest(at, from, h, n) ==
  IF at = "synced" THEN from = n
  ELSE at \in {"storing", "recovering"} =>
         from < n /\ Held(h, n) /\ \A i \in DOMAIN h : h[i].seq <= n

Accepts(w, p, i) == w[p].type = "answer" /\ w[p].tx = i /\ w[p].ok
ToldAt(L, w, at, from, h, i) ==
  \A p \in DOMAIN w : Accepts(w, p, i) =>
    \E n \in DOMAIN L :
      /\ L[n].tx = i
      /\ IF p = 1 THEN Newest(at, from, h, n) ELSE IsUpdate(w, p - 1) /\ SeqAt(w, p - 1) = n

FreshOk == \A i \in Txs : Fresh(txs[i]) => FreshAt(txs[i], i, log, late, toServer)
ToldOk == \A i \in Txs : Fresh(txs[i]) => ToldAt(log, toClient, session, cursor, buffered, i)

\* A row is written by an operation of the queue or is in the cache, unless a
\* local mutation of it is not settled or a change of it is held.
Waits(h, from, k) == \E i \in DOMAIN h : h[i].key = k /\ from < h[i].seq
StoredOk ==
  followed /\ session \in WithRows =>
    \A k \in Keys : Pending(k) \/ Waits(buffered, cursor, k) \/ Ends(queue, cache, k, synced[k])

CacheInv == cache \in Rowset /\ FreshOk /\ ToldOk /\ StoredOk

-----------------------------------------------------------------------------
(* Requests.                                                               *)
LEMMA FreshTail ==
  ASSUME NEW t, NEW i, NEW L, NEW l, NEW r, IsSequence(r), r # <<>>, FreshAt(t, i, L, l, r)
  PROVE  /\ FreshAt(t, i, L, l, Tail(r))
         /\ IsPush(r, 1, i) =>
              t.state # "waiting" /\ ~Logged(L, i) /\ \A M : FreshAt(t, i, M, l, Tail(r))
<1> DEFINE s == Tail(r)
<1>1. /\ 1 \in DOMAIN r /\ Len(r) \in Nat /\ DOMAIN s = 1 .. Len(r) - 1
      /\ \A n \in DOMAIN s : n + 1 \in DOMAIN r /\ s[n] = r[n + 1]
  BY TailAt
<1> HIDE DEF s
<1>2. \A n \in DOMAIN s : IsPush(s, n, i) <=> IsPush(r, n + 1, i)
  BY <1>1 DEF IsPush
<1>3. \A n, m \in DOMAIN s : n + 1 # 1 /\ (n + 1 = m + 1 => n = m)
  BY <1>1
<1>4. FreshAt(t, i, L, l, s)
  BY <1>1, <1>2, <1>3 DEF FreshAt
<1>5. ASSUME IsPush(r, 1, i)
      PROVE  t.state # "waiting" /\ ~Logged(L, i) /\ \A n \in DOMAIN s : ~IsPush(s, n, i)
  BY <1>1, <1>2, <1>3, <1>5 DEF FreshAt
<1>6. IsPush(r, 1, i) => \A M : FreshAt(t, i, M, l, s)
  BY <1>5 DEF FreshAt
<1> QED
  BY <1>4, <1>5, <1>6 DEF s

LEMMA FreshMore ==
  ASSUME NEW t, NEW i, NEW L, NEW l, NEW r, IsSequence(r), NEW m, FreshAt(t, i, L, l, r)
  PROVE  /\ ~(m.type = "push" /\ m.tx = i) => FreshAt(t, i, L, l, Append(r, m))
         /\ t.state = "waiting" => \A u : u.state = "sent" => FreshAt(u, i, L, l, Append(r, m))
<1> DEFINE s == Append(r, m)
<1>1. /\ Len(r) \in Nat /\ DOMAIN r = 1 .. Len(r) /\ DOMAIN s = 1 .. Len(r) + 1
      /\ \A n \in DOMAIN r : s[n] = r[n]
      /\ s[Len(r) + 1] = m
  BY AppendAt
<1> HIDE DEF s
<1>2. \A n \in DOMAIN r : IsPush(s, n, i) <=> IsPush(r, n, i)
  BY <1>1 DEF IsPush
<1>3. \A n \in DOMAIN s : n \in DOMAIN r \/ n = Len(r) + 1
  BY <1>1
<1>4. IsPush(s, Len(r) + 1, i) => m.type = "push" /\ m.tx = i
  BY <1>1 DEF IsPush
<1>5. ~(m.type = "push" /\ m.tx = i) => FreshAt(t, i, L, l, s)
  BY <1>2, <1>3, <1>4 DEF FreshAt
<1>6. ASSUME t.state = "waiting"
      PROVE  ~Logged(L, i) /\ \A n \in DOMAIN s : IsPush(s, n, i) => n = Len(r) + 1
  BY <1>2, <1>3, <1>6 DEF FreshAt
<1>7. t.state = "waiting" => \A u : u.state = "sent" => FreshAt(u, i, L, l, s)
  BY <1>6 DEF FreshAt
<1> QED
  BY <1>5, <1>7 DEF s

LEMMA FreshLog ==
  ASSUME NEW t, NEW i, NEW L, NEW l, NEW r, FreshAt(t, i, L, l, r),
         NEW M, Logged(M, i) => Logged(L, i), NEW k, k \subseteq l
  PROVE  FreshAt(t, i, M, k, r)
BY DEF FreshAt

\* The socket is lost, and a mutation still waits at its first attempt.
LEMMA FreshLost ==
  ASSUME NEW t, NEW i, NEW L, NEW l, NEW r, FreshAt(t, i, L, l, r), t.state = "waiting",
         NEW k, \A m \in k : m \in l \/ m \in PushesOf(r)
  PROVE  FreshAt(t, i, L, k, <<>>)
<1>1. \A m \in PushesOf(r) : m.tx # i
  BY DEF PushesOf, ToSet, FreshAt, IsPush
<1> QED
  BY <1>1, EmptyAt DEF FreshAt

-----------------------------------------------------------------------------
(* Answers.                                                                *)
LEMMA ToldNone ==
  ASSUME NEW L, NEW at, NEW from, NEW h, NEW i
  PROVE  ToldAt(L, <<>>, at, from, h, i)
BY EmptyAt DEF ToldAt

LEMMA ToldLog ==
  ASSUME NEW L \in Seq(Changes), NEW M \in Seq(Changes), Len(L) <= Len(M),
         \A n \in 1 .. Len(L) : M[n] = L[n],
         NEW w, NEW at, NEW from, NEW h, NEW i, ToldAt(L, w, at, from, h, i)
  PROVE  ToldAt(M, w, at, from, h, i)
<1>1. DOMAIN L = 1 .. Len(L) /\ DOMAIN M = 1 .. Len(M) /\ Len(L) \in Nat /\ Len(M) \in Nat
  BY LogAt
<1>2. \A n \in DOMAIN L : n \in DOMAIN M /\ M[n] = L[n]
  BY <1>1
<1> QED
  BY <1>2 DEF ToldAt

LEMMA ToldSession ==
  ASSUME NEW L, NEW w, NEW at, NEW from, NEW h, NEW i, ToldAt(L, w, at, from, h, i),
         NEW a, NEW f, NEW g, \A n : Newest(at, from, h, n) => Newest(a, f, g, n)
  PROVE  ToldAt(L, w, a, f, g, i)
BY DEF ToldAt

\* A message more: not the answer, or the answer after its update.
LEMMA ToldMore ==
  ASSUME NEW L, NEW w, IsSequence(w), NEW m, NEW at, NEW from, NEW h, NEW i,
         ToldAt(L, w, at, from, h, i),
         \/ ~(m.type = "answer" /\ m.tx = i /\ m.ok)
         \/ /\ w # <<>> /\ w[Len(w)].type = "updates"
            /\ w[Len(w)].update.seq \in DOMAIN L /\ L[w[Len(w)].update.seq].tx = i
  PROVE  ToldAt(L, Append(w, m), at, from, h, i)
<1> DEFINE x == Append(w, m)
<1>1. /\ Len(w) \in Nat /\ DOMAIN w = 1 .. Len(w) /\ DOMAIN x = 1 .. Len(w) + 1
      /\ \A p \in DOMAIN w : x[p] = w[p]
      /\ x[Len(w) + 1] = m
  BY AppendAt
<1>2. w # <<>> => Len(w) # 0
  BY EmptySeq DEF IsSequence
<1> HIDE DEF x
<1>3. ASSUME NEW p \in DOMAIN w, Accepts(x, p, i)
      PROVE  \E n \in DOMAIN L :
               /\ L[n].tx = i
               /\ IF p = 1 THEN Newest(at, from, h, n)
                  ELSE IsUpdate(x, p - 1) /\ SeqAt(x, p - 1) = n
  <2>1. Accepts(w, p, i)
    BY <1>1, <1>3 DEF Accepts
  <2>2. PICK n \in DOMAIN L :
          /\ L[n].tx = i
          /\ IF p = 1 THEN Newest(at, from, h, n)
             ELSE IsUpdate(w, p - 1) /\ SeqAt(w, p - 1) = n
    BY <2>1 DEF ToldAt
  <2>3. p # 1 => IsUpdate(w, p - 1) /\ SeqAt(w, p - 1) = n
    BY <2>2
  <2>4. p # 1 => p - 1 \in DOMAIN w /\ p - 1 \in DOMAIN x
    BY <1>1
  <2>5. p # 1 => IsUpdate(x, p - 1) /\ SeqAt(x, p - 1) = n
    BY <1>1, <2>3, <2>4 DEF IsUpdate, SeqAt
  <2> QED
    BY <2>2, <2>5
<1>4. ASSUME Accepts(x, Len(w) + 1, i)
      PROVE  \E n \in DOMAIN L :
               /\ L[n].tx = i
               /\ IF Len(w) + 1 = 1 THEN Newest(at, from, h, n)
                  ELSE IsUpdate(x, Len(w) + 1 - 1) /\ SeqAt(x, Len(w) + 1 - 1) = n
  <2>1. /\ w # <<>> /\ w[Len(w)].type = "updates"
        /\ w[Len(w)].update.seq \in DOMAIN L /\ L[w[Len(w)].update.seq].tx = i
    BY <1>1, <1>4 DEF Accepts
  <2>2. Len(w) \in DOMAIN w /\ Len(w) + 1 - 1 = Len(w) /\ Len(w) + 1 # 1 /\ Len(w) \in DOMAIN x
    BY <1>1, <1>2, <2>1
  <2>3. IsUpdate(x, Len(w)) /\ SeqAt(x, Len(w)) = w[Len(w)].update.seq
    BY <1>1, <2>1, <2>2 DEF IsUpdate, SeqAt
  <2> QED
    BY <2>1, <2>2, <2>3
<1>5. \A p \in DOMAIN x : p \in DOMAIN w \/ p = Len(w) + 1
  BY <1>1
<1>6. ToldAt(L, x, at, from, h, i)
  BY <1>3, <1>4, <1>5 DEF ToldAt
<1> QED
  BY <1>6 DEF x

\* The first message is taken: an update, or anything else.
LEMMA ToldLess ==
  ASSUME NEW L, NEW w, IsSequence(w), w # <<>>, NEW at, NEW from, NEW h, NEW i,
         ToldAt(L, w, at, from, h, i), NEW a, NEW f, NEW g,
         w[1].type = "updates" => Newest(a, f, g, w[1].update.seq)
  PROVE  ToldAt(L, Tail(w), a, f, g, i)
<1> DEFINE x == Tail(w)
<1>1. /\ Len(w) \in Nat /\ DOMAIN w = 1 .. Len(w) /\ DOMAIN x = 1 .. Len(w) - 1
      /\ \A p \in DOMAIN x : p + 1 \in DOMAIN w /\ x[p] = w[p + 1]
  BY TailAt
<1> HIDE DEF x
<1>2. ASSUME NEW p \in DOMAIN x, Accepts(x, p, i)
      PROVE  \E n \in DOMAIN L :
               /\ L[n].tx = i
               /\ IF p = 1 THEN Newest(a, f, g, n)
                  ELSE IsUpdate(x, p - 1) /\ SeqAt(x, p - 1) = n
  <2>1. Accepts(w, p + 1, i) /\ p + 1 \in DOMAIN w /\ p + 1 # 1 /\ p + 1 - 1 = p
    BY <1>1, <1>2 DEF Accepts
  <2>2. PICK n \in DOMAIN L : L[n].tx = i /\ IsUpdate(w, p) /\ SeqAt(w, p) = n
    <3> DEFINE q == p + 1
    <3>1. q \in DOMAIN w /\ Accepts(w, q, i) /\ q # 1 /\ q - 1 = p
      BY <2>1
    <3> HIDE DEF q
    <3>2. \E n \in DOMAIN L :
            /\ L[n].tx = i
            /\ IF q = 1 THEN Newest(at, from, h, n)
               ELSE IsUpdate(w, q - 1) /\ SeqAt(w, q - 1) = n
      BY <3>1 DEF ToldAt
    <3> QED
      BY <3>1, <3>2
  <2>3. CASE p = 1
    BY <2>2, <2>3 DEF IsUpdate, SeqAt
  <2>4. CASE p # 1
    <3>1. p - 1 \in DOMAIN x /\ p - 1 + 1 = p
      BY <1>1, <2>4
    <3>2. IsUpdate(x, p - 1) /\ SeqAt(x, p - 1) = n
      BY <1>1, <2>2, <3>1 DEF IsUpdate, SeqAt
    <3> QED
      BY <2>2, <2>4, <3>2
  <2> QED
    BY <2>3, <2>4
<1>3. ToldAt(L, x, a, f, g, i)
  BY <1>2 DEF ToldAt
<1> QED
  BY <1>3 DEF x

-----------------------------------------------------------------------------
\* What is left to show of a step.
LEMMA TxsStay ==
  ASSUME PushInv, SyncInv, PushInv', Stay(txs, txs')
  PROVE  /\ Txs' = Txs
         /\ \A i \in Txs : Fresh(txs'[i]) => Fresh(txs[i])
<1>1. DOMAIN txs = Txs
  BY TxsAre, SyncAre
<1>2. txs' \in Seq(Mutations)
  BY DEF PushInv, CountersOk
<1>3. DOMAIN txs' = Txs'
  BY <1>2, LenProperties DEF Txs
<1> QED
  BY <1>1, <1>3 DEF Stay, Goes, Fresh

LEMMA SameStays ==
  ASSUME PushInv, SyncInv, txs' = txs
  PROVE  Stay(txs, txs') /\ \A k : Pending(k) <=> Pending(k)'
<1>1. Txs' = Txs
  BY DEF Txs
<1> QED
  BY <1>1, TxsAre, SyncAre DEF Stay, Pending

LEMMA FreshStays ==
  ASSUME PushInv, SyncInv, PushInv', FreshOk, Stay(txs, txs'),
         \A i \in Txs : Fresh(txs[i]) /\ Fresh(txs'[i]) /\ FreshAt(txs[i], i, log, late, toServer)
                          => FreshAt(txs'[i], i, log', late', toServer')
  PROVE  FreshOk'
BY TxsStay DEF FreshOk

LEMMA ToldStays ==
  ASSUME PushInv, SyncInv, PushInv', ToldOk, Stay(txs, txs'),
         \A i \in Txs : /\ Fresh(txs[i]) /\ Fresh(txs'[i])
                        /\ ToldAt(log, toClient, session, cursor, buffered, i)
                          => ToldAt(log', toClient', session', cursor', buffered', i)
  PROVE  ToldOk'
BY TxsStay DEF ToldOk

LEMMA FreshSame ==
  ASSUME FreshOk, UNCHANGED <<txs, log, late, toServer>>
  PROVE  FreshOk'
BY DEF FreshOk, Txs

LEMMA ToldSame ==
  ASSUME ToldOk, UNCHANGED <<txs, log, toClient, session, cursor, buffered>>
  PROVE  ToldOk'
BY DEF ToldOk, Txs

LEMMA StoredStays ==
  ASSUME StoredOk, followed' => followed,
         session' \in WithRows /\ followed' =>
           /\ session \in WithRows /\ UNCHANGED <<queue, cache, synced, cursor, buffered>>
           /\ \A k \in Keys : Pending(k) => Pending(k)'
  PROVE  StoredOk'
BY DEF StoredOk

LEMMA CacheInvInit == Init => CacheInv
<1> SUFFICES ASSUME Init
             PROVE  CacheInv
  OBVIOUS
<1>1. Txs = {}
  BY DEF Init, Txs
<1>2. cache \in Rowset
  BY DEF Init, NoRows, Rowset
<1>3. session \notin WithRows
  BY DEF Init, WithRows
<1> QED
  BY <1>1, <1>2, <1>3 DEF CacheInv, FreshOk, ToldOk, StoredOk

\* The cache: an operation is performed.
LEMMA PerformedIs ==
  ASSUME cache \in Rowset, NEW op \in Ops
  PROVE  /\ Performed(op) \in Rowset
         /\ \A k \in Keys : Performed(op)[k] =
              IF Touches(op, k) THEN ValueIn(op, k) ELSE cache[k]
<1>1. CASE op \in PutOps
  <2>1. PICK K \in SUBSET Keys : op \in [op : {"put"}, rows : [K -> Nat]]
    BY <1>1 DEF PutOps
  <2>2. op.op = "put" /\ DOMAIN op.rows = K /\ op.rows \in [K -> Nat]
    BY <2>1
  <2>3. Performed(op) = [k \in Keys |-> IF k \in K THEN op.rows[k] ELSE cache[k]]
    BY <2>2 DEF Performed
  <2>4. Performed(op) \in Rowset
    BY <2>2, <2>3 DEF Rowset
  <2>5. \A k \in Keys : Touches(op, k) <=> k \in K
    BY <2>2 DEF Touches
  <2> QED
    BY <2>2, <2>3, <2>4, <2>5 DEF ValueIn
<1>2. CASE op \in DeleteOps
  <2>1. op.op = "delete" /\ op.keys \in SUBSET Keys
    BY <1>2 DEF DeleteOps
  <2>2. Performed(op) = [k \in Keys |-> IF k \in op.keys THEN 0 ELSE cache[k]]
    BY <2>1 DEF Performed
  <2> QED
    BY <2>1, <2>2 DEF Rowset, Touches, ValueIn
<1>3. CASE op \in ReplaceOps
  <2>1. op.op = "replace" /\ op.rows \in Rowset
    BY <1>3 DEF ReplaceOps, Rowset
  <2>2. Performed(op) = op.rows
    BY <2>1 DEF Performed
  <2> QED
    BY <2>1, <2>2 DEF Touches, ValueIn
<1> QED
  BY <1>1, <1>2, <1>3 DEF Ops

LEMMA CacheInvPerform ==
  ASSUME PushInv, SyncInv, PushInv', CacheInv, Perform
  PROVE  CacheInv'
<1>1. /\ UNCHANGED <<log, late, session, cursor, buffered, synced, toServer, toClient, txs,
                     followed>>
      /\ queue # <<>> /\ queue' = Tail(queue) /\ cache' = Performed(Head(queue))
  BY DEF Perform, shard, sync
<1>2. Stay(txs, txs') /\ \A k : Pending(k) <=> Pending(k)'
  BY <1>1, SameStays
<1>3. FreshOk' /\ ToldOk'
  BY <1>1, FreshSame, ToldSame DEF CacheInv
<1>4. queue \in Seq(Ops) /\ Head(queue) \in Ops
  BY <1>1, SyncAre, HeadTailProperties
<1>5. /\ cache' \in Rowset
      /\ \A k \in Keys : cache'[k] =
           IF Touches(Head(queue), k) THEN ValueIn(Head(queue), k) ELSE cache[k]
  BY <1>1, <1>4, PerformedIs DEF CacheInv
<1>6. \A k \in Keys : Ends(queue, cache, k, synced[k]) => Ends(queue', cache', k, synced[k])
  BY <1>1, <1>4, <1>5, EndsTail
<1>7. StoredOk'
  BY <1>1, <1>2, <1>6 DEF CacheInv, StoredOk
<1> QED
  BY <1>3, <1>5, <1>7 DEF CacheInv

-----------------------------------------------------------------------------
\* A session begins, or asks for rows.
LEMMA FreshAsks ==
  ASSUME FreshOk, IsSequence(toServer), NEW m, m.type # "push",
         toServer' = Append(toServer, m), UNCHANGED <<txs, log, late>>
  PROVE  FreshOk'
<1>1. Txs' = Txs
  BY DEF Txs
<1>2. ASSUME NEW i \in Txs, Fresh(txs[i])
      PROVE  FreshAt(txs[i], i, log, late, Append(toServer, m))
  <2>1. FreshAt(txs[i], i, log, late, toServer)
    BY <1>2 DEF FreshOk
  <2> QED
    BY <2>1, FreshMore
<1> QED
  BY <1>1, <1>2 DEF FreshOk

LEMMA ToldAside ==
  ASSUME ToldOk, UNCHANGED <<txs, log, toClient>>,
         session' \notin {"storing", "synced", "recovering"}
  PROVE  ToldOk'
<1>1. Txs' = Txs
  BY DEF Txs
<1>2. \A n : Newest(session', cursor', buffered', n)
  BY DEF Newest
<1>3. ASSUME NEW i \in Txs, Fresh(txs[i])
      PROVE  ToldAt(log, toClient, session', cursor', buffered', i)
  <2>1. ToldAt(log, toClient, session, cursor, buffered, i)
    BY <1>3 DEF ToldOk
  <2> QED
    BY <1>2, <2>1, ToldSession
<1> QED
  BY <1>1, <1>3 DEF ToldOk

LEMMA ToldNothing ==
  ASSUME toClient' = <<>>
  PROVE  ToldOk'
<1> DEFINE none == <<>>
<1>1. \A i, L, at, from, h : ToldAt(L, none, at, from, h, i)
  BY ToldNone
<1>2. toClient' = none
  OBVIOUS
<1> HIDE DEF none
<1> QED
  BY <1>1, <1>2 DEF ToldOk

LEMMA CacheInvAside ==
  ASSUME PushInv, SyncInv, CacheInv, Start \/ Hydrate \/ Connect \/ Load
  PROVE  CacheInv'
<1>1. UNCHANGED <<txs, log, late, cache, toClient, queue, cursor, buffered, followed>>
  BY DEF Start, Hydrate, Connect, Load, shard, store
<1>2. IsSequence(toServer) /\ FreshOk /\ ToldOk /\ StoredOk /\ cache \in Rowset
  BY SyncAre DEF CacheInv
<1>3. CASE Start \/ Hydrate
  <2>1. session' \in {"hydrating", "subscribing"} /\ toServer' = toServer
    BY <1>3 DEF Start, Hydrate
  <2>2. session' \notin WithRows
    BY <2>1 DEF WithRows
  <2> QED
    BY <1>1, <1>2, <2>1, <2>2, FreshSame, ToldAside, StoredStays DEF CacheInv
<1>4. CASE Load
  <2>1. session' = "loading" /\ toServer' = Append(toServer, [type |-> "read"])
    BY <1>4 DEF Load
  <2>2. FreshOk'
    BY <1>1, <1>2, <2>1, FreshAsks
  <2>3. session' \notin WithRows
    BY <2>1 DEF WithRows
  <2> QED
    BY <1>1, <1>2, <2>1, <2>2, <2>3, ToldAside, StoredStays DEF CacheInv
<1>5. CASE Connect
  <2>1. up = FALSE /\ synced' = synced
    BY <1>5, SyncAre DEF Connect
  <2>2. toServer = <<>> /\ toClient = <<>>
    BY <2>1, SyncAre DEF ConnOk, SocketOk
  <2>3. ToldOk'
    BY <1>1, <2>2, ToldNothing
  <2>4. CASE session = "disconnected"
    <3> DEFINE m == [type |-> "changes", cursor |-> cursor]
    <3>1. toServer' = Append(toServer, m) /\ m.type # "push"
      BY <1>5, <2>2, <2>4 DEF Connect
    <3> HIDE DEF m
    <3>2. FreshOk'
      BY <1>1, <1>2, <3>1, FreshAsks
    <3>3. session \in WithRows
      BY <2>4 DEF WithRows
    <3>4. \A k : Pending(k) => Pending(k)'
      BY <1>1 DEF Pending, Txs
    <3>5. StoredOk'
      BY <1>1, <1>2, <2>1, <3>3, <3>4, StoredStays
    <3> QED
      BY <1>1, <1>2, <2>3, <3>2, <3>5 DEF CacheInv
  <2>5. CASE session # "disconnected"
    <3>1. toServer' = toServer /\ session' = session
      BY <1>5, <2>5 DEF Connect
    <3>2. FreshOk'
      BY <1>1, <1>2, <3>1, FreshSame
    <3>3. session' \notin WithRows
      BY <1>5, <2>5, <3>1 DEF Connect, WithRows
    <3>4. StoredOk'
      BY <1>2, <3>3 DEF StoredOk
    <3> QED
      BY <1>1, <1>2, <2>3, <3>2, <3>4 DEF CacheInv
  <2> QED
    BY <2>4, <2>5
<1> QED
  BY <1>3, <1>4, <1>5

-----------------------------------------------------------------------------
\* A local mutation is made, its push is sent, is given up, or finds no socket.
LEMMA CacheInvMutate ==
  ASSUME PushInv, SyncInv, CacheInv, NEW key \in Keys, NEW type \in Types, Mutate(key, type)
  PROVE  CacheInv'
<1> DEFINE i == Len(txs) + 1
           tx == [key |-> key, type |-> type, id |-> i, attempt |-> 1,
                  state |-> IF up THEN "sent" ELSE "waiting"]
<1>1. /\ txs' = Append(txs, tx)
      /\ toServer' = IF up THEN Append(toServer, PushOf(i)) ELSE toServer
      /\ UNCHANGED <<log, late, session, cursor, buffered, synced, cache, queue, toClient,
                     followed>>
  BY DEF Mutate, shard, sync, store
<1>2. /\ txs \in Seq(Mutations) /\ Len(txs) \in Nat /\ DOMAIN txs = Txs /\ Txs = 1 .. Len(txs)
      /\ IsSequence(toServer) /\ EntriesOk(log, txs)
  BY TxsAre, SyncAre
<1>3. PushOf(i).type = "push" /\ PushOf(i).tx = i
  BY DEF PushOf
<1>4. tx.state = (IF up THEN "sent" ELSE "waiting")
  OBVIOUS
<1> HIDE DEF tx
<1>5. /\ txs'[i] = tx /\ \A j \in Txs : txs'[j] = txs[j] /\ j # i
      /\ Txs' = Txs \cup {i} /\ i \notin Txs /\ i # 0
  <2>1. txs'[i] = tx /\ (\A j \in Txs : txs'[j] = txs[j]) /\ Len(txs') = Len(txs) + 1
    BY <1>1, <1>2, AppendProperties
  <2> QED
    BY <1>2, <2>1 DEF Txs
<1> HIDE DEF i
<1>6. FreshOk /\ ToldOk /\ StoredOk /\ cache \in Rowset
  BY DEF CacheInv
<1>7. ASSUME NEW j \in Txs, Fresh(txs[j])
      PROVE  FreshAt(txs[j], j, log, late, toServer')
  <2>1. FreshAt(txs[j], j, log, late, toServer)
    BY <1>6, <1>7 DEF FreshOk
  <2>2. j # i
    BY <1>5
  <2>3. FreshAt(txs[j], j, log, late, Append(toServer, PushOf(i)))
    BY <1>2, <1>3, <2>1, <2>2, FreshMore
  <2> QED
    BY <1>1, <2>1, <2>3
<1>8. FreshAt(tx, i, log, late, toServer')
  <2> DEFINE t == [state |-> "waiting"]
  <2>1. \A m \in late : m.tx # i
    BY <1>5 DEF PushInv, MessagesOk
  <2>2. ~Logged(log, i)
    BY <1>2, <1>5 DEF EntriesOk, Logged
  <2>3. \A n \in DOMAIN toServer : ~IsPush(toServer, n, i)
    BY <1>5 DEF PushInv, MessagesOk, ToSet, IsPush
  <2>4. t.state = "waiting"
    OBVIOUS
  <2> HIDE DEF t
  <2>5. FreshAt(t, i, log, late, toServer)
    BY <2>1, <2>2, <2>3 DEF FreshAt
  <2>6. CASE up
    BY <1>1, <1>2, <1>4, <2>4, <2>5, <2>6, FreshMore
  <2>7. CASE ~up
    BY <1>1, <2>1, <2>2, <2>3, <2>7 DEF FreshAt
  <2> QED
    BY <2>6, <2>7
<1>9. FreshOk'
  <2>1. \A j \in Txs' : Fresh(txs'[j]) => FreshAt(txs'[j], j, log, late, toServer')
    BY <1>5, <1>7, <1>8
  <2> QED
    BY <1>1, <2>1 DEF FreshOk
<1>10. ToldOk'
  <2>1. ToldAt(log, toClient, session, cursor, buffered, i)
    BY <1>5 DEF PushInv, MessagesOk, ToSet, ToldAt, Accepts
  <2>2. \A j \in Txs' : Fresh(txs'[j]) => ToldAt(log, toClient, session, cursor, buffered, j)
    BY <1>5, <1>6, <2>1 DEF ToldOk
  <2> QED
    BY <1>1, <2>2 DEF ToldOk
<1>11. StoredOk'
  <2>1. \A k : Pending(k) => Pending(k)'
    BY <1>5 DEF Pending
  <2> QED
    BY <1>1, <1>6, <2>1, StoredStays
<1> QED
  BY <1>1, <1>6, <1>9, <1>10, <1>11 DEF CacheInv

LEMMA CacheInvOne ==
  ASSUME PushInv, SyncInv, PushInv', CacheInv, NEW i \in Txs,
         SendPush(i) \/ Timeout(i) \/ OpenFails(i),
         Fresh(txs'[i]) => FreshAt(txs'[i], i, log, late, toServer'),
         \A j \in Txs : j # i => txs'[j] = txs[j],
         toServer' = toServer \/ \E m : m.tx = i /\ toServer' = Append(toServer, m),
         followed' => followed /\ txs'[i].state \in Open
  PROVE  CacheInv'
<1>1. UNCHANGED <<log, late, session, cursor, buffered, synced, cache, queue, toClient>>
  BY DEF SendPush, Timeout, OpenFails, shard, sync, store
<1>2. Stay(txs, txs')
  BY OneMutationStays
<1>3. FreshOk /\ ToldOk /\ StoredOk /\ cache \in Rowset /\ IsSequence(toServer)
  BY SyncAre DEF CacheInv
<1>4. Txs' = Txs
  BY <1>2, TxsStay
<1>5. ASSUME NEW j \in Txs, Fresh(txs'[j])
      PROVE  FreshAt(txs'[j], j, log, late, toServer')
  <2>1. CASE j = i
    BY <1>5, <2>1
  <2>2. CASE j # i
    <3>1. txs'[j] = txs[j] /\ FreshAt(txs[j], j, log, late, toServer)
      BY <1>3, <1>5, <2>2 DEF FreshOk
    <3>2. ASSUME NEW m, m.tx = i, toServer' = Append(toServer, m)
          PROVE  FreshAt(txs[j], j, log, late, toServer')
      BY <1>3, <2>2, <3>1, <3>2, FreshMore
    <3> QED
      BY <3>1, <3>2
  <2> QED
    BY <2>1, <2>2
<1>6. FreshOk'
  BY <1>1, <1>4, <1>5 DEF FreshOk
<1>7. ToldOk'
  <2>1. \A j \in Txs : Fresh(txs'[j]) => Fresh(txs[j])
    BY <1>2, TxsStay
  <2>2. \A j \in Txs : Fresh(txs'[j]) => ToldAt(log, toClient, session, cursor, buffered, j)
    BY <1>3, <2>1 DEF ToldOk
  <2> QED
    BY <1>1, <1>4, <2>2 DEF ToldOk
<1>8. StoredOk'
  <2>1. \A j \in Txs : txs'[j].key = txs[j].key
    BY <1>2, TxsAre, SyncAre DEF Stay, Goes
  <2>2. ASSUME followed'
        PROVE  \A k \in Keys : Pending(k) => Pending(k)'
    BY <1>4, <2>1, <2>2 DEF Pending
  <2> QED
    BY <1>1, <1>3, <2>2, StoredStays
<1> QED
  BY <1>1, <1>3, <1>6, <1>7, <1>8 DEF CacheInv

\* An attempt that failed was the last, or another one waits.
LEMMA FailedIs ==
  ASSUME NEW tx \in Mutations, tx.attempt # 0, tx.state \in Open
  PROVE  /\ ~Fresh(AfterFailure(tx))
         /\ AfterFailure(tx).state \in {"waiting", "failed"}
<1>1. AfterFailure(tx).state \in {"waiting", "failed"}
  BY DEF AfterFailure, Mutations, States
<1> QED
  BY <1>1, FailureGoes DEF Fresh, Open

LEMMA CacheInvOneMutation ==
  ASSUME PushInv, SyncInv, PushInv', CacheInv, NEW i \in Txs,
         SendPush(i) \/ Timeout(i) \/ OpenFails(i)
  PROVE  CacheInv'
<1>1. /\ txs[i] \in Mutations /\ txs[i].attempt # 0 /\ txs \in Seq(Mutations)
      /\ EntriesOk(log, txs) /\ IsSequence(toServer) /\ DOMAIN txs = Txs /\ FreshOk
  BY TxsAre, SyncAre DEF CacheInv
<1>2. CASE SendPush(i)
  <2> DEFINE tx == [txs[i] EXCEPT !.state = "sent"]
  <2>1. txs[i].state = "waiting" /\ toServer' = Append(toServer, PushOf(i)) /\ followed' = followed
    BY <1>2 DEF SendPush
  <2>2. tx.state = "sent" /\ tx.attempt = txs[i].attempt /\ Goes(txs[i], tx)
    BY <1>1, <2>1, StateGoes DEF Open
  <2>3. txs' = [txs EXCEPT ![i] = tx]
    BY <1>2 DEF SendPush
  <2> HIDE DEF tx
  <2>4. txs'[i] = tx /\ \A j \in Txs : j # i => txs'[j] = txs[j]
    BY <1>1, <2>2, <2>3, OneStays
  <2>5. Fresh(txs'[i]) => FreshAt(txs'[i], i, log, late, toServer')
    <3>1. ASSUME Fresh(tx)
          PROVE  FreshAt(txs[i], i, log, late, toServer)
      BY <1>1, <2>1, <2>2, <3>1 DEF Fresh, Open, FreshOk
    <3>2. ASSUME Fresh(tx)
          PROVE  FreshAt(tx, i, log, late, Append(toServer, PushOf(i)))
      BY <1>1, <2>1, <2>2, <3>1, <3>2, FreshMore
    <3> QED
      BY <2>1, <2>4, <3>2
  <2>6. PushOf(i).tx = i
    BY DEF PushOf
  <2>7. txs'[i].state \in Open
    BY <2>2, <2>4 DEF Open
  <2> QED
    BY <1>2, <2>1, <2>4, <2>5, <2>6, <2>7, CacheInvOne
<1>3. CASE Timeout(i)
  <2> DEFINE tx == AfterFailure(txs[i])
  <2>1. txs[i].state = "sent" /\ toServer' = toServer /\ followed' = (followed /\ ~Failed(txs'))
    BY <1>3 DEF Timeout
  <2>2. ~Fresh(tx) /\ tx.state \in {"waiting", "failed"} /\ Goes(txs[i], tx)
    BY <1>1, <2>1, FailedIs, FailureGoes DEF Open
  <2>3. txs' = [txs EXCEPT ![i] = tx]
    BY <1>3 DEF Timeout
  <2> HIDE DEF tx
  <2>4. txs'[i] = tx /\ \A j \in Txs : j # i => txs'[j] = txs[j]
    BY <1>1, <2>2, <2>3, OneStays
  <2>5. tx.state = "failed" => Failed(txs')
    <3>1. i \in DOMAIN txs'
      BY <1>1, <2>3
    <3> QED
      BY <2>1, <2>4, <3>1 DEF Failed
  <2>6. followed' => followed /\ txs'[i].state \in Open
    BY <2>1, <2>2, <2>4, <2>5 DEF Open
  <2> QED
    BY <1>3, <2>1, <2>2, <2>4, <2>6, CacheInvOne
<1>4. CASE OpenFails(i)
  <2> DEFINE tx == [txs[i] EXCEPT !.state = "failed"]
  <2>1. txs[i].state = "waiting" /\ toServer' = toServer /\ followed' = FALSE
    BY <1>4 DEF OpenFails
  <2>2. tx.state = "failed" /\ Goes(txs[i], tx)
    BY <1>1, StateGoes DEF Open
  <2>3. txs' = [txs EXCEPT ![i] = tx]
    BY <1>4 DEF OpenFails
  <2> HIDE DEF tx
  <2>4. txs'[i] = tx /\ \A j \in Txs : j # i => txs'[j] = txs[j]
    BY <1>1, <2>2, <2>3, OneStays
  <2>5. ~Fresh(txs'[i])
    BY <2>2, <2>4 DEF Fresh, Open
  <2> QED
    BY <1>4, <2>1, <2>4, <2>5, CacheInvOne
<1> QED
  BY <1>2, <1>3, <1>4

-----------------------------------------------------------------------------
\* The socket or the tab is lost.
LEMMA CacheInvDrop ==
  ASSUME PushInv, SyncInv, PushInv', CacheInv, Drop
  PROVE  CacheInv'
<1> DEFINE none == <<>>
           tx(i) == IF txs[i].state = "sent" THEN AfterFailure(txs[i]) ELSE txs[i]
<1>1. /\ UNCHANGED <<log, cursor, buffered, synced, cache, queue>>
      /\ toServer' = none /\ toClient' = none /\ late' = late \cup PushesOf(toServer)
      /\ session \in {"subscribing", "synced", "recovering"}
      /\ session' = IF session = "subscribing" THEN session ELSE "disconnected"
      /\ followed' = (followed /\ ~Failed(txs'))
      /\ txs' = [i \in Txs |-> tx(i)]
  BY DEF Drop, LoseSocket, RejectPending, store
<1>2. /\ \A i \in Txs : txs[i] \in Mutations /\ txs[i].attempt # 0
      /\ DOMAIN txs = Txs /\ FreshOk /\ StoredOk /\ cache \in Rowset
  BY TxsAre, SyncAre DEF CacheInv
<1>3. Stay(txs, txs')
  BY LostStays
<1>4. Txs' = Txs /\ DOMAIN txs' = Txs /\ \A i \in Txs : txs'[i].key = txs[i].key
  BY <1>2, <1>3, TxsStay DEF Stay, Goes
<1>5. ASSUME NEW i \in Txs
      PROVE  /\ txs[i].state = "sent" => /\ ~Fresh(txs'[i])
                                         /\ txs'[i].state \in {"waiting", "failed"}
             /\ txs[i].state # "sent" => txs'[i] = txs[i]
  <2>1. txs'[i] = tx(i)
    BY <1>1
  <2>2. CASE txs[i].state = "sent"
    <3>1. txs'[i] = AfterFailure(txs[i])
      BY <2>1, <2>2
    <3> QED
      BY <1>2, <2>2, <3>1, FailedIs DEF Open
  <2>3. CASE txs[i].state # "sent"
    BY <2>1, <2>3
  <2> QED
    BY <2>2, <2>3
<1> HIDE DEF tx
<1>6. FreshOk'
  <2>1. ASSUME NEW i \in Txs, Fresh(txs'[i])
        PROVE  FreshAt(txs'[i], i, log, late', <<>>)
    <3>1. txs'[i] = txs[i] /\ txs[i].state = "waiting"
      BY <1>5, <2>1 DEF Fresh, Open
    <3>2. FreshAt(txs[i], i, log, late, toServer)
      BY <1>2, <2>1, <3>1 DEF FreshOk
    <3> QED
      BY <1>1, <3>1, <3>2, FreshLost
  <2> QED
    BY <1>1, <1>4, <2>1 DEF FreshOk
<1>7. ToldOk'
  BY <1>1, ToldNothing
<1>8. StoredOk'
  <2>1. ASSUME followed'
        PROVE  \A k \in Keys : Pending(k) => Pending(k)'
    <3>1. \A i \in Txs : txs[i].state \in Open => txs'[i].state \in Open
      <4>1. ASSUME NEW i \in Txs, txs[i].state = "sent", txs'[i].state = "failed"
            PROVE  FALSE
        <5>1. Failed(txs')
          BY <1>4, <4>1 DEF Failed
        <5> QED
          BY <1>1, <2>1, <5>1
      <4> QED
        BY <1>5, <4>1 DEF Open
    <3> QED
      BY <1>4, <3>1 DEF Pending
  <2>2. session' \in WithRows => session \in WithRows
    BY <1>1 DEF WithRows
  <2> QED
    BY <1>1, <1>2, <2>1, <2>2, StoredStays
<1> QED
  BY <1>1, <1>2, <1>6, <1>7, <1>8 DEF CacheInv

LEMMA CacheInvCrash ==
  ASSUME PushInv, SyncInv, PushInv', CacheInv, Crash
  PROVE  CacheInv'
<1> DEFINE none == <<>>
           tx(i) == IF txs[i].state \in Open THEN [txs[i] EXCEPT !.state = "gone"]
                    ELSE txs[i]
<1>1. /\ session' = "closed" /\ toClient' = none /\ cache' = cache
      /\ txs' = [i \in Txs |-> tx(i)]
  BY DEF Crash, LoseSocket
<1>2. /\ \A i \in Txs : txs[i] \in Mutations /\ txs[i].attempt # 0
      /\ cache \in Rowset
  BY TxsAre, SyncAre DEF CacheInv
<1>3. Txs' = Txs
  BY LostStays, TxsStay
<1>4. \A i \in Txs : tx(i).state \notin Open
  <2>1. \A i \in Txs : txs[i].state \in Open => tx(i).state = "gone"
    BY <1>2, StateGoes DEF Open
  <2> QED
    BY <2>1 DEF Open
<1> HIDE DEF tx
<1>5. FreshOk'
  <2>1. \A i \in Txs : ~Fresh(txs'[i])
    BY <1>1, <1>4 DEF Fresh
  <2> QED
    BY <1>3, <2>1 DEF FreshOk
<1>6. ToldOk'
  BY <1>1, ToldNothing
<1>7. StoredOk'
  BY <1>1 DEF StoredOk, WithRows
<1> QED
  BY <1>1, <1>2, <1>5, <1>6, <1>7 DEF CacheInv

-----------------------------------------------------------------------------
\* The shard handles a push, or another client changes a row.
LEMMA LoggedGrown ==
  ASSUME NEW L \in Seq(Changes), NEW c \in Changes, NEW i
  PROVE  Logged(Append(L, c), i) => Logged(L, i) \/ c.tx = i
<1>1. /\ DOMAIN L = 1 .. Len(L) /\ Len(L) \in Nat
      /\ DOMAIN Append(L, c) = 1 .. Len(L) + 1
  BY LogAt, LogGrown
<1>2. \A n \in DOMAIN Append(L, c) :
        \/ n \in DOMAIN L /\ Append(L, c)[n] = L[n]
        \/ Append(L, c)[n] = c
  BY <1>1, LogGrown
<1> QED
  BY <1>2 DEF Logged

LEMMA ToldPublished ==
  ASSUME PushInv, SyncInv, NEW change \in Changes, NEW w, IsSequence(w), NEW i,
         ToldAt(log, w, session, cursor, buffered, i)
  PROVE  /\ ToldAt(Append(log, change), w, session, cursor, buffered, i)
         /\ ToldAt(Append(log, change), Append(w, Broadcast(change)), session, cursor,
                   buffered, i)
<1> DEFINE M == Append(log, change)
           m == Broadcast(change)
<1>1. /\ log \in Seq(Changes) /\ M \in Seq(Changes) /\ Len(M) = Len(log) + 1
      /\ \A n \in 1 .. Len(log) : M[n] = log[n]
      /\ Len(log) \in Nat
  BY SyncAre, LogGrown
<1>2. m.type # "answer"
  BY DEF Broadcast
<1> HIDE DEF M, m
<1>3. Len(log) <= Len(M)
  BY <1>1
<1>4. ToldAt(M, w, session, cursor, buffered, i)
  BY <1>1, <1>3, ToldLog
<1>5. ToldAt(M, Append(w, m), session, cursor, buffered, i)
  BY <1>2, <1>4, ToldMore
<1> QED
  BY <1>4, <1>5 DEF M, m

LEMMA StoredSame ==
  ASSUME StoredOk,
         UNCHANGED <<session, cursor, buffered, synced, queue, cache, txs, followed>>
  PROVE  StoredOk'
BY DEF StoredOk, Pending, Txs

LEMMA CacheInvShard ==
  ASSUME CacheInv,
         UNCHANGED <<session, cursor, buffered, synced, queue, cache, txs, followed>>,
         \A i \in Txs : Fresh(txs[i]) =>
           /\ FreshAt(txs[i], i, log', late', toServer')
           /\ ToldAt(log', toClient', session, cursor, buffered, i)
  PROVE  CacheInv'
<1>1. Txs' = Txs
  BY DEF Txs
<1>2. FreshOk'
  BY <1>1 DEF FreshOk
<1>3. ToldOk'
  BY <1>1 DEF ToldOk
<1>4. StoredOk'
  BY StoredSame DEF CacheInv
<1> QED
  BY <1>2, <1>3, <1>4 DEF CacheInv

LEMMA CacheInvPublish ==
  ASSUME PushInv, SyncInv, CacheInv, NEW change \in Changes, Publish(change),
         \A i \in Txs : Fresh(txs[i]) => change.tx # i,
         late' \subseteq late,
         UNCHANGED <<toServer, session, cursor, buffered, synced, queue, cache, txs, followed>>
  PROVE  CacheInv'
<1>1. /\ log' = Append(log, change)
      /\ toClient' = IF up THEN Append(toClient, Broadcast(change)) ELSE toClient
  BY DEF Publish
<1>2. IsSequence(toClient) /\ log \in Seq(Changes)
  BY SyncAre
<1>3. ASSUME NEW i \in Txs, Fresh(txs[i])
      PROVE  /\ FreshAt(txs[i], i, log', late', toServer')
             /\ ToldAt(log', toClient', session, cursor, buffered, i)
  <2>1. /\ FreshAt(txs[i], i, log, late, toServer)
        /\ ToldAt(log, toClient, session, cursor, buffered, i)
    BY <1>3 DEF CacheInv, FreshOk, ToldOk
  <2>2. Logged(log', i) => Logged(log, i)
    BY <1>1, <1>2, <1>3, LoggedGrown
  <2>3. FreshAt(txs[i], i, log', late', toServer)
    BY <2>1, <2>2, FreshLog
  <2>4. /\ ToldAt(log', toClient, session, cursor, buffered, i)
        /\ ToldAt(log', Append(toClient, Broadcast(change)), session, cursor, buffered, i)
    BY <1>1, <1>2, <2>1, ToldPublished
  <2>5. ToldAt(log', toClient', session, cursor, buffered, i)
    BY <1>1, <2>4
  <2> QED
    BY <2>3, <2>5
<1> QED
  BY <1>3, CacheInvShard

LEMMA CacheInvRemote ==
  ASSUME PushInv, SyncInv, CacheInv, NEW k \in Keys, NEW type \in Types, Remote(k, type)
  PROVE  CacheInv'
<1> DEFINE change == [key |-> k, type |-> type, id |-> MaxLocal + spent'.remote, tx |-> 0]
<1>1. /\ Publish(change)
      /\ UNCHANGED <<late, toServer, session, cursor, buffered, synced, queue, cache, txs,
                     followed>>
  BY DEF Remote, sync, store
<1>2. change \in Changes /\ change.tx = 0
  <2>1. MaxLocal + spent'.remote \in Nat \ {0}
    <3>1. spent \in [{"remote", "faults", "crashes"} -> Nat] /\ MaxLocal \in Nat
      BY OfflineAssumption DEF PushInv, CountersOk
    <3>2. spent' = [spent EXCEPT !["remote"] = spent["remote"] + 1]
      BY DEF Remote, Spend
    <3>3. spent'.remote = spent.remote + 1 /\ spent.remote \in Nat
      BY <3>1, <3>2
    <3> QED
      BY <3>1, <3>3
  <2> QED
    BY <2>1 DEF Changes
<1> HIDE DEF change
<1>3. \A i \in Txs : change.tx # i
  BY <1>2, TxsAre, SyncAre
<1> QED
  BY <1>1, <1>2, <1>3, CacheInvPublish

LEMMA CacheInvHandleLate ==
  ASSUME PushInv, SyncInv, CacheInv, NEW push \in late, HandleLate(push)
  PROVE  CacheInv'
<1>1. /\ late' \subseteq late
      /\ UNCHANGED <<toServer, session, cursor, buffered, synced, queue, cache, txs, followed>>
  BY DEF HandleLate, sync, store
<1>2. push.tx \in Txs /\ push.id = push.tx
  BY DEF PushInv, MessagesOk
<1>3. \A i \in Txs : Fresh(txs[i]) => push.tx # i
  BY DEF CacheInv, FreshOk, FreshAt
<1>4. CASE log' = log /\ toClient' = toClient
  <2>1. ASSUME NEW i \in Txs, Fresh(txs[i])
        PROVE  /\ FreshAt(txs[i], i, log', late', toServer')
               /\ ToldAt(log', toClient', session, cursor, buffered, i)
    <3>1. /\ FreshAt(txs[i], i, log, late, toServer)
          /\ ToldAt(log, toClient, session, cursor, buffered, i)
      BY <2>1 DEF CacheInv, FreshOk, ToldOk
    <3>2. FreshAt(txs[i], i, log, late', toServer)
      BY <1>1, <3>1, FreshLog
    <3> QED
      BY <1>1, <1>4, <3>1, <3>2
  <2> QED
    BY <1>1, <2>1, CacheInvShard
<1>5. CASE Publish(Change(push))
  <2> DEFINE change == Change(push)
  <2>1. Publish(change) /\ change \in Changes /\ change.tx = push.tx
    BY <1>2, <1>5, ChangeIs
  <2> HIDE DEF change
  <2> QED
    BY <1>1, <1>3, <2>1, CacheInvPublish
<1> QED
  BY <1>4, <1>5 DEF HandleLate

-----------------------------------------------------------------------------
LEMMA CacheInvReplies ==
  ASSUME PushInv, SyncInv, CacheInv, toServer # <<>>, toServer' = Tail(toServer), NEW m,
         toClient' = Append(toClient, m),
         \A i \in Txs : Fresh(txs[i]) => ~(m.type = "answer" /\ m.tx = i /\ m.ok),
         UNCHANGED <<log, late, session, cursor, buffered, synced, queue, cache, txs, followed>>
  PROVE  CacheInv'
<1>1. IsSequence(toServer) /\ IsSequence(toClient)
  BY SyncAre
<1>2. ASSUME NEW i \in Txs, Fresh(txs[i])
      PROVE  /\ FreshAt(txs[i], i, log', late', toServer')
             /\ ToldAt(log', toClient', session, cursor, buffered, i)
  <2>1. /\ FreshAt(txs[i], i, log, late, toServer)
        /\ ToldAt(log, toClient, session, cursor, buffered, i)
    BY <1>2 DEF CacheInv, FreshOk, ToldOk
  <2>2. FreshAt(txs[i], i, log, late, Tail(toServer))
    BY <1>1, <2>1, FreshTail
  <2>3. ToldAt(log, Append(toClient, m), session, cursor, buffered, i)
    BY <1>1, <1>2, <2>1, ToldMore
  <2> QED
    BY <2>2, <2>3
<1> QED
  BY <1>2, CacheInvShard

LEMMA CacheInvApplies ==
  ASSUME PushInv, SyncInv, CacheInv, toServer # <<>>, toServer' = Tail(toServer),
         NEW push, push = Head(toServer), push.type = "push", NEW m,
         log' = Append(log, Change(push)),
         toClient' = Append(Append(toClient, Broadcast(Change(push))), m),
         m.type = "answer", m.tx = push.tx,
         UNCHANGED <<late, session, cursor, buffered, synced, queue, cache, txs, followed>>
  PROVE  CacheInv'
<1> DEFINE change == Change(push)
           told == Broadcast(change)
           w == Append(toClient, told)
           n == Len(log) + 1
<1>1. push.tx \in Txs /\ push.id = push.tx
  BY HeadSet DEF PushInv, MessagesOk
<1>2. change \in Changes /\ change.tx = push.tx
  BY <1>1, ChangeIs
<1>3. IsSequence(toServer) /\ IsSequence(toClient) /\ log \in Seq(Changes) /\ Len(log) \in Nat
  BY SyncAre
<1>4. log' = Append(log, change) /\ toClient' = Append(w, m)
  OBVIOUS
<1>5. told.type = "updates" /\ told.update.seq = n
  BY DEF Broadcast, Update
<1> HIDE DEF change
<1>6. log' \in Seq(Changes) /\ Len(log') = n /\ log'[n] = change /\ n \in DOMAIN log'
  <2>1. log' \in Seq(Changes) /\ Len(log') = n /\ log'[n] = change
    BY <1>2, <1>3, <1>4, LogGrown
  <2> QED
    BY <1>3, <2>1, LogAt
<1> HIDE DEF told, n
<1>7. IsSequence(w) /\ w # <<>> /\ w[Len(w)] = told
  <2>1. /\ Len(toClient) \in Nat /\ IsSequence(w) /\ DOMAIN w = 1 .. Len(toClient) + 1
        /\ w[Len(toClient) + 1] = told
    BY <1>3, AppendAt
  <2>2. DOMAIN w = 1 .. Len(w) /\ Len(w) \in Nat
    BY <2>1, LenProperties DEF IsSequence
  <2>3. Len(w) = Len(toClient) + 1
    BY <2>1, <2>2
  <2> QED
    BY <2>1, <2>3, EmptyAt
<1> HIDE DEF w
<1>8. Head(toServer) = toServer[1] /\ IsPush(toServer, 1, push.tx)
  BY <1>3, TailAt DEF IsPush
<1>9. ASSUME NEW i \in Txs, Fresh(txs[i])
      PROVE  FreshAt(txs[i], i, log', late', toServer')
  <2>1. FreshAt(txs[i], i, log, late, toServer)
    BY <1>9 DEF CacheInv, FreshOk
  <2>2. CASE i = push.tx
    BY <1>3, <1>8, <2>1, <2>2, FreshTail
  <2>3. CASE i # push.tx
    <3>1. FreshAt(txs[i], i, log, late, Tail(toServer))
      BY <1>3, <2>1, FreshTail
    <3>2. Logged(log', i) => Logged(log, i)
      BY <1>2, <1>3, <1>4, <2>3, LoggedGrown
    <3> QED
      BY <3>1, <3>2, FreshLog
  <2> QED
    BY <2>2, <2>3
<1>10. ASSUME NEW i \in Txs, Fresh(txs[i])
       PROVE  ToldAt(log', toClient', session, cursor, buffered, i)
  <2>1. ToldAt(log, toClient, session, cursor, buffered, i)
    BY <1>10 DEF CacheInv, ToldOk
  <2>2. ToldAt(log', w, session, cursor, buffered, i)
    BY <1>2, <1>3, <1>4, <2>1, ToldPublished DEF w, told
  <2>3. CASE i = push.tx
    <3>1. w[Len(w)].type = "updates" /\ w[Len(w)].update.seq \in DOMAIN log'
      BY <1>5, <1>6, <1>7
    <3>2. log'[w[Len(w)].update.seq].tx = i
      BY <1>2, <1>5, <1>6, <1>7, <2>3
    <3>3. ToldAt(log', Append(w, m), session, cursor, buffered, i)
      BY <1>7, <2>2, <3>1, <3>2, ToldMore
    <3> QED
      BY <1>4, <3>3
  <2>4. CASE i # push.tx
    <3>1. ToldAt(log', Append(w, m), session, cursor, buffered, i)
      BY <1>7, <2>2, <2>4, ToldMore
    <3> QED
      BY <1>4, <3>1
  <2> QED
    BY <2>3, <2>4
<1> QED
  BY <1>9, <1>10, CacheInvShard

LEMMA CacheInvHandlePush ==
  ASSUME PushInv, SyncInv, CacheInv, toServer # <<>>, toServer' = Tail(toServer),
         NEW push, push = Head(toServer), push.type = "push", HandlePush(push),
         UNCHANGED <<late, session, cursor, buffered, synced, queue, cache, txs, followed>>
  PROVE  CacheInv'
<1> DEFINE answer(ok) == Answer(push, ok)
<1>1. push.tx \in Txs /\ push.id = push.tx
  BY HeadSet DEF PushInv, MessagesOk
<1>2. \A ok : answer(ok).type = "answer" /\ answer(ok).tx = push.tx /\ answer(ok).ok = ok
  BY DEF Answer
<1>3. CASE IsApplied(push)
  <2> DEFINE m == answer(TRUE)
  <2>1. log' = log /\ toClient' = Append(toClient, m) /\ m.tx = push.tx
    BY <1>2, <1>3 DEF HandlePush
  <2>2. \A i \in Txs : i \in Nat \ {0} /\ i <= MaxLocal
    BY LenProperties, OfflineAssumption DEF PushInv, CountersOk, Txs
  <2>3. Logged(log, push.tx)
    BY <1>1, <1>3, <2>2, OfflineAssumption DEF IsApplied, PushInv, LogOk, Logged
  <2>4. Head(toServer) = toServer[1] /\ IsPush(toServer, 1, push.tx) /\ 1 \in DOMAIN toServer
    BY SyncAre, TailAt DEF IsPush
  <2>5. \A i \in Txs : Fresh(txs[i]) => i # push.tx
    BY <2>3, <2>4 DEF CacheInv, FreshOk, FreshAt
  <2> HIDE DEF m
  <2> QED
    BY <2>1, <2>5, CacheInvReplies
<1>4. CASE ~IsApplied(push) /\ Throws(push)
  <2> DEFINE no == FALSE
             m == answer(no)
  <2>1. log' = log /\ toClient' = Append(toClient, m)
    BY <1>4 DEF HandlePush
  <2>2. m.ok = no
    BY <1>2
  <2> HIDE DEF m
  <2>3. \A i \in Txs : Fresh(txs[i]) => ~(m.type = "answer" /\ m.tx = i /\ m.ok)
    BY <2>2
  <2> QED
    BY <2>1, <2>3, CacheInvReplies
<1>5. CASE ~IsApplied(push) /\ ~Throws(push)
  <2> DEFINE told == Broadcast(Change(push))
             e == answer(TRUE)
  <2>1. log' = Append(log, Change(push)) /\ toClient' = toClient \o <<told, e>>
    BY <1>5 DEF HandlePush
  <2>2. e.type = "answer" /\ e.tx = push.tx
    BY <1>2
  <2>3. IsSequence(toClient)
    BY SyncAre
  <2> HIDE DEF told, e
  <2>4. toClient' = Append(Append(toClient, told), e)
    BY <2>1, <2>3, AppendTwo
  <2>5. toClient' = Append(Append(toClient, Broadcast(Change(push))), e)
    BY <2>4 DEF told
  <2> QED
    BY <2>1, <2>2, <2>5, CacheInvApplies
<1> QED
  BY <1>3, <1>4, <1>5

LEMMA CacheInvHandle ==
  ASSUME PushInv, SyncInv, CacheInv, Handle
  PROVE  CacheInv'
<1>1. /\ toServer # <<>> /\ toServer' = Tail(toServer)
      /\ UNCHANGED <<late, session, cursor, buffered, synced, queue, cache, txs, followed>>
  BY DEF Handle, sync, store
<1>2. PICK request : request = Head(toServer)
  OBVIOUS
<1>3. CASE request.type = "push" /\ HandlePush(request)
  BY <1>1, <1>2, <1>3, CacheInvHandlePush
<1>4. CASE log' = log /\ toClient' = Append(toClient, [type |-> "rows", rows |-> Rows,
                                                       watermark |-> Len(log)])
  <2> DEFINE m == [type |-> "rows", rows |-> Rows, watermark |-> Len(log)]
  <2>1. m.type # "answer" /\ toClient' = Append(toClient, m)
    BY <1>4
  <2> HIDE DEF m
  <2> QED
    BY <1>1, <1>4, <2>1, CacheInvReplies
<1>5. CASE log' = log /\ toClient' = Append(toClient,
             [type |-> "changes", updates |-> Page(request.cursor), watermark |-> Len(log)])
  <2> DEFINE m == [type |-> "changes", updates |-> Page(request.cursor), watermark |-> Len(log)]
  <2>1. m.type # "answer" /\ toClient' = Append(toClient, m)
    BY <1>5
  <2> HIDE DEF m
  <2> QED
    BY <1>1, <1>5, <2>1, CacheInvReplies
<1> QED
  BY <1>1, <1>2, <1>3, <1>4, <1>5 DEF Handle

LEMMA CacheInvRefuse ==
  ASSUME PushInv, SyncInv, CacheInv, Refuse
  PROVE  CacheInv'
<1> DEFINE no == FALSE
           m == Answer(Head(toServer), no)
<1>1. /\ toServer # <<>> /\ toServer' = Tail(toServer)
      /\ toClient' = Append(toClient, m)
      /\ UNCHANGED <<log, late, session, cursor, buffered, synced, queue, cache, txs, followed>>
  BY DEF Refuse, shard, sync, store
<1>2. m.ok = no
  BY DEF Answer
<1> HIDE DEF m
<1>3. \A i \in Txs : Fresh(txs[i]) => ~(m.type = "answer" /\ m.tx = i /\ m.ok)
  BY <1>2
<1> QED
  BY <1>1, <1>3, CacheInvReplies

-----------------------------------------------------------------------------
\* A broadcast is applied, or held.
LEMMA ToldDelivered ==
  ASSUME PushInv, SyncInv, ToldOk, toClient # <<>>, toClient' = Tail(toClient), log' = log,
         Txs' = Txs, \A i \in Txs : Fresh(txs'[i]) => Fresh(txs[i]),
         toClient[1].type = "updates" =>
           Newest(session', cursor', buffered', toClient[1].update.seq)
  PROVE  ToldOk'
<1>1. IsSequence(toClient)
  BY SyncAre
<1>2. ASSUME NEW i \in Txs, Fresh(txs[i])
      PROVE  ToldAt(log, Tail(toClient), session', cursor', buffered', i)
  <2>1. ToldAt(log, toClient, session, cursor, buffered, i)
    BY <1>2 DEF ToldOk
  <2> QED
    BY <1>1, <2>1, ToldLess
<1> QED
  BY <1>2 DEF ToldOk

LEMMA CacheInvHolds ==
  ASSUME PushInv, SyncInv, CacheInv, toClient # <<>>, toClient' = Tail(toClient),
         toClient[1].type = "updates", session # "synced",
         buffered' = Append(buffered, toClient[1].update),
         UNCHANGED <<log, late, toServer, session, cursor, synced, queue, cache, txs, followed>>
  PROVE  CacheInv'
<1> DEFINE u == toClient[1].update
           h == Append(buffered, u)
<1>1. /\ FreshOk /\ ToldOk /\ StoredOk /\ cache \in Rowset
      /\ IsSequence(buffered) /\ IsSequence(toClient) /\ 1 \in DOMAIN toClient
  BY SyncAre, TailAt DEF CacheInv
<1>2. /\ StreamOk(log, buffered, toClient)
      /\ session \in {"storing", "synced", "recovering"} => Past(toClient, cursor)
  BY SyncAre DEF ConnOk, RowsOk
<1>3. IsUpdate(toClient, 1) /\ SeqAt(toClient, 1) = u.seq
  BY <1>1 DEF IsUpdate, SeqAt
<1>4. session \in {"storing", "recovering"} => cursor < u.seq
  BY <1>1, <1>2, <1>3 DEF Past
<1>5. \A i \in DOMAIN buffered : buffered[i].seq < u.seq
  BY <1>1, <1>2, <1>3 DEF StreamOk, Past
<1>6. u.seq \in Nat
  <2>1. TellsOf(log, u)
    BY <1>1, <1>2, <1>3 DEF StreamOk
  <2> QED
    BY <2>1, SyncAre DEF TellsOf
<1> HIDE DEF u
<1>7. /\ \A i \in DOMAIN buffered : i \in DOMAIN h /\ h[i] = buffered[i]
      /\ \A i \in DOMAIN h : i \in DOMAIN buffered \/ h[i] = u
      /\ \E i \in DOMAIN h : h[i] = u
  <2>1. /\ Len(buffered) \in Nat /\ DOMAIN buffered = 1 .. Len(buffered)
        /\ DOMAIN h = 1 .. Len(buffered) + 1
        /\ \A i \in DOMAIN buffered : h[i] = buffered[i]
        /\ h[Len(buffered) + 1] = u
    BY <1>1, AppendAt
  <2>2. \A i \in DOMAIN h : i \in DOMAIN buffered \/ i = Len(buffered) + 1
    BY <2>1
  <2>3. Len(buffered) + 1 \in DOMAIN h /\ \A i \in DOMAIN buffered : i \in DOMAIN h
    BY <2>1
  <2> QED
    BY <2>1, <2>2, <2>3
<1>8. h = buffered'
  BY DEF u
<1> HIDE DEF h
<1>9. session \in {"storing", "recovering"} =>
        cursor < u.seq /\ Held(h, u.seq) /\ \A i \in DOMAIN h : h[i].seq <= u.seq
  <2>1. Held(h, u.seq)
    BY <1>7 DEF Held
  <2>2. ASSUME NEW i \in DOMAIN h
        PROVE  h[i].seq <= u.seq
    <3>1. CASE i \in DOMAIN buffered
      <4>1. buffered[i].seq < u.seq /\ h[i] = buffered[i] /\ TellsOf(log, buffered[i])
        BY <1>2, <1>5, <1>7, <3>1 DEF StreamOk
      <4>2. buffered[i].seq \in Nat
        BY <4>1, SyncAre DEF TellsOf
      <4> QED
        BY <1>6, <4>1, <4>2
    <3>2. CASE h[i] = u
      BY <1>6, <3>2
    <3> QED
      BY <1>7, <3>1, <3>2
  <2> QED
    BY <1>4, <2>1, <2>2
<1>10. Newest(session, cursor, h, u.seq)
  BY <1>9 DEF Newest
<1>11. Txs' = Txs
  BY DEF Txs
<1>12. ToldOk'
  <2>1. toClient[1].type = "updates" =>
          Newest(session', cursor', buffered', toClient[1].update.seq)
    BY <1>8, <1>10 DEF u
  <2> QED
    BY <1>1, <1>11, <2>1, ToldDelivered
<1>13. FreshOk'
  BY <1>1, FreshSame
<1>14. StoredOk'
  <2>1. \A k : Waits(buffered, cursor, k) => Waits(h, cursor, k)
    BY <1>7 DEF Waits
  <2>2. \A k : Pending(k) => Pending(k)'
    BY <1>11 DEF Pending
  <2> QED
    BY <1>1, <1>8, <2>1, <2>2 DEF StoredOk
<1> QED
  BY <1>1, <1>12, <1>13, <1>14 DEF CacheInv

LEMMA CacheInvReceive ==
  ASSUME PushInv, SyncInv, CacheInv, NEW message, message = Head(toClient), toClient # <<>>,
         toClient' = Tail(toClient), message.type = "updates", Receive(message.update),
         UNCHANGED <<log, late, toServer, cache>>
  PROVE  CacheInv'
<1>1. /\ message = toClient[1] /\ toClient[1].type = "updates" /\ up = TRUE
  BY SyncAre, TailAt DEF ConnOk, SocketOk
<1>2. UNCHANGED <<session, txs, followed>>
  BY DEF Receive
<1>3. CASE session # "synced"
  <2>1. buffered' = Append(buffered, toClient[1].update) /\ UNCHANGED <<synced, queue, cursor>>
    BY <1>1, <1>3 DEF Receive
  <2> QED
    BY <1>1, <1>2, <1>3, <2>1, CacheInvHolds
<1>4. CASE session = "synced"
  <2> DEFINE u == toClient[1].update
             end == ApplyBroadcast(Current, u)
  <2>1. /\ buffered' = buffered
        /\ synced' = end.rows /\ queue' = end.queue /\ cursor' = end.cursor
    BY <1>1, <1>4 DEF Receive, Becomes
  <2>2. ConnOk(log, buffered, toClient, toServer, "synced", up, cursor, synced)
    BY <1>4, SyncAre
  <2>3. TellsOf(log, u) /\ u.seq = cursor + 1
    <3>1. TellsOf(log, u)
      BY <1>1, <2>2, SyncAre, NextUpdate
    <3>2. u.seq = cursor + 1
      BY <1>1, <2>2, SyncAre, NextUpdate
    <3> QED
      BY <3>1, <3>2
  <2>4. /\ Current \in Collections /\ Current.rows = synced /\ Current.cursor = cursor
        /\ Current.queue = queue /\ RowsAre(log, cursor, synced)
    BY <1>4, CurrentIs DEF WithRows
  <2>5. toClient[1].update = u
    OBVIOUS
  <2> HIDE DEF u
  <2>6. end.cursor = u.seq
    BY <2>3, <2>4, SyncAre, BroadcastNext
  <2>7. \A c : \A k \in Keys :
          ~Pending(k) /\ Ends(Current.queue, c, k, Current.rows[k])
            => Ends(end.queue, c, k, end.rows[k])
    BY <2>3, <2>4, SyncAre, BroadcastNext
  <2> HIDE DEF end
  <2>8. FreshOk /\ ToldOk /\ StoredOk /\ cache \in Rowset /\ Txs' = Txs
    BY <1>2 DEF CacheInv, Txs
  <2>9. Newest(session', cursor', buffered', toClient[1].update.seq)
    BY <1>2, <1>4, <2>1, <2>5, <2>6 DEF Newest
  <2>10. ToldOk'
    BY <1>2, <2>8, <2>9, ToldDelivered
  <2>11. FreshOk'
    BY <1>2, <2>8, FreshSame
  <2>12. StoredOk'
    <3>1. ASSUME NEW k \in Keys, followed
          PROVE  Pending(k)' \/ Ends(queue', cache, k, synced'[k])
      <4>1. buffered = <<>> /\ session \in WithRows
        BY <1>4, SyncAre DEF ConnOk, RowsOk, WithRows
      <4>2. ~Waits(buffered, cursor, k)
        BY <4>1, EmptyAt DEF Waits
      <4>3. Pending(k) \/ Ends(queue, cache, k, synced[k])
        BY <2>8, <3>1, <4>1, <4>2 DEF StoredOk
      <4>4. Pending(k)' <=> Pending(k)
        BY <1>2, <2>8 DEF Pending
      <4> QED
        BY <2>1, <2>4, <2>7, <4>3, <4>4
    <3> QED
      BY <1>2, <3>1 DEF StoredOk
  <2> QED
    BY <2>8, <2>10, <2>11, <2>12 DEF CacheInv
<1> QED
  BY <1>3, <1>4

-----------------------------------------------------------------------------
\* An answer: the operation for an accepted mutation comes after the one for
\* its broadcast, and leaves the same row.
LEMMA QueuedRow ==
  ASSUME PushInv, SyncInv, NEW i \in Txs, NEW c, NEW k
  PROVE  LET tx == txs[i]
             q == queue \o PersistTransaction(tx)
         IN  /\ k = tx.key => Ends(q, c, k, Value(tx))
             /\ \A v : k # tx.key /\ Ends(queue, c, k, v) => Ends(q, c, k, v)
<1> DEFINE tx == txs[i]
           K == {tx.key}
           rows == [j \in K |-> tx.id]
<1>1. tx.key \in Keys /\ tx.id \in Nat /\ queue \in Seq(Ops)
  BY TxsAre, SyncAre DEF Mutations
<1>2. CASE tx.type = "delete"
  <2>1. PersistTransaction(tx) = DeleteOp(K) /\ Value(tx) = 0
    BY <1>2 DEF PersistTransaction, Value
  <2>2. K \in SUBSET Keys /\ (k \in K <=> k = tx.key)
    BY <1>1
  <2> HIDE DEF K
  <2>3. /\ k \in K => Ends(queue \o DeleteOp(K), c, k, 0)
        /\ \A v : k \notin K /\ Ends(queue, c, k, v) => Ends(queue \o DeleteOp(K), c, k, v)
    BY <1>1, <2>2, EndsDelete
  <2> HIDE DEF tx
  <2> QED
    BY <2>1, <2>2, <2>3 DEF tx
<1>3. CASE tx.type # "delete"
  <2>1. PersistTransaction(tx) = PutOp(rows) /\ Value(tx) = tx.id
    BY <1>3 DEF PersistTransaction, Value
  <2>2. K \in SUBSET Keys /\ (k \in K <=> k = tx.key) /\ rows \in [K -> Nat]
        /\ \A j \in K : rows[j] = tx.id
    BY <1>1
  <2> HIDE DEF K, rows
  <2>3. /\ k \in K => Ends(queue \o PutOp(rows), c, k, rows[k])
        /\ \A v : k \notin K /\ Ends(queue, c, k, v) => Ends(queue \o PutOp(rows), c, k, v)
    BY <1>1, <2>2, EndsPut
  <2> HIDE DEF tx
  <2> QED
    BY <2>1, <2>2, <2>3 DEF tx
<1> QED
  BY <1>2, <1>3

\* The row that the last change wrote.
LEMMA LastRow ==
  ASSUME NEW L \in Seq(Changes), NEW n \in DOMAIN L, NEW rows, RowsAre(L, n, rows)
  PROVE  rows[L[n].key] = Value(L[n])
<1>1. DOMAIN L = 1 .. Len(L) /\ Len(L) \in Nat /\ n \in 1 .. n /\ L[n].key \in Keys
  BY LogAt
<1>2. IsRow(L, n, L[n].key, rows[L[n].key])
  BY <1>1 DEF RowsAre
<1>3. \A m \in 1 .. n : m = n \/ n \in m + 1 .. n
  BY <1>1
<1> QED
  BY <1>1, <1>2, <1>3 DEF IsRow

\* The first message accepts a mutation at its first attempt.
LEMMA AcceptedRow ==
  ASSUME PushInv, SyncInv, CacheInv, toClient # <<>>, NEW i \in Txs, Fresh(txs[i]),
         Accepts(toClient, 1, i), session \in WithRows
  PROVE  \/ synced[txs[i].key] = Value(txs[i])
         \/ Waits(buffered, cursor, txs[i].key)
<1>1. ToldAt(log, toClient, session, cursor, buffered, i)
  BY DEF CacheInv, ToldOk
<1>2. 1 \in DOMAIN toClient
  BY SyncAre, TailAt
<1>3. PICK n \in DOMAIN log : log[n].tx = i /\ Newest(session, cursor, buffered, n)
  BY <1>1, <1>2 DEF ToldAt
<1>4. log[n].key = txs[i].key /\ Value(log[n]) = Value(txs[i])
  <2>1. i # 0 /\ txs[i].id = i
    BY TxsAre, SyncAre
  <2>2. log[n].key = txs[i].key /\ log[n].type = txs[i].type
    BY <1>3, <2>1, SyncAre DEF EntriesOk
  <2>3. log[n].id = i
    BY <1>3, <2>1 DEF PushInv, LogOk
  <2> QED
    BY <2>1, <2>2, <2>3 DEF Value
<1>5. /\ session \in {"synced", "storing", "recovering"}
      /\ RowsAre(log, cursor, synced) /\ StreamOk(log, buffered, toClient)
  BY SyncAre DEF ConnOk, SocketOk, RowsOk, WithRows
<1>6. CASE session = "synced"
  <2>1. cursor = n
    BY <1>3, <1>6 DEF Newest
  <2> QED
    BY <1>4, <1>5, <2>1, SyncAre, LastRow
<1>7. CASE session # "synced"
  <2>1. cursor < n /\ Held(buffered, n)
    BY <1>3, <1>5, <1>7 DEF Newest
  <2>2. PICK j \in DOMAIN buffered : buffered[j].seq = n
    BY <2>1 DEF Held
  <2>3. buffered[j].key = txs[i].key
    BY <1>4, <1>5, <2>2 DEF StreamOk, TellsOf
  <2> QED
    BY <2>1, <2>2, <2>3 DEF Waits
<1> QED
  BY <1>6, <1>7

LEMMA CacheInvAnswered ==
  ASSUME PushInv, SyncInv, CacheInv, NEW message, message = Head(toClient), toClient # <<>>,
         toClient' = Tail(toClient), message.type = "answer", Answered(message),
         UNCHANGED <<log, late, toServer, cache>>
  PROVE  CacheInv'
<1> DEFINE i == message.tx
<1>1. message = toClient[1] /\ toClient[1].type # "updates"
  BY SyncAre, TailAt
<1>2. UNCHANGED <<session, cursor, buffered, synced>>
  BY DEF Answered, sync
<1>3. i \in Txs
  BY HeadSet DEF PushInv, MessagesOk
<1>4. FreshOk /\ ToldOk /\ StoredOk /\ cache \in Rowset
  BY DEF CacheInv
<1>5. CASE txs[i].state # "sent" \/ txs[i].attempt # message.attempt
  <2>1. UNCHANGED <<txs, queue, followed>>
    BY <1>5 DEF Answered
  <2>2. Txs' = Txs
    BY <2>1 DEF Txs
  <2>3. ToldOk'
    BY <1>1, <1>4, <2>1, <2>2, ToldDelivered
  <2>4. FreshOk' /\ StoredOk'
    BY <1>2, <1>4, <2>1, FreshSame, StoredSame
  <2> QED
    BY <1>4, <2>3, <2>4 DEF CacheInv
<1>6. CASE txs[i].state = "sent" /\ txs[i].attempt = message.attempt
  <2> DEFINE tx == [txs[i] EXCEPT !.state = IF message.ok THEN "done" ELSE "failed"]
  <2>1. /\ txs' = [txs EXCEPT ![i] = tx]
        /\ queue' = IF message.ok THEN queue \o PersistTransaction(txs[i]) ELSE queue
        /\ followed' = (followed /\ message.ok /\ message.attempt = 1)
    BY <1>6 DEF Answered
  <2>2. txs[i] \in Mutations /\ txs[i].attempt # 0
    BY <1>3, TxsAre, SyncAre
  <2>3. Goes(txs[i], tx) /\ tx.state \in {"done", "failed"}
    <3> DEFINE state == IF message.ok THEN "done" ELSE "failed"
    <3>1. state \in {"done", "failed"} /\ tx = [txs[i] EXCEPT !.state = state]
      OBVIOUS
    <3> HIDE DEF tx, state
    <3>2. Goes(txs[i], [txs[i] EXCEPT !.state = state])
      BY <1>6, <2>2, StateGoes DEF Open
    <3>3. [txs[i] EXCEPT !.state = state].state = state
      BY <1>6, <2>2, StateGoes DEF Open
    <3> QED
      BY <3>1, <3>2, <3>3
  <2> HIDE DEF tx
  <2>4. /\ txs'[i] = tx /\ \A j \in Txs : j # i => txs'[j] = txs[j]
        /\ DOMAIN txs' = DOMAIN txs
    BY <1>3, <2>1, <2>3, SyncAre, OneStays
  <2>5. Txs' = Txs
    <3>1. Len(txs') = Len(txs)
      BY <1>3, <2>1, <2>3, SyncAre, TxsAre
    <3> QED
      BY <3>1 DEF Txs
  <2>6. ~Fresh(txs'[i]) /\ \A j \in Txs : Fresh(txs'[j]) => j # i /\ Fresh(txs[j])
    <3>1. ~Fresh(txs'[i])
      BY <2>3, <2>4 DEF Fresh, Open
    <3> QED
      BY <2>4, <3>1
  <2>7. ToldOk'
    BY <1>1, <1>4, <2>5, <2>6, ToldDelivered
  <2>8. FreshOk'
    <3>1. \A j \in Txs : Fresh(txs'[j]) => FreshAt(txs'[j], j, log, late, toServer)
      BY <1>4, <2>4, <2>6 DEF FreshOk
    <3> QED
      BY <2>5, <3>1 DEF FreshOk
  <2>9. StoredOk'
    <3> SUFFICES ASSUME followed', session \in WithRows, NEW k \in Keys, ~Pending(k)'
                 PROVE  Waits(buffered, cursor, k) \/ Ends(queue', cache, k, synced[k])
      BY <1>2 DEF StoredOk
    <3>1. followed /\ message.ok /\ message.attempt = 1
      BY <2>1
    <3>2. Pending(k) => k = txs[i].key
      BY <2>4, <2>5 DEF Pending
    <3>3. queue' = queue \o PersistTransaction(txs[i])
      BY <2>1, <3>1
    <3>4. CASE k = txs[i].key
      <4>1. Fresh(txs[i]) /\ Accepts(toClient, 1, i)
        BY <1>1, <1>6, <3>1 DEF Fresh, Open, Accepts
      <4>2. synced[k] = Value(txs[i]) \/ Waits(buffered, cursor, k)
        BY <1>3, <3>4, <4>1, AcceptedRow
      <4> QED
        BY <1>3, <3>3, <3>4, <4>2, QueuedRow
    <3>5. CASE k # txs[i].key
      <4>1. Waits(buffered, cursor, k) \/ Ends(queue, cache, k, synced[k])
        BY <1>4, <3>1, <3>2, <3>5 DEF StoredOk
      <4> QED
        BY <1>3, <3>3, <3>5, <4>1, QueuedRow
    <3> QED
      BY <3>4, <3>5
  <2> QED
    BY <1>4, <2>7, <2>8, <2>9 DEF CacheInv
<1> QED
  BY <1>5, <1>6

-----------------------------------------------------------------------------
\* The rows of the shard: the operation that replaces the cache is the last.
LEMMA CacheInvLoadEager ==
  ASSUME PushInv, SyncInv, CacheInv, NEW message, message = Head(toClient), toClient # <<>>,
         toClient' = Tail(toClient), message.type = "rows", LoadEager(message),
         UNCHANGED <<log, late, toServer, cache>>
  PROVE  CacheInv'
<1>1. message = toClient[1] /\ toClient[1].type = "rows" /\ up = TRUE
  BY SyncAre, TailAt DEF ConnOk, SocketOk
<1>2. /\ synced' = message.rows /\ queue' = queue \o ReplaceOp(message.rows)
      /\ UNCHANGED <<buffered, txs>>
  BY DEF LoadEager, LoadedRows, StoreOp
<1>3. RowsAre(log, message.watermark, message.rows)
  <2>1. toClient[1].type \in Answers
    BY <1>1 DEF Answers
  <2>2. RowsAre(log, toClient[1].watermark, toClient[1].rows)
    BY <1>1, <2>1, SyncAre, AnswerTells
  <2> QED
    BY <1>1, <2>2
<1>4. FreshOk /\ ToldOk /\ cache \in Rowset /\ Txs' = Txs
  BY <1>2 DEF CacheInv, Txs
<1>5. ToldOk'
  BY <1>1, <1>2, <1>4, ToldDelivered
<1>6. FreshOk'
  BY <1>2, <1>4, FreshSame
<1>7. \A k \in Keys : Ends(queue', cache, k, synced'[k])
  BY <1>2, <1>3, SyncAre, EndsReplace DEF RowsAre
<1>8. StoredOk'
  BY <1>7 DEF StoredOk
<1> QED
  BY <1>4, <1>5, <1>6, <1>8 DEF CacheInv

\* flush: what was held is written, to the rows and to the queue.
LEMMA StoredFlushes ==
  ASSUME PushInv, SyncInv, NEW w, StreamOk(log, buffered, w),
         NEW st \in Collections, st.cursor <= Len(log), RowsAre(log, st.cursor, st.rows),
         \A m \in st.cursor + 1 .. Len(log) : OnWire(w, m) \/ Held(buffered, m),
         Synchronize(st), UNCHANGED <<txs, cache>>,
         \A k \in Keys : followed' /\ ~Pending(k) =>
           Waits(buffered, st.cursor, k) \/ Ends(st.queue, cache, k, st.rows[k])
  PROVE  StoredOk'
<1> DEFINE end == Flushed(st, buffered)
<1>1. /\ synced' = end.rows /\ queue' = end.queue /\ cursor' = end.cursor
  BY DEF Synchronize, Becomes, Flushed
<1>2. \A c : \A k \in Keys :
        /\ ~Pending(k)
        /\ \/ Ends(st.queue, c, k, st.rows[k])
           \/ \E i \in DOMAIN buffered : buffered[i].key = k /\ st.cursor < buffered[i].seq
        => Ends(end.queue, c, k, end.rows[k])
  BY SyncAre, FlushIs
<1> HIDE DEF end
<1>3. \A k : Pending(k)' <=> Pending(k)
  BY DEF Pending, Txs
<1>4. \A k \in Keys : followed' => Pending(k)' \/ Ends(queue', cache, k, synced'[k])
  BY <1>1, <1>2, <1>3 DEF Waits
<1> QED
  BY <1>4 DEF StoredOk

LEMMA CacheInvStored ==
  ASSUME PushInv, SyncInv, CacheInv, Stored
  PROVE  CacheInv'
<1> DEFINE end == Flushed(Current, buffered)
<1>1. /\ session = "storing" /\ Synchronize(Current)
      /\ UNCHANGED <<log, late, up, toServer, toClient, txs, cache, followed>>
  BY DEF Stored, shard
<1>2. session \in WithRows
  BY <1>1 DEF WithRows
<1>3. /\ Current \in Collections /\ Current.rows = synced /\ Current.cursor = cursor
      /\ Current.queue = queue
      /\ cursor \in 0 .. Len(log) /\ RowsAre(log, cursor, synced)
  BY <1>2, CurrentIs
<1>4. /\ StreamOk(log, buffered, toClient)
      /\ \A m \in cursor + 1 .. Len(log) : OnWire(toClient, m) \/ Held(buffered, m)
  BY <1>1, SyncAre DEF ConnOk, RowsOk
<1>5. cursor <= Len(log) /\ cursor \in Nat
  BY <1>3, SyncAre
<1>6. FreshOk /\ ToldOk /\ StoredOk /\ cache \in Rowset /\ Txs' = Txs
  BY <1>1 DEF CacheInv, Txs
<1>7. FreshOk'
  BY <1>1, <1>6, FreshSame
<1>8. StoredOk'
  <2>1. \A k \in Keys : followed' /\ ~Pending(k) =>
          Waits(buffered, cursor, k) \/ Ends(queue, cache, k, synced[k])
    BY <1>1, <1>2, <1>6 DEF StoredOk
  <2> QED
    BY <1>1, <1>3, <1>4, <1>5, <2>1, StoredFlushes
<1>9. /\ end.cursor \in Nat /\ cursor <= end.cursor
      /\ \A i \in DOMAIN buffered : buffered[i].seq <= end.cursor
      /\ end.cursor = cursor \/ Held(buffered, end.cursor)
  <2>1. end \in Collections /\ cursor <= end.cursor
    BY <1>3, <1>4, <1>5, SyncAre, FlushIs
  <2>2. \A i \in DOMAIN buffered : buffered[i].seq <= end.cursor
    BY <1>3, <1>4, <1>5, SyncAre, FlushIs
  <2>3. end.cursor = cursor \/ Held(buffered, end.cursor)
    BY <1>3, <1>4, <1>5, SyncAre, FlushIs
  <2> HIDE DEF end
  <2> QED
    BY <2>1, <2>2, <2>3, CollectionIs
<1>10. cursor' = end.cursor /\ session' = "synced"
  BY <1>1 DEF Synchronize, Becomes, Flushed
<1> HIDE DEF end
<1>11. ASSUME NEW n \in DOMAIN log, Newest(session, cursor, buffered, n)
       PROVE  Newest(session', cursor', buffered', n)
  <2>1. cursor < n /\ Held(buffered, n) /\ \A i \in DOMAIN buffered : buffered[i].seq <= n
    BY <1>1, <1>11 DEF Newest
  <2>2. n \in Nat
    BY SyncAre, LogAt
  <2>3. n <= end.cursor
    BY <1>9, <2>1 DEF Held
  <2>4. Held(buffered, end.cursor)
    BY <1>5, <1>9, <2>1, <2>2, <2>3
  <2>5. end.cursor <= n
    BY <2>1, <2>4 DEF Held
  <2>6. end.cursor = n
    BY <1>9, <2>2, <2>3, <2>5
  <2> QED
    BY <1>10, <2>6 DEF Newest
<1>12. ToldOk'
  <2>1. ASSUME NEW i \in Txs, Fresh(txs[i])
        PROVE  ToldAt(log, toClient, session', cursor', buffered', i)
    <3>1. ToldAt(log, toClient, session, cursor, buffered, i)
      BY <1>6, <2>1 DEF ToldOk
    <3> QED
      BY <1>11, <3>1 DEF ToldAt
  <2> QED
    BY <1>1, <1>6, <2>1 DEF ToldOk
<1> QED
  BY <1>1, <1>6, <1>7, <1>8, <1>12 DEF CacheInv

LEMMA CacheInvRecover ==
  ASSUME PushInv, SyncInv, CacheInv, NEW message, message = Head(toClient), toClient # <<>>,
         toClient' = Tail(toClient), message.type = "changes", Recover(message),
         UNCHANGED <<log, late, toServer, cache>>
  PROVE  CacheInv'
<1> DEFINE page == message.updates
           n == message.watermark
           st == [Apply(Current, page) EXCEPT !.cursor = n]
           w == Tail(toClient)
           s == Written(synced, page)
<1>1. message = toClient[1] /\ toClient[1].type = "changes" /\ up = TRUE
  BY SyncAre, TailAt DEF ConnOk, SocketOk
<1>2. /\ Synchronize(st) /\ txs' = txs /\ followed' = (followed /\ ~Reinserts(page))
  BY DEF Recover
<1>3. /\ n \in 0 .. Len(log) /\ \A m \in n + 1 .. Len(log) : OnWire(w, m)
      /\ StreamOk(log, buffered, w)
      /\ session = "recovering" /\ cursor <= n /\ PageOk(log, page, cursor, n)
  <2>1. toClient[1].type \in Answers
    BY <1>1 DEF Answers
  <2> QED
    BY <1>1, <2>1, SyncAre, AnswerTells
<1>4. FreshOk /\ ToldOk /\ StoredOk /\ cache \in Rowset /\ Txs' = Txs
  BY <1>2 DEF CacheInv, Txs
<1> HIDE DEF n, page
<1>5. n \in Nat /\ n <= Len(log)
  BY <1>3, SyncAre
<1>6. /\ st \in Collections /\ st.cursor = n /\ RowsAre(log, n, st.rows) /\ st.rows = s
      /\ st.queue = queue \o PersistChanges(s, page)
  BY <1>3, <1>5, RecoveredIs
<1>7. session \in WithRows /\ cursor \in Nat /\ RowsAre(log, cursor, synced)
  <2>1. session \in WithRows
    BY <1>3 DEF WithRows
  <2> QED
    BY <2>1, SyncAre, CurrentIs
<1>8. \A c : \A k \in Keys :
        /\ ~Pending(k) /\ ~Reinserts(page)
        /\ (\E j \in DOMAIN page : page[j].key = k) \/ Ends(queue, c, k, synced[k])
        => Ends(st.queue, c, k, st.rows[k])
  <2>1. \A c : \A k \in Keys :
          /\ ~Pending(k) /\ ~Reinserts(page)
          /\ (\E j \in DOMAIN page : page[j].key = k) \/ Ends(queue, c, k, synced[k])
          => Ends(queue \o PersistChanges(s, page), c, k, s[k])
    BY <1>3, <1>5, <1>7, SyncAre, PageApplied
  <2> HIDE DEF st, s
  <2> QED
    BY <1>6, <2>1
<1> HIDE DEF st, w, s
\* A held update that the page has caught up with is on it.
<1>9. ASSUME NEW k, Waits(buffered, cursor, k)
      PROVE  Waits(buffered, n, k) \/ \E j \in DOMAIN page : page[j].key = k
  <2>1. PICK i \in DOMAIN buffered : buffered[i].key = k /\ cursor < buffered[i].seq
    BY <1>9 DEF Waits
  <2>2. TellsOf(log, buffered[i])
    BY <1>3 DEF StreamOk
  <2> DEFINE q == buffered[i].seq
             j == q - cursor
  <2>3. q \in Nat /\ log[q].key = k /\ cursor < q
    BY <2>1, <2>2, SyncAre DEF TellsOf
  <2>4. CASE n < q
    BY <2>1, <2>4 DEF Waits
  <2>5. CASE q <= n
    <3> HIDE DEF q
    <3>1. j \in 1 .. n - cursor /\ cursor + j = q
      BY <1>5, <1>7, <2>3, <2>5
    <3> HIDE DEF j
    <3>2. j \in DOMAIN page /\ TellsOf(log, page[j]) /\ page[j].seq = q
      BY <1>3, <3>1 DEF PageOk
    <3>3. page[j].key = k
      BY <2>3, <3>2 DEF TellsOf
    <3> QED
      BY <3>2, <3>3
  <2> QED
    BY <1>5, <2>3, <2>4, <2>5
<1>10. StoredOk'
  <2>1. \A k \in Keys : followed' /\ ~Pending(k) =>
          Waits(buffered, st.cursor, k) \/ Ends(st.queue, cache, k, st.rows[k])
    <3> SUFFICES ASSUME NEW k \in Keys, followed', ~Pending(k)
                 PROVE  Waits(buffered, n, k) \/ Ends(st.queue, cache, k, st.rows[k])
      BY <1>6
    <3>1. followed /\ ~Reinserts(page)
      BY <1>2
    <3>2. Waits(buffered, cursor, k) \/ Ends(queue, cache, k, synced[k])
      BY <1>4, <1>7, <3>1 DEF StoredOk
    <3>3. CASE Waits(buffered, cursor, k)
      BY <1>8, <1>9, <3>1, <3>3
    <3>4. CASE Ends(queue, cache, k, synced[k])
      BY <1>8, <3>1, <3>4
    <3> QED
      BY <3>2, <3>3, <3>4
  <2>2. /\ StreamOk(log, buffered, w) /\ st \in Collections /\ st.cursor <= Len(log)
        /\ RowsAre(log, st.cursor, st.rows)
        /\ \A m \in st.cursor + 1 .. Len(log) : OnWire(w, m) \/ Held(buffered, m)
    BY <1>3, <1>5, <1>6
  <2> QED
    BY <1>2, <2>1, <2>2, StoredFlushes
<1>11. ToldOk'
  BY <1>1, <1>2, <1>4, ToldDelivered
<1>12. FreshOk'
  BY <1>2, <1>4, FreshSame
<1> QED
  BY <1>4, <1>10, <1>11, <1>12 DEF CacheInv

LEMMA CacheInvDeliver ==
  ASSUME PushInv, SyncInv, CacheInv, Deliver
  PROVE  CacheInv'
<1>1. /\ toClient # <<>> /\ toClient' = Tail(toClient)
      /\ UNCHANGED <<log, late, toServer, cache>>
  BY DEF Deliver, shard
<1>2. PICK message : message = Head(toClient)
  OBVIOUS
<1>3. \/ message.type = "updates" /\ Receive(message.update)
      \/ message.type = "answer" /\ Answered(message)
      \/ message.type = "rows" /\ LoadEager(message)
      \/ message.type = "changes" /\ Recover(message)
  BY <1>2 DEF Deliver
<1> QED
  BY <1>1, <1>2, <1>3, CacheInvReceive, CacheInvAnswered, CacheInvLoadEager, CacheInvRecover

-----------------------------------------------------------------------------
\* What holds of the cache between any two events: unless a local mutation of
\* the row is pending or a change of it is held, what is in IndexedDB, after the
\* operations that are queued, is the row that the collection shows.
THEOREM CacheInvariance == Spec => [](PushInv /\ SyncInv /\ CacheInv)
<1>1. Init => CacheInv
  BY CacheInvInit
<1>2. PushInv /\ SyncInv /\ PushInv' /\ CacheInv /\ [Next]_vars => CacheInv'
  <2> SUFFICES ASSUME PushInv, SyncInv, PushInv', CacheInv, [Next]_vars
               PROVE  CacheInv'
    OBVIOUS
  <2>1. CASE Start \/ Hydrate \/ Connect \/ Load
    BY <2>1, CacheInvAside
  <2>2. CASE Perform
    BY <2>2, CacheInvPerform
  <2>3. CASE Stored
    BY <2>3, CacheInvStored
  <2>4. CASE Deliver
    BY <2>4, CacheInvDeliver
  <2>5. CASE \E i \in Txs : SendPush(i) \/ Timeout(i) \/ OpenFails(i)
    BY <2>5, CacheInvOneMutation
  <2>6. CASE \E k \in Keys, type \in Types : Mutate(k, type) \/ Remote(k, type)
    BY <2>6, CacheInvMutate, CacheInvRemote
  <2>7. CASE \E push \in late : HandleLate(push)
    BY <2>7, CacheInvHandleLate
  <2>8. CASE Refuse
    BY <2>8, CacheInvRefuse
  <2>9. CASE Drop
    BY <2>9, CacheInvDrop
  <2>10. CASE Crash
    BY <2>10, CacheInvCrash
  <2>11. CASE Handle
    BY <2>11, CacheInvHandle
  <2>12. CASE UNCHANGED vars
    <3>1. UNCHANGED <<log, late, toServer, toClient, txs, queue, buffered, session, cursor,
                      synced, cache, followed>>
      BY <2>12 DEF vars
    <3>2. FreshOk /\ ToldOk /\ StoredOk /\ cache \in Rowset
      BY DEF CacheInv
    <3>3. FreshOk' /\ ToldOk' /\ StoredOk'
      BY <3>1, <3>2, FreshSame, ToldSame, StoredSame
    <3> QED
      BY <3>1, <3>2, <3>3 DEF CacheInv
  <2> QED
    BY <2>1, <2>2, <2>3, <2>4, <2>5, <2>6, <2>7, <2>8, <2>9, <2>10, <2>11, <2>12
    DEF Next, Client, Environment
<1> QED
  BY <1>1, <1>2, SyncInvariance, PTL DEF Spec

\* When everything has been stored, the cache holds the rows of the shard:
\* operations of broadcasts, of accepted mutations and of loads end in the same
\* rows as the collection, unless a push failed or was retried or a page deleted
\* and inserted a row since the last load (persistChanges, persistTransaction).
THEOREM CacheIsShardHolds == Spec => []CacheIsShard
<1>1. PushInv /\ SyncInv /\ CacheInv /\ ViewIsShard => CacheIsShard
  <2> SUFFICES ASSUME PushInv, SyncInv, CacheInv, ViewIsShard, AtRest, followed
               PROVE  cache = Rows
    BY DEF CacheIsShard
  <2>1. /\ session \in WithRows /\ buffered = <<>> /\ queue = <<>> /\ synced = Rows
        /\ RowsAre(log, cursor, synced)
    BY SyncAre DEF AtRest, ConnOk, RowsOk, WithRows, ViewIsShard
  <2>2. ASSUME NEW k \in Keys
        PROVE  cache[k] = synced[k]
    <3>1. ~Pending(k)
      BY DEF AtRest, Pending
    <3>2. ~Waits(buffered, cursor, k)
      BY <2>1, EmptyAt DEF Waits
    <3>3. Ends(queue, cache, k, synced[k])
      BY <2>1, <3>1, <3>2 DEF CacheInv, StoredOk
    <3> QED
      BY <2>1, <3>3, EmptyAt DEF Ends
  <2>3. cache \in [Keys -> Nat] /\ synced \in [Keys -> Nat]
    BY <2>1 DEF CacheInv, Rowset, RowsAre
  <2>4. cache = synced
    BY <2>2, <2>3
  <2> QED
    BY <2>1, <2>4
<1> QED
  BY <1>1, CacheInvariance, ViewIsShardHolds, PTL
=============================================================================
