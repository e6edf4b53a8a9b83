------------------------ MODULE SubscriptionsProofs -------------------------
(***************************************************************************)
(* Proofs about Subscriptions, for any number of listeners, scopes,        *)
(* subscriptions, updates and faults and any limit, while requests are     *)
(* handled in the order in which they were sent: at rest the shard has the *)
(* subscriptions of the listeners, no update is missed, and the limit      *)
(* refuses nobody who keeps within it.  In whichever order requests are    *)
(* handled, nobody who listens is stranded but by a connect loop that gave *)
(* up.                                                                     *)
(***************************************************************************)
EXTENDS Subscriptions, ChangeLogProofs, SequenceTheorems

Ids == Nat \ {0}
Requests == [id : Ids, type : {"subscribe", "unsubscribe"}, scope : Scopes]
Answers == [type : {"result", "error"}, id : Ids]
Broadcasts == [type : {"updates"}, update : Nat, scope : Scopes]
Awaited == [id : Ids, by : {"start", "unsubscribe", "replay"}, scope : Scopes]
Promises == [is : {"none", "pending", "ready", "rejected"}, of : Nat]

SubscriptionsTypeOK ==
  /\ at \in [Listeners -> Scopes \cup {None}]
  /\ ready \in [Scopes -> Promises]
  /\ conn \in {"idle", "opening", "replaying", "up"}
  /\ timer \in BOOLEAN /\ closed \in BOOLEAN
  /\ hasOpened \in BOOLEAN /\ limited \in BOOLEAN
  /\ pending \in SUBSET Awaited
  /\ toServer \in Seq(Requests)
  /\ toClient \in Seq(Answers \cup Broadcasts)
  /\ subs \in SUBSET Scopes /\ IsFiniteSet(subs)
  /\ owed \in [Listeners -> SUBSET Nat]
  /\ spent \in [{"subscribes", "publishes", "faults", "refusals"} -> Nat]

-----------------------------------------------------------------------------
(***************************************************************************)
(* The socket.                                                             *)
(***************************************************************************)
\* The j-th message to the client answers a request.
IsAnswer(j) == j \in DOMAIN toClient /\ toClient[j].type # "updates"

\* Answers come back in the order of the requests, before those that wait.
InOrder ==
  /\ \A i, j \in DOMAIN toServer : i < j => toServer[i].id < toServer[j].id
  /\ \A i, j \in DOMAIN toClient :
       IsAnswer(i) /\ IsAnswer(j) /\ i < j => toClient[i].id < toClient[j].id
  /\ \A i \in DOMAIN toClient, j \in DOMAIN toServer :
       IsAnswer(i) => toClient[i].id < toServer[j].id

\* The request, or its answer, is on the socket.
OnItsWay(p) ==
  \/ \E i \in DOMAIN toServer : toServer[i].id = p.id
  \/ \E j \in DOMAIN toClient : IsAnswer(j) /\ toClient[j].id = p.id

\* Only finitely many numbers are in use.
Bounded(n) ==
  /\ \A p \in pending : p.id <= n
  /\ \A i \in DOMAIN toServer : toServer[i].id <= n
  /\ \A j \in DOMAIN toClient : IsAnswer(j) => toClient[j].id <= n

\* A request that waits has a number of its own and will be answered; those of
\* a replay were sent first.
PendingOk ==
  /\ \E n \in Nat : Bounded(n)
  /\ \A p, q \in pending : p.id = q.id => p = q
  /\ \A p \in pending : OnItsWay(p)
  /\ \A p, q \in pending : p.by = "replay" /\ q.by # "replay" => p.id < q.id

\* A connection is up when its replay is done, and not before.
ReplayOk ==
  /\ conn = "up" => hasOpened /\ \A p \in pending : p.by # "replay"
  /\ conn = "replaying" => \E p \in pending : p.by = "replay"
  /\ ~HasSocket => pending = {} /\ toServer = <<>>

SocketInv == InOrder /\ PendingOk /\ ReplayOk

-----------------------------------------------------------------------------
(***************************************************************************)
(* The entries.                                                            *)
(***************************************************************************)
\* A promise of start waits for a request of start; one that is ready was made
\* on a connection that was up.
PromisesOk ==
  \A c \in Scopes :
    /\ ready[c].of # 0 => /\ ready[c].is = "pending"
                          /\ \E p \in pending : /\ p.id = ready[c].of
                                                /\ p.by = "start" /\ p.scope = c
    /\ ready[c].is = "ready" => hasOpened

\* The entry of c depends on the answer to request k.
DependsOn(c, k) ==
  \E p \in pending : /\ p.id = k /\ p.scope = c
                     /\ \/ p.by = "replay"
                        \/ p.by = "start" /\ ready[c].of = k

NoneAbout(c) == \A i \in DOMAIN toServer : toServer[i].scope # c
LastAbout(c, i) ==
  /\ i \in DOMAIN toServer /\ toServer[i].scope = c
  /\ \A j \in DOMAIN toServer : j > i => toServer[j].scope # c

\* The shard is asked for c, has it, or has refused it to somebody who waits.
AskedFor(c) == \E i \in DOMAIN toServer :
                 LastAbout(c, i) /\ toServer[i].type = "subscribe" /\ DependsOn(c, toServer[i].id)
Subscribed(c) == NoneAbout(c) /\ c \in subs
Refused(c) == NoneAbout(c) /\ \E j \in DOMAIN toClient :
                                toClient[j].type = "error" /\ DependsOn(c, toClient[j].id)

Covered(c) == AskedFor(c) \/ Subscribed(c) \/ Refused(c)

EntriesCovered ==
  HasSocket => \A c \in Entries : ready[c].is = "rejected" \/ Covered(c)

-----------------------------------------------------------------------------
(***************************************************************************)
(* The subscriptions of the socket after the first n requests.             *)
(***************************************************************************)
After(n) ==
  {c \in Scopes :
     \/ c \in subs /\ \A i \in 1 .. n : toServer[i].scope # c
     \/ \E i \in 1 .. n : /\ toServer[i].scope = c /\ toServer[i].type = "subscribe"
                          /\ \A j \in i + 1 .. n : toServer[j].scope # c}

\* Unless the rate limiter refused a request, they end as the entries, and are
\* never more than the listeners.
NothingExtra ==
  HasSocket /\ spent.refusals = 0 => After(Len(toServer)) \subseteq Entries
Within ==
  HasSocket /\ spent.refusals = 0 /\ ~limited =>
    /\ Entries \subseteq After(Len(toServer))
    /\ \A n \in 0 .. Len(toServer) : Cardinality(After(n)) <= Cardinality(Listeners)

\* An update that is owed to a listener is on the socket, or a reconnection
\* will come.
OwedOk ==
  \A l \in Listeners : \A n \in owed[l] :
    /\ at[l] # None
    /\ hasOpened
    /\ conn = "up" => \E j \in DOMAIN toClient : /\ toClient[j].type = "updates"
                                                 /\ toClient[j].update = n
                                                 /\ toClient[j].scope = at[l]

SubscriptionsInv ==
  /\ SubscriptionsTypeOK /\ SocketInv /\ PromisesOk
  /\ EntriesCovered /\ NothingExtra /\ Within /\ WithinLimit /\ OwedOk

-----------------------------------------------------------------------------
LEMMA ServerQueue ==
  ASSUME SubscriptionsTypeOK
  PROVE  /\ Len(toServer) \in Nat
         /\ DOMAIN toServer = 1 .. Len(toServer)
         /\ \A i \in DOMAIN toServer :
              /\ toServer[i] \in Requests
              /\ toServer[i].id \in Nat /\ toServer[i].id > 0
              /\ toServer[i].type \in {"subscribe", "unsubscribe"}
              /\ toServer[i].scope \in Scopes
<1>1. /\ Len(toServer) \in Nat
      /\ DOMAIN toServer = 1 .. Len(toServer)
      /\ \A i \in DOMAIN toServer : toServer[i] \in Requests
  BY LenProperties, ElementOfSeq DEF SubscriptionsTypeOK
<1>2. \A r \in Requests : /\ r.id \in Nat /\ r.id > 0
                          /\ r.type \in {"subscribe", "unsubscribe"}
                          /\ r.scope \in Scopes
  BY DEF Requests, Ids
<1> QED
  BY <1>1, <1>2

LEMMA ClientQueue ==
  ASSUME SubscriptionsTypeOK
  PROVE  /\ Len(toClient) \in Nat
         /\ DOMAIN toClient = 1 .. Len(toClient)
         /\ \A j \in DOMAIN toClient : toClient[j] \in Answers \cup Broadcasts
         /\ \A j \in DOMAIN toClient :
              toClient[j].type # "updates" =>
                /\ toClient[j].id \in Nat /\ toClient[j].id > 0
                /\ toClient[j].type \in {"result", "error"}
         /\ \A j : IsAnswer(j) => toClient[j].id \in Nat
<1>1. /\ Len(toClient) \in Nat
      /\ DOMAIN toClient = 1 .. Len(toClient)
      /\ \A j \in DOMAIN toClient : toClient[j] \in Answers \cup Broadcasts
  BY LenProperties, ElementOfSeq DEF SubscriptionsTypeOK
<1>2. \A m \in Answers : m.id \in Nat /\ m.id > 0 /\ m.type \in {"result", "error"}
  BY DEF Answers, Ids
<1>3. \A m \in Broadcasts : m.type = "updates"
  BY DEF Broadcasts
<1>4. \A j \in DOMAIN toClient :
        toClient[j].type # "updates" =>
          /\ toClient[j].id \in Nat /\ toClient[j].id > 0
          /\ toClient[j].type \in {"result", "error"}
  BY <1>1, <1>2, <1>3
<1> QED
  BY <1>1, <1>4 DEF IsAnswer

LEMMA AwaitedIs ==
  ASSUME SubscriptionsTypeOK
  PROVE  \A p \in pending : /\ p \in Awaited
                            /\ p.id \in Nat /\ p.id > 0
                            /\ p.by \in {"start", "unsubscribe", "replay"}
                            /\ p.scope \in Scopes
<1>1. \A p \in Awaited : /\ p.id \in Nat /\ p.id > 0
                         /\ p.by \in {"start", "unsubscribe", "replay"}
                         /\ p.scope \in Scopes
  BY DEF Awaited, Ids
<1> QED
  BY <1>1 DEF SubscriptionsTypeOK

LEMMA FunctionIsSequence ==
  ASSUME NEW S, NEW n \in Nat, NEW f \in [1 .. n -> S]
  PROVE  f \in Seq(S) /\ Len(f) = n
<1>1. f \in Seq(S)
  BY SeqDef
<1>2. Len(f) \in Nat /\ DOMAIN f = 1 .. Len(f)
  BY <1>1, LenProperties
<1>3. 1 .. n = 1 .. Len(f)
  BY <1>2
<1> QED
  BY <1>1, <1>2, <1>3

LEMMA RemoveAtHead ==
  ASSUME NEW S, NEW s \in Seq(S), s # <<>>
  PROVE  /\ RemoveAt(s, 1) \in Seq(S)
         /\ Len(s) \in Nat \ {0}
         /\ Len(RemoveAt(s, 1)) = Len(s) - 1
         /\ \A i \in 1 .. Len(s) - 1 : RemoveAt(s, 1)[i] = s[i + 1]
<1>1. RemoveAt(s, 1) = Tail(s)
  <2>1. SubSeq(s, 1, 0) = <<>>
    BY SubSeqEmpty
  <2>2. SubSeq(s, 2, Len(s)) = Tail(s)
    BY TailIsSubSeq
  <2>3. RemoveAt(s, 1) = SubSeq(s, 1, 1 - 1) \o SubSeq(s, 1 + 1, Len(s))
    BY DEF RemoveAt
  <2>4. 1 - 1 = 0 /\ 1 + 1 = 2
    OBVIOUS
  <2>5. RemoveAt(s, 1) = <<>> \o Tail(s)
    BY <2>1, <2>2, <2>3, <2>4
  <2>6. Tail(s) \in Seq(S)
    BY HeadTailProperties
  <2> QED
    BY <2>5, <2>6, ConcatEmptySeq
<1>2. /\ Tail(s) \in Seq(S)
      /\ Len(Tail(s)) = Len(s) - 1
      /\ \A i \in 1 .. Len(s) - 1 : Tail(s)[i] = s[i + 1]
  BY HeadTailProperties
<1>3. Len(s) \in Nat \ {0}
  BY EmptySeq
<1> QED
  BY <1>1, <1>2, <1>3

\* The number of the next request is above those in use.
LEMMA NextIdIsNew ==
  ASSUME SubscriptionsTypeOK, PendingOk
  PROVE  nextId - 1 \in Nat /\ nextId = (nextId - 1) + 1 /\ Bounded(nextId - 1)
<1> DEFINE sent == {r.id : r \in pending}
           waiting == {r.id : r \in ToSet(toServer)}
           answered == {m.id : m \in {m \in ToSet(toClient) : m.type # "updates"}}
           used == {0} \cup sent \cup waiting \cup answered
<1>1. PICK n \in Nat : Bounded(n)
  BY DEF PendingOk
<1>2. \A k \in sent : k \in Nat /\ k <= n
  BY <1>1, AwaitedIs DEF Bounded
<1>3. \A k \in waiting : k \in Nat /\ k <= n
  BY <1>1, ServerQueue DEF Bounded, ToSet
<1>4. \A k \in answered : k \in Nat /\ k <= n
  <2> SUFFICES ASSUME NEW j \in DOMAIN toClient, toClient[j].type # "updates"
               PROVE  toClient[j].id \in Nat /\ toClient[j].id <= n
    BY DEF ToSet
  <2> QED
    BY <1>1, ClientQueue DEF Bounded, IsAnswer
<1>5. /\ used \in SUBSET Nat /\ used # {}
      /\ \A k \in used : k <= n
  BY <1>2, <1>3, <1>4
<1>6. nextId = 1 + Max(used)
  BY DEF nextId
<1>7. \A p \in pending : p.id \in used
  OBVIOUS
<1>8. \A i \in DOMAIN toServer : toServer[i].id \in used
  BY DEF ToSet
<1>9. \A j \in DOMAIN toClient : IsAnswer(j) => toClient[j].id \in used
  <2> SUFFICES ASSUME NEW j \in DOMAIN toClient, toClient[j].type # "updates"
               PROVE  toClient[j].id \in used
    BY DEF IsAnswer
  <2>1. toClient[j] \in {m \in ToSet(toClient) : m.type # "updates"}
    BY DEF ToSet
  <2> QED
    BY <2>1
<1> HIDE DEF used
<1>10. Max(used) \in used /\ \A k \in used : k <= Max(used)
  BY <1>1, <1>5, MaxIsGreatest
<1>11. Max(used) \in Nat
  BY <1>5, <1>10
<1>12. nextId - 1 = Max(used)
  BY <1>6, <1>11
<1>13. Bounded(Max(used))
  BY <1>7, <1>8, <1>9, <1>10 DEF Bounded
<1> QED
  BY <1>6, <1>11, <1>12, <1>13

\* The orders in which a set may be sent.
LEMMA EnumerationIs ==
  ASSUME NEW S, IsFiniteSet(S), NEW asked \in SetToSeqs(S)
  PROVE  /\ Cardinality(S) \in Nat
         /\ asked \in [1 .. Cardinality(S) -> S]
         /\ Len(asked) = Cardinality(S)
         /\ \A i, j \in 1 .. Cardinality(S) : asked[i] = asked[j] => i = j
         /\ \A c \in S : \E i \in 1 .. Cardinality(S) : asked[i] = c
<1> DEFINE n == Cardinality(S)
<1>1. n \in Nat
  BY FS_CardinalityType
<1>2. /\ asked \in [1 .. n -> S]
      /\ \A i, j \in 1 .. n : i # j => asked[i] # asked[j]
  BY DEF SetToSeqs
<1>3. Len(asked) = n
  <2> HIDE DEF n
  <2> QED
    BY <1>1, <1>2, FunctionIsSequence
<1>4. IsFiniteSet(1 .. n) /\ Cardinality(1 .. n) = n
  BY <1>1, FS_Interval
<1>5. asked \in Injection(1 .. n, S)
  BY <1>2 DEF Injection, IsInjective
<1>6. asked \in Surjection(1 .. n, S)
  BY <1>4, <1>5, FS_Injection
<1>7. \A c \in S : \E i \in 1 .. n : asked[i] = c
  BY <1>6 DEF Surjection
<1> QED
  BY <1>1, <1>2, <1>3, <1>7

-----------------------------------------------------------------------------
\* What Send does to the requests: n new ones, with the numbers after base.
Sent(type, by, scopes, asked, n, base) ==
  /\ n \in Nat /\ base \in Nat
  /\ asked \in [1 .. n -> scopes]
  /\ \A i, j \in 1 .. n : asked[i] = asked[j] => i = j
  /\ \A c \in scopes : \E i \in 1 .. n : asked[i] = c
  /\ toServer' \in Seq(Requests)
  /\ Len(toServer') = Len(toServer) + n
  /\ \A i \in 1 .. Len(toServer) : toServer'[i] = toServer[i]
  /\ \A i \in 1 .. n : /\ toServer'[Len(toServer) + i].id = base + i
                       /\ toServer'[Len(toServer) + i].type = type
                       /\ toServer'[Len(toServer) + i].scope = asked[i]
  /\ pending \subseteq pending' /\ pending' \subseteq Awaited
  /\ \A p \in pending' : p \in pending \/ \E i \in 1 .. n :
       p = [id |-> base + i, by |-> by, scope |-> asked[i]]
  /\ \A i \in 1 .. n : [id |-> base + i, by |-> by, scope |-> asked[i]] \in pending'

LEMMA SendIs ==
  ASSUME SubscriptionsTypeOK, PendingOk,
         NEW type \in {"subscribe", "unsubscribe"},
         NEW by \in {"start", "unsubscribe", "replay"},
         NEW scopes \in SUBSET Scopes, IsFiniteSet(scopes),
         Send(type, by, scopes)
  PROVE  \E asked : Sent(type, by, scopes, asked, Cardinality(scopes), nextId - 1)
<1> DEFINE n == Cardinality(scopes)
           base == nextId - 1
           request(a, i) == [id |-> base + i, type |-> type, scope |-> a[i]]
           awaited(a, i) == [id |-> base + i, by |-> by, scope |-> a[i]]
<1>1. base \in Nat /\ nextId = base + 1
  BY NextIdIsNew
<1> HIDE DEF base
<1>2. PICK asked \in SetToSeqs(scopes) :
        /\ pending' = pending \cup
             {[id |-> nextId + i - 1, by |-> by, scope |-> asked[i]] : i \in 1 .. Len(asked)}
        /\ toServer' = toServer \o
             [i \in 1 .. Len(asked) |-> [id |-> nextId + i - 1, type |-> type, scope |-> asked[i]]]
  BY DEF Send
<1>3. /\ n \in Nat
      /\ asked \in [1 .. n -> scopes]
      /\ Len(asked) = n
      /\ \A i, j \in 1 .. n : asked[i] = asked[j] => i = j
      /\ \A c \in scopes : \E i \in 1 .. n : asked[i] = c
  BY EnumerationIs
<1> HIDE DEF n
<1>4. \A i \in 1 .. n : nextId + i - 1 = base + i /\ base + i \in Ids
  BY <1>1, <1>3 DEF Ids
<1>5. pending' = pending \cup {awaited(asked, i) : i \in 1 .. n}
  BY <1>2, <1>3, <1>4
<1> DEFINE new == [i \in 1 .. n |-> request(asked, i)]
<1>6. toServer' = toServer \o new
  BY <1>2, <1>3, <1>4
<1>7. \A i \in 1 .. n : request(asked, i) \in Requests /\ awaited(asked, i) \in Awaited
  <2> SUFFICES ASSUME NEW i \in 1 .. n
               PROVE  request(asked, i) \in Requests /\ awaited(asked, i) \in Awaited
    OBVIOUS
  <2>1. asked[i] \in Scopes
    BY <1>3
  <2>2. base + i \in Ids
    BY <1>4
  <2> QED
    BY <2>1, <2>2 DEF Requests, Awaited
<1>8. new \in Seq(Requests) /\ Len(new) = n /\ \A i \in 1 .. n : new[i] = request(asked, i)
  <2>1. new \in [1 .. n -> Requests]
    BY <1>7
  <2> HIDE DEF n
  <2>2. new \in Seq(Requests) /\ Len(new) = n
    BY <1>3, <2>1, FunctionIsSequence
  <2> QED
    BY <2>2
<1> HIDE DEF new, request
<1>9. Len(toServer) \in Nat /\ toServer \in Seq(Requests)
  BY ServerQueue DEF SubscriptionsTypeOK
<1>10. /\ toServer' \in Seq(Requests)
       /\ Len(toServer') = Len(toServer) + n
       /\ \A i \in 1 .. Len(toServer) + n :
            toServer'[i] = IF i <= Len(toServer) THEN toServer[i] ELSE new[i - Len(toServer)]
  BY <1>6, <1>8, <1>9, ConcatProperties
<1>11. \A i \in 1 .. Len(toServer) : toServer'[i] = toServer[i]
  BY <1>3, <1>9, <1>10
<1>12. \A i \in 1 .. n : toServer'[Len(toServer) + i] = request(asked, i)
  <2> SUFFICES ASSUME NEW i \in 1 .. n
               PROVE  toServer'[Len(toServer) + i] = request(asked, i)
    OBVIOUS
  <2>1. /\ Len(toServer) + i \in 1 .. Len(toServer) + n
        /\ ~(Len(toServer) + i <= Len(toServer))
        /\ (Len(toServer) + i) - Len(toServer) = i
    BY <1>3, <1>9
  <2> QED
    BY <1>8, <1>10, <2>1
<1>13. \A i \in 1 .. n : /\ request(asked, i).id = base + i
                         /\ request(asked, i).type = type
                         /\ request(asked, i).scope = asked[i]
  BY DEF request
<1>14. pending \subseteq pending' /\ pending' \subseteq Awaited
  BY <1>5, <1>7 DEF SubscriptionsTypeOK
<1>15. /\ \A p \in pending' : p \in pending \/ \E i \in 1 .. n : p = awaited(asked, i)
       /\ \A i \in 1 .. n : awaited(asked, i) \in pending'
  BY <1>5
<1>16. \A i \in 1 .. n : /\ toServer'[Len(toServer) + i].id = base + i
                         /\ toServer'[Len(toServer) + i].type = type
                         /\ toServer'[Len(toServer) + i].scope = asked[i]
  BY <1>12, <1>13
<1>17. Sent(type, by, scopes, asked, n, base)
  BY <1>1, <1>3, <1>10, <1>11, <1>14, <1>15, <1>16 DEF Sent
<1> QED
  BY <1>17 DEF n, base

-----------------------------------------------------------------------------
(***************************************************************************)
(* How the steps leave the socket.                                         *)
(***************************************************************************)
LEMMA SendKeepsOrder ==
  ASSUME SubscriptionsTypeOK, InOrder, PendingOk,
         NEW type, NEW by, NEW scopes, NEW asked, NEW n, NEW base,
         Sent(type, by, scopes, asked, n, base), Bounded(base),
         toClient' = toClient \/ (pending = {} /\ toServer = <<>> /\ toClient' = <<>>),
         by = "replay" => pending = {}
  PROVE  InOrder' /\ PendingOk'
<1> DEFINE L == Len(toServer)
           new(i) == [id |-> base + i, by |-> by, scope |-> asked[i]]
<1>1. /\ n \in Nat /\ base \in Nat
      /\ DOMAIN toServer' = 1 .. L + n
      /\ \A i \in 1 .. L : toServer'[i] = toServer[i]
      /\ \A i \in 1 .. n : toServer'[L + i].id = base + i
      /\ \A p \in pending' : p \in pending \/ \E i \in 1 .. n : p = new(i)
      /\ pending \subseteq pending'
  <2>1. toServer' \in Seq(Requests) /\ Len(toServer') = L + n
    BY DEF Sent
  <2>2. DOMAIN toServer' = 1 .. L + n
    BY <2>1, LenProperties
  <2> QED
    BY <2>2 DEF Sent
<1>2. \A i \in 1 .. n : new(i).id = base + i /\ new(i).by = by
  OBVIOUS
<1> HIDE DEF new
<1>3. /\ L \in Nat /\ DOMAIN toServer = 1 .. L
      /\ \A i \in 1 .. L : toServer[i].id \in Nat /\ toServer[i].id <= base
  BY ServerQueue DEF Bounded
<1> HIDE DEF L
<1>4. ASSUME NEW i \in 1 .. L + n, ~(i <= L)
      PROVE  i - L \in 1 .. n /\ toServer'[i].id = base + (i - L)
  <2>1. i - L \in 1 .. n /\ L + (i - L) = i
    BY <1>1, <1>3, <1>4
  <2> QED
    BY <1>1, <2>1
<1>5. \A j : IsAnswer(j)' => IsAnswer(j) /\ toClient'[j] = toClient[j]
  <2>1. CASE toClient' = toClient
    BY <2>1 DEF IsAnswer
  <2>2. CASE toClient' = <<>>
    <3>1. DOMAIN toClient' = {}
      BY <2>2
    <3> QED
      BY <3>1 DEF IsAnswer
  <2> QED
    BY <2>1, <2>2
<1>6. \A j \in DOMAIN toClient : IsAnswer(j) => toClient[j].id \in Nat /\ toClient[j].id <= base
  BY ClientQueue DEF Bounded
<1>7. \A p \in pending : p.id \in Nat /\ p.id <= base
  BY AwaitedIs DEF Bounded
<1>8. InOrder'
  <2>1. ASSUME NEW i \in 1 .. L + n, NEW j \in 1 .. L + n, i < j
        PROVE  toServer'[i].id < toServer'[j].id
    <3>1. CASE j <= L
      <4>1. i \in 1 .. L /\ j \in 1 .. L
        BY <1>1, <1>3, <2>1, <3>1
      <4> QED
        BY <1>1, <1>3, <2>1, <4>1 DEF InOrder
    <3>2. CASE i <= L /\ ~(j <= L)
      <4>1. i \in 1 .. L
        BY <1>1, <1>3, <3>2
      <4>2. toServer'[i].id \in Nat /\ toServer'[i].id <= base
        BY <1>1, <1>3, <4>1
      <4>3. j - L \in 1 .. n /\ toServer'[j].id = base + (j - L)
        BY <1>4, <3>2
      <4> QED
        BY <1>1, <4>2, <4>3
    <3>3. CASE ~(i <= L)
      <4>1. ~(j <= L)
        BY <1>1, <1>3, <2>1, <3>3
      <4>2. /\ toServer'[i].id = base + (i - L)
            /\ toServer'[j].id = base + (j - L)
        BY <1>4, <3>3, <4>1
      <4> QED
        BY <1>1, <1>3, <2>1, <4>2
    <3> QED
      BY <1>1, <1>3, <3>1, <3>2, <3>3
  <2>2. \A i, j \in DOMAIN toClient' :
          IsAnswer(i)' /\ IsAnswer(j)' /\ i < j => toClient'[i].id < toClient'[j].id
    <3> SUFFICES ASSUME NEW i \in DOMAIN toClient', NEW j \in DOMAIN toClient',
                        IsAnswer(i)', IsAnswer(j)', i < j
                 PROVE  toClient'[i].id < toClient'[j].id
      OBVIOUS
    <3>1. /\ IsAnswer(i) /\ IsAnswer(j)
          /\ toClient'[i] = toClient[i] /\ toClient'[j] = toClient[j]
      BY <1>5
    <3>2. i \in DOMAIN toClient /\ j \in DOMAIN toClient
      BY <3>1 DEF IsAnswer
    <3> QED
      BY <3>1, <3>2 DEF InOrder
  <2>3. ASSUME NEW i \in DOMAIN toClient', NEW j \in 1 .. L + n, IsAnswer(i)'
        PROVE  toClient'[i].id < toServer'[j].id
    <3>1. IsAnswer(i) /\ toClient'[i] = toClient[i]
      BY <1>5, <2>3
    <3>2. i \in DOMAIN toClient
      BY <3>1 DEF IsAnswer
    <3>3. toClient[i].id \in Nat /\ toClient[i].id <= base
      BY <1>6, <3>1, <3>2
    <3>4. CASE j <= L
      <4>1. j \in 1 .. L
        BY <1>1, <1>3, <3>4
      <4>2. toClient[i].id < toServer[j].id
        BY <1>3, <3>1, <3>2, <4>1 DEF InOrder
      <4> QED
        BY <1>1, <3>1, <4>1, <4>2
    <3>5. CASE ~(j <= L)
      <4>1. j - L \in 1 .. n /\ toServer'[j].id = base + (j - L)
        BY <1>4, <3>5
      <4> QED
        BY <1>1, <3>1, <3>3, <4>1
    <3> QED
      BY <3>4, <3>5
  <2> QED
    BY <1>1, <2>1, <2>2, <2>3 DEF InOrder
<1>9. Bounded(base + n)' /\ base + n \in Nat
  <2>1. \A p \in pending' : p.id <= base + n
    <3> SUFFICES ASSUME NEW p \in pending' PROVE p.id <= base + n
      OBVIOUS
    <3>1. CASE p \in pending
      BY <1>1, <1>7, <3>1
    <3>2. CASE \E i \in 1 .. n : p = new(i)
      BY <1>1, <1>2, <3>2
    <3> QED
      BY <1>1, <3>1, <3>2
  <2>2. ASSUME NEW i \in 1 .. L + n PROVE toServer'[i].id <= base + n
    <3>1. CASE i <= L
      <4>1. i \in 1 .. L
        BY <1>1, <1>3, <3>1
      <4>2. toServer'[i].id \in Nat /\ toServer'[i].id <= base
        BY <1>1, <1>3, <4>1
      <4> QED
        BY <1>1, <4>2
    <3>2. CASE ~(i <= L)
      <4>1. i - L \in 1 .. n /\ toServer'[i].id = base + (i - L)
        BY <1>4, <3>2
      <4> QED
        BY <1>1, <4>1
    <3> QED
      BY <3>1, <3>2
  <2>3. \A j \in DOMAIN toClient' : IsAnswer(j)' => toClient'[j].id <= base + n
    <3> SUFFICES ASSUME NEW j \in DOMAIN toClient', IsAnswer(j)'
                 PROVE  toClient'[j].id <= base + n
      OBVIOUS
    <3>1. IsAnswer(j) /\ toClient'[j] = toClient[j] /\ j \in DOMAIN toClient
      BY <1>5 DEF IsAnswer
    <3>2. toClient[j].id \in Nat /\ toClient[j].id <= base
      BY <1>6, <3>1
    <3> QED
      BY <1>1, <3>1, <3>2
  <2> QED
    BY <1>1, <2>1, <2>2, <2>3 DEF Bounded
<1>10. ASSUME NEW p \in pending', NEW q \in pending', p.id = q.id
       PROVE  p = q
  <2>1. CASE p \in pending /\ q \in pending
    BY <1>10, <2>1 DEF PendingOk
  <2>2. CASE p \in pending /\ q \notin pending
    <3>1. PICK i \in 1 .. n : q = new(i)
      BY <1>1, <2>2
    <3>2. q.id = base + i /\ p.id <= base /\ p.id \in Nat
      BY <1>2, <1>7, <2>2, <3>1
    <3> QED
      BY <1>1, <1>10, <3>2
  <2>3. CASE p \notin pending /\ q \in pending
    <3>1. PICK i \in 1 .. n : p = new(i)
      BY <1>1, <2>3
    <3>2. p.id = base + i /\ q.id <= base /\ q.id \in Nat
      BY <1>2, <1>7, <2>3, <3>1
    <3> QED
      BY <1>1, <1>10, <3>2
  <2>4. CASE p \notin pending /\ q \notin pending
    <3>1. PICK i \in 1 .. n : p = new(i)
      BY <1>1, <2>4
    <3>2. PICK j \in 1 .. n : q = new(j)
      BY <1>1, <2>4
    <3>3. base + i = base + j
      BY <1>2, <1>10, <3>1, <3>2
    <3>4. i = j
      BY <1>1, <3>3
    <3> QED
      BY <3>1, <3>2, <3>4
  <2> QED
    BY <2>1, <2>2, <2>3, <2>4
<1>11. ASSUME NEW p \in pending'
       PROVE  OnItsWay(p)'
  <2>1. CASE p \in pending
    <3>1. OnItsWay(p)
      BY <2>1 DEF PendingOk
    <3>2. CASE \E i \in DOMAIN toServer : toServer[i].id = p.id
      <4>1. PICK i \in 1 .. L : toServer[i].id = p.id
        BY <1>3, <3>2
      <4>2. i \in 1 .. L + n /\ toServer'[i].id = p.id
        BY <1>1, <1>3, <4>1
      <4> QED
        BY <1>1, <4>2 DEF OnItsWay
    <3>3. CASE \E j \in DOMAIN toClient : IsAnswer(j) /\ toClient[j].id = p.id
      <4>1. toClient' = toClient
        BY <2>1
      <4> QED
        BY <3>3, <4>1 DEF OnItsWay, IsAnswer
    <3> QED
      BY <3>1, <3>2, <3>3 DEF OnItsWay
  <2>2. CASE p \notin pending
    <3>1. PICK i \in 1 .. n : p = new(i)
      BY <1>1, <2>2
    <3>2. L + i \in 1 .. L + n /\ toServer'[L + i].id = p.id
      BY <1>1, <1>2, <1>3, <3>1
    <3> QED
      BY <1>1, <3>2 DEF OnItsWay
  <2> QED
    BY <2>1, <2>2
<1>12. ASSUME NEW p \in pending', NEW q \in pending', p.by = "replay", q.by # "replay"
       PROVE  p.id < q.id
  <2>1. CASE p \in pending /\ q \in pending
    BY <1>12, <2>1 DEF PendingOk
  <2>2. CASE p \in pending /\ q \notin pending
    <3>1. PICK i \in 1 .. n : q = new(i)
      BY <1>1, <2>2
    <3>2. q.id = base + i /\ p.id <= base /\ p.id \in Nat
      BY <1>2, <1>7, <2>2, <3>1
    <3> QED
      BY <1>1, <3>2
  <2>3. CASE p \notin pending
    <3>1. PICK i \in 1 .. n : p = new(i)
      BY <1>1, <2>3
    <3>2. by = "replay" /\ pending = {}
      BY <1>2, <1>12, <3>1
    <3>3. PICK j \in 1 .. n : q = new(j)
      BY <1>1, <3>2
    <3> QED
      BY <1>2, <1>12, <3>2, <3>3
  <2> QED
    BY <2>1, <2>2, <2>3
<1>13. PendingOk'
  BY <1>9, <1>10, <1>11, <1>12 DEF PendingOk
<1> QED
  BY <1>8, <1>13

\* Messages to the client are taken off or broadcast, and requests stop to be
\* waited for, of which a request whose answer is taken is one.
LEMMA ShiftKeepsOrder ==
  ASSUME SubscriptionsTypeOK, InOrder, PendingOk,
         toServer' = toServer, pending' \subseteq pending, NEW d \in Nat,
         \A j : IsAnswer(j)' => /\ j \in Nat /\ IsAnswer(j + d)
                                /\ toClient'[j] = toClient[j + d],
         \A p \in pending' : \A j : IsAnswer(j) /\ toClient[j].id = p.id =>
           \E k : IsAnswer(k)' /\ toClient'[k].id = p.id
  PROVE  InOrder' /\ PendingOk'
<1>1. \A j : IsAnswer(j)' => j \in DOMAIN toClient'
  BY DEF IsAnswer
<1>2. \A j : IsAnswer(j)' => j + d \in DOMAIN toClient
  BY DEF IsAnswer
<1>3. InOrder'
  <2>1. \A i, j \in DOMAIN toServer' : i < j => toServer'[i].id < toServer'[j].id
    BY DEF InOrder
  <2>2. ASSUME NEW i, NEW j, IsAnswer(i)', IsAnswer(j)', i < j
        PROVE  toClient'[i].id < toClient'[j].id
    <3>1. i + d < j + d
      BY <2>2
    <3>2. /\ IsAnswer(i + d) /\ IsAnswer(j + d)
          /\ toClient'[i] = toClient[i + d] /\ toClient'[j] = toClient[j + d]
      BY <2>2
    <3>3. i + d \in DOMAIN toClient /\ j + d \in DOMAIN toClient
      BY <1>2, <2>2
    <3> QED
      BY <3>1, <3>2, <3>3 DEF InOrder
  <2>3. ASSUME NEW i, NEW j \in DOMAIN toServer', IsAnswer(i)'
        PROVE  toClient'[i].id < toServer'[j].id
    <3>1. IsAnswer(i + d) /\ toClient'[i] = toClient[i + d]
      BY <2>3
    <3>2. i + d \in DOMAIN toClient /\ j \in DOMAIN toServer
      BY <1>2, <2>3
    <3> QED
      BY <3>1, <3>2 DEF InOrder
  <2>4. \A i, j \in DOMAIN toClient' :
          IsAnswer(i)' /\ IsAnswer(j)' /\ i < j => toClient'[i].id < toClient'[j].id
    BY <2>2
  <2>5. \A i \in DOMAIN toClient', j \in DOMAIN toServer' :
          IsAnswer(i)' => toClient'[i].id < toServer'[j].id
    BY <2>3
  <2> QED
    BY <2>1, <2>4, <2>5 DEF InOrder
<1>4. PICK n \in Nat : Bounded(n)
  BY DEF PendingOk
<1>5. Bounded(n)'
  <2>1. \A j \in DOMAIN toClient' : IsAnswer(j)' => toClient'[j].id <= n
    BY <1>2, <1>4 DEF Bounded
  <2>2. \A p \in pending' : p.id <= n
    BY <1>4 DEF Bounded
  <2>3. \A i \in DOMAIN toServer' : toServer'[i].id <= n
    BY <1>4 DEF Bounded
  <2> QED
    BY <2>1, <2>2, <2>3 DEF Bounded
<1>6. ASSUME NEW p \in pending'
      PROVE  OnItsWay(p)'
  <2>1. OnItsWay(p)
    BY DEF PendingOk
  <2>2. CASE \E i \in DOMAIN toServer : toServer[i].id = p.id
    BY <2>2 DEF OnItsWay
  <2>3. CASE \E j \in DOMAIN toClient : IsAnswer(j) /\ toClient[j].id = p.id
    <3>1. PICK k : IsAnswer(k)' /\ toClient'[k].id = p.id
      BY <2>3
    <3>2. k \in DOMAIN toClient'
      BY <1>1, <3>1
    <3> QED
      BY <3>1, <3>2 DEF OnItsWay
  <2> QED
    BY <2>1, <2>2, <2>3 DEF OnItsWay
<1>7. PendingOk'
  <2>1. \A p, q \in pending' : p.id = q.id => p = q
    BY DEF PendingOk
  <2>2. \A p, q \in pending' : p.by = "replay" /\ q.by # "replay" => p.id < q.id
    BY DEF PendingOk
  <2> QED
    BY <1>4, <1>5, <1>6, <2>1, <2>2 DEF PendingOk
<1> QED
  BY <1>3, <1>7

\* The first request is handled and answered.
Handled(how) ==
  /\ Len(toServer) \in Nat \ {0}
  /\ toServer' \in Seq(Requests)
  /\ DOMAIN toServer' = 1 .. Len(toServer) - 1
  /\ Len(toServer') = Len(toServer) - 1
  /\ \A i \in 1 .. Len(toServer) - 1 : toServer'[i] = toServer[i + 1]
  /\ toClient' \in Seq(Answers \cup Broadcasts)
  /\ DOMAIN toClient' = 1 .. Len(toClient) + 1
  /\ \A j \in 1 .. Len(toClient) : toClient'[j] = toClient[j]
  /\ toClient'[Len(toClient) + 1].type = how
  /\ toClient'[Len(toClient) + 1].id = toServer[1].id

LEMMA HandledIs ==
  ASSUME SubscriptionsTypeOK, NEW how \in {"result", "error"}, 1 \in DOMAIN toServer,
         toServer' = RemoveAt(toServer, 1),
         toClient' = Append(toClient, [type |-> how, id |-> toServer[1].id])
  PROVE  Handled(how)
<1>1. toServer # <<>>
  BY EmptySeq
<1>2. /\ RemoveAt(toServer, 1) \in Seq(Requests)
      /\ Len(toServer) \in Nat \ {0}
      /\ Len(RemoveAt(toServer, 1)) = Len(toServer) - 1
      /\ \A i \in 1 .. Len(toServer) - 1 : RemoveAt(toServer, 1)[i] = toServer[i + 1]
  BY <1>1, RemoveAtHead DEF SubscriptionsTypeOK
<1>3. /\ toServer' \in Seq(Requests)
      /\ Len(toServer) \in Nat \ {0}
      /\ Len(toServer') = Len(toServer) - 1
      /\ \A i \in 1 .. Len(toServer) - 1 : toServer'[i] = toServer[i + 1]
  BY <1>2
<1>4. DOMAIN toServer' = 1 .. Len(toServer) - 1
  BY <1>3, LenProperties
<1> DEFINE answer == [type |-> how, id |-> toServer[1].id]
<1>5. answer.type = how /\ answer.id = toServer[1].id
  OBVIOUS
<1>6. answer \in Answers \cup Broadcasts
  <2>1. toServer[1].id \in Ids
    BY ServerQueue DEF Ids
  <2>2. answer \in Answers
    BY <2>1 DEF Answers
  <2> QED
    BY <2>2
<1>7. toClient' = Append(toClient, answer)
  OBVIOUS
<1> HIDE DEF answer
<1>8. /\ toClient' \in Seq(Answers \cup Broadcasts)
      /\ Len(toClient') = Len(toClient) + 1
      /\ \A j \in 1 .. Len(toClient) : toClient'[j] = toClient[j]
      /\ toClient'[Len(toClient) + 1] = answer
  BY <1>6, <1>7, AppendProperties DEF SubscriptionsTypeOK
<1>9. DOMAIN toClient' = 1 .. Len(toClient) + 1
  BY <1>8, LenProperties
<1> QED
  BY <1>3, <1>4, <1>5, <1>8, <1>9 DEF Handled

LEMMA HandledKeepsOrder ==
  ASSUME SubscriptionsTypeOK, InOrder, PendingOk,
         NEW how \in {"result", "error"}, Handled(how), pending' = pending
  PROVE  InOrder' /\ PendingOk'
<1>0. PICK L, M : L = Len(toServer) /\ M = Len(toClient)
  OBVIOUS
<1>1. /\ L \in Nat \ {0} /\ DOMAIN toServer = 1 .. L
      /\ DOMAIN toServer' = 1 .. L - 1
      /\ \A i \in 1 .. L - 1 : toServer'[i] = toServer[i + 1]
  BY <1>0, ServerQueue DEF Handled
<1>2. /\ M \in Nat /\ DOMAIN toClient = 1 .. M
      /\ DOMAIN toClient' = 1 .. M + 1
      /\ \A j \in 1 .. M : toClient'[j] = toClient[j]
      /\ toClient'[M + 1].type = how
      /\ toClient'[M + 1].id = toServer[1].id
  BY <1>0, ClientQueue DEF Handled
<1>3. \A i \in 1 .. L - 1 : i + 1 \in 1 .. L /\ 1 < i + 1
  BY <1>1
<1>4. 1 \in 1 .. L
  BY <1>1
<1>5. \A j \in 1 .. M : IsAnswer(j)' => IsAnswer(j)
  BY <1>2 DEF IsAnswer
<1>6. \A j \in 1 .. M : IsAnswer(j) => IsAnswer(j)'
  <2>1. \A j \in 1 .. M : j \in 1 .. M + 1
    BY <1>2
  <2> QED
    BY <1>2, <2>1 DEF IsAnswer
<1>7. M + 1 \in DOMAIN toClient' /\ IsAnswer(M + 1)'
  <2>1. M + 1 \in DOMAIN toClient'
    BY <1>2
  <2>2. toClient'[M + 1].type # "updates"
    BY <1>2
  <2> QED
    BY <2>1, <2>2 DEF IsAnswer
<1>8. \A j \in 1 .. M + 1 : j \in 1 .. M \/ j = M + 1
  BY <1>2
<1>9. InOrder'
  <2>1. \A i, j \in 1 .. L - 1 : i < j => toServer'[i].id < toServer'[j].id
    <3> SUFFICES ASSUME NEW i \in 1 .. L - 1, NEW j \in 1 .. L - 1, i < j
                 PROVE  toServer'[i].id < toServer'[j].id
      OBVIOUS
    <3>1. i + 1 < j + 1 /\ i + 1 \in 1 .. L /\ j + 1 \in 1 .. L
      BY <1>3
    <3> QED
      BY <1>1, <3>1 DEF InOrder
  <2>2. ASSUME NEW i \in 1 .. M + 1, NEW j \in 1 .. M + 1, IsAnswer(i)', IsAnswer(j)', i < j
        PROVE  toClient'[i].id < toClient'[j].id
    <3>1. i \in 1 .. M
      BY <1>2, <2>2
    <3>2. IsAnswer(i) /\ toClient'[i] = toClient[i]
      BY <1>2, <1>5, <2>2, <3>1
    <3>3. CASE j = M + 1
      BY <1>1, <1>2, <1>4, <3>1, <3>2, <3>3 DEF InOrder
    <3>4. CASE j \in 1 .. M
      BY <1>2, <1>5, <2>2, <3>1, <3>2, <3>4 DEF InOrder
    <3> QED
      BY <1>8, <3>3, <3>4
  <2>3. ASSUME NEW i \in 1 .. M + 1, NEW j \in 1 .. L - 1, IsAnswer(i)'
        PROVE  toClient'[i].id < toServer'[j].id
    <3>1. toServer'[j] = toServer[j + 1] /\ j + 1 \in 1 .. L /\ 1 < j + 1
      BY <1>1, <1>3
    <3>2. CASE i = M + 1
      BY <1>1, <1>2, <1>4, <3>1, <3>2 DEF InOrder
    <3>3. CASE i \in 1 .. M
      BY <1>1, <1>2, <1>5, <2>3, <3>1, <3>3 DEF InOrder
    <3> QED
      BY <1>8, <3>2, <3>3
  <2> QED
    BY <1>1, <1>2, <2>1, <2>2, <2>3 DEF InOrder
<1>10. PICK n \in Nat : Bounded(n)
  BY DEF PendingOk
<1>11. Bounded(n)'
  <2>1. \A i \in DOMAIN toServer' : toServer'[i].id <= n
    BY <1>1, <1>3, <1>10 DEF Bounded
  <2>2. \A j \in DOMAIN toClient' : IsAnswer(j)' => toClient'[j].id <= n
    BY <1>1, <1>2, <1>4, <1>5, <1>8, <1>10 DEF Bounded
  <2> QED
    BY <1>10, <2>1, <2>2 DEF Bounded
<1>12. ASSUME NEW p \in pending
       PROVE  OnItsWay(p)'
  <2>1. OnItsWay(p)
    BY DEF PendingOk
  <2>2. CASE \E i \in DOMAIN toServer : toServer[i].id = p.id
    <3>1. PICK i \in 1 .. L : toServer[i].id = p.id
      BY <1>1, <2>2
    <3>2. CASE i = 1
      <4>1. toClient'[M + 1].id = p.id
        BY <1>2, <3>1, <3>2
      <4> QED
        BY <1>7, <4>1 DEF OnItsWay
    <3>3. CASE i # 1
      <4>1. i - 1 \in 1 .. L - 1 /\ (i - 1) + 1 = i
        BY <1>1, <3>3
      <4> QED
        BY <1>1, <3>1, <4>1 DEF OnItsWay
    <3> QED
      BY <3>2, <3>3
  <2>3. CASE \E j \in DOMAIN toClient : IsAnswer(j) /\ toClient[j].id = p.id
    <3>1. PICK j \in 1 .. M : IsAnswer(j) /\ toClient[j].id = p.id
      BY <1>2, <2>3
    <3>2. j \in 1 .. M + 1
      BY <1>2
    <3> QED
      BY <1>2, <1>6, <3>1, <3>2 DEF OnItsWay
  <2> QED
    BY <2>1, <2>2, <2>3 DEF OnItsWay
<1>13. PendingOk'
  <2>1. \A p, q \in pending' : p.id = q.id => p = q
    BY DEF PendingOk
  <2>2. \A p, q \in pending' : p.by = "replay" /\ q.by # "replay" => p.id < q.id
    BY DEF PendingOk
  <2> QED
    BY <1>10, <1>11, <1>12, <2>1, <2>2 DEF PendingOk
<1> QED
  BY <1>9, <1>13

-----------------------------------------------------------------------------
(***************************************************************************)
(* How the steps leave the subscriptions to come.                          *)
(***************************************************************************)
LEMMA AfterNone == SubscriptionsTypeOK => After(0) = subs
<1> SUFFICES ASSUME SubscriptionsTypeOK PROVE After(0) = subs
  OBVIOUS
<1>1. 1 .. 0 = {}
  OBVIOUS
<1> QED
  BY <1>1 DEF After, SubscriptionsTypeOK

LEMMA AfterNext ==
  ASSUME SubscriptionsTypeOK, NEW n \in Nat, n + 1 \in DOMAIN toServer
  PROVE  After(n + 1) = IF toServer[n + 1].type = "subscribe"
                        THEN After(n) \cup {toServer[n + 1].scope}
                        ELSE After(n) \ {toServer[n + 1].scope}
<1> DEFINE c == toServer[n + 1].scope
<1>1. /\ c \in Scopes /\ n + 1 \in 1 .. n + 1
      /\ \A i \in 1 .. n + 1 : i \in 1 .. n \/ i = n + 1
      /\ \A i \in 1 .. n : i \in 1 .. n + 1 /\ n + 1 \in i + 1 .. n + 1
  BY ServerQueue
<1>2. ASSUME NEW d \in Scopes \ {c}
      PROVE  d \in After(n + 1) <=> d \in After(n)
  <2>1. (\A i \in 1 .. n + 1 : toServer[i].scope # d) <=> (\A i \in 1 .. n : toServer[i].scope # d)
    BY <1>1
  <2>2. \A i \in 1 .. n : (\A j \in i + 1 .. n + 1 : toServer[j].scope # d)
                          <=> (\A j \in i + 1 .. n : toServer[j].scope # d)
    <3> SUFFICES ASSUME NEW i \in 1 .. n
                 PROVE  (\A j \in i + 1 .. n + 1 : toServer[j].scope # d)
                        <=> (\A j \in i + 1 .. n : toServer[j].scope # d)
      OBVIOUS
    <3>1. \A j \in i + 1 .. n + 1 : j \in i + 1 .. n \/ j = n + 1
      OBVIOUS
    <3>2. \A j \in i + 1 .. n : j \in i + 1 .. n + 1
      OBVIOUS
    <3> QED
      BY <3>1, <3>2
  <2> HIDE DEF c
  <2>3. toServer[n + 1].scope # d
    BY DEF c
  <2> QED
    BY <1>1, <2>1, <2>2, <2>3 DEF After
<1>3. c \in After(n + 1) <=> toServer[n + 1].type = "subscribe"
  <2>1. \A j \in (n + 1) + 1 .. n + 1 : toServer[j].scope # c
    OBVIOUS
  <2>2. ~ \A i \in 1 .. n + 1 : toServer[i].scope # c
    BY <1>1
  <2>3. \A i \in 1 .. n : ~ \A j \in i + 1 .. n + 1 : toServer[j].scope # c
    BY <1>1
  <2> QED
    BY <1>1, <2>1, <2>2, <2>3 DEF After
<1>4. After(n) \subseteq Scopes /\ After(n + 1) \subseteq Scopes
  BY DEF After
<1> HIDE DEF c
<1>5. After(n + 1) = IF toServer[n + 1].type = "subscribe"
                     THEN After(n) \cup {c} ELSE After(n) \ {c}
  BY <1>1, <1>2, <1>3, <1>4
<1> QED
  BY <1>5 DEF c

\* Requests that are added do not change what those before them do.
LEMMA AfterSame ==
  ASSUME subs' = subs, NEW n \in Nat, \A i \in 1 .. n : toServer'[i] = toServer[i]
  PROVE  After(n)' = After(n)
<1>1. \A i \in 1 .. n : \A j \in i + 1 .. n : j \in 1 .. n
  OBVIOUS
<1> QED
  BY <1>1 DEF After

\* The first request is carried out: what was to come has come.
LEMMA AfterHandled ==
  ASSUME SubscriptionsTypeOK, NEW how, Handled(how), 1 \in DOMAIN toServer,
         NEW n \in Nat, n \in 0 .. Len(toServer) - 1,
         subs' = UpdateSubscriptions(toServer[1])
  PROVE  After(n)' = After(n + 1)
<1> DEFINE c == toServer[1].scope
<1>1. /\ c \in Scopes
      /\ subs' = IF toServer[1].type = "subscribe" THEN subs \cup {c} ELSE subs \ {c}
      /\ \A i \in 1 .. n : toServer'[i] = toServer[i + 1]
  <2>1. \A i \in 1 .. n : i \in 1 .. Len(toServer) - 1
    BY ServerQueue
  <2> QED
    BY <2>1, ServerQueue DEF Handled, UpdateSubscriptions
<1>2. ASSUME NEW d \in Scopes
      PROVE  d \in After(n)' <=> d \in After(n + 1)
  <2> DEFINE none == \A i \in 1 .. n : toServer[i + 1].scope # d
             last(i) == /\ toServer[i].scope = d /\ toServer[i].type = "subscribe"
                        /\ \A j \in i + 1 .. n + 1 : toServer[j].scope # d
  <2>1. \A i \in 1 .. n : (\A j \in i + 1 .. n : toServer[j + 1].scope # d)
                          <=> (\A j \in (i + 1) + 1 .. n + 1 : toServer[j].scope # d)
    <3> SUFFICES ASSUME NEW i \in 1 .. n
                 PROVE  (\A j \in i + 1 .. n : toServer[j + 1].scope # d)
                        <=> (\A j \in (i + 1) + 1 .. n + 1 : toServer[j].scope # d)
      OBVIOUS
    <3>1. \A j \in i + 1 .. n : j + 1 \in (i + 1) + 1 .. n + 1
      OBVIOUS
    <3>2. \A j \in (i + 1) + 1 .. n + 1 : j - 1 \in i + 1 .. n /\ (j - 1) + 1 = j
      OBVIOUS
    <3> QED
      BY <3>1, <3>2
  <2>2. \A i \in 1 .. n : \A j \in i + 1 .. n : j \in 1 .. n
    OBVIOUS
  <2>3. d \in After(n)' <=> \/ d \in subs' /\ none
                            \/ \E i \in 1 .. n : last(i + 1)
    <3>1. \A i \in 1 .. n : (\A j \in i + 1 .. n : toServer'[j].scope # d)
                            <=> (\A j \in i + 1 .. n : toServer[j + 1].scope # d)
      BY <1>1, <2>2
    <3>2. d \in After(n)' <=>
            \/ d \in subs' /\ \A i \in 1 .. n : toServer'[i].scope # d
            \/ \E i \in 1 .. n : /\ toServer'[i].scope = d /\ toServer'[i].type = "subscribe"
                                 /\ \A j \in i + 1 .. n : toServer'[j].scope # d
      BY DEF After
    <3> QED
      BY <1>1, <2>1, <3>1, <3>2
  <2>4. d \in After(n + 1) <=> \/ d \in subs /\ \A i \in 1 .. n + 1 : toServer[i].scope # d
                               \/ \E i \in 1 .. n + 1 : last(i)
    BY DEF After
  <2>5. (\A i \in 1 .. n + 1 : toServer[i].scope # d) <=> toServer[1].scope # d /\ none
    <3>1. \A i \in 1 .. n + 1 : i = 1 \/ (i - 1 \in 1 .. n /\ (i - 1) + 1 = i)
      OBVIOUS
    <3>2. 1 \in 1 .. n + 1 /\ \A i \in 1 .. n : i + 1 \in 1 .. n + 1
      OBVIOUS
    <3> QED
      BY <3>1, <3>2
  <2>6. none <=> \A j \in 1 + 1 .. n + 1 : toServer[j].scope # d
    <3>1. \A j \in 1 + 1 .. n + 1 : j - 1 \in 1 .. n /\ (j - 1) + 1 = j
      OBVIOUS
    <3>2. \A i \in 1 .. n : i + 1 \in 1 + 1 .. n + 1
      OBVIOUS
    <3> QED
      BY <3>1, <3>2
  <2>7. last(1) <=> toServer[1].scope = d /\ toServer[1].type = "subscribe" /\ none
    BY <2>6
  <2> HIDE DEF last, none
  <2>8. (\E i \in 1 .. n + 1 : last(i)) <=> last(1) \/ \E i \in 1 .. n : last(i + 1)
    <3>1. \A i \in 1 .. n + 1 : i = 1 \/ (i - 1 \in 1 .. n /\ (i - 1) + 1 = i)
      OBVIOUS
    <3>2. 1 \in 1 .. n + 1 /\ \A i \in 1 .. n : i + 1 \in 1 .. n + 1
      OBVIOUS
    <3> QED
      BY <3>1, <3>2
  <2>9. d \in subs' <=> \/ d = c /\ toServer[1].type = "subscribe"
                        \/ d # c /\ d \in subs
    BY <1>1
  <2> QED
    BY <2>3, <2>4, <2>5, <2>7, <2>8, <2>9
<1>3. After(n)' \subseteq Scopes /\ After(n + 1) \subseteq Scopes
  BY DEF After
<1> QED
  BY <1>2, <1>3

\* A subscription that was refused is not there later, if it comes not again.
LEMMA AfterRefused ==
  ASSUME SubscriptionsTypeOK, NEW how, Handled(how), 1 \in DOMAIN toServer,
         NEW n \in Nat, n \in 0 .. Len(toServer) - 1,
         subs' = subs, toServer[1].type = "subscribe"
  PROVE  After(n)' \subseteq After(n + 1)
<1>1. \A i \in 1 .. n : toServer'[i] = toServer[i + 1]
  <2>1. \A i \in 1 .. n : i \in 1 .. Len(toServer) - 1
    BY ServerQueue
  <2> QED
    BY <2>1, ServerQueue DEF Handled
<1> SUFFICES ASSUME NEW d \in Scopes, d \in After(n)'
             PROVE  d \in After(n + 1)
  BY DEF After
<1>2. CASE d \in subs' /\ \A i \in 1 .. n : toServer'[i].scope # d
  <2>1. d \in subs /\ \A i \in 1 .. n : toServer[i + 1].scope # d
    BY <1>1, <1>2
  <2>2. \A j \in 1 + 1 .. n + 1 : toServer[j].scope # d
    <3>1. \A j \in 1 + 1 .. n + 1 : j - 1 \in 1 .. n /\ (j - 1) + 1 = j
      OBVIOUS
    <3> QED
      BY <2>1, <3>1
  <2>3. 1 \in 1 .. n + 1 /\ \A i \in 1 .. n + 1 : i = 1 \/ i \in 1 + 1 .. n + 1
    OBVIOUS
  <2>4. CASE toServer[1].scope = d
    BY <2>2, <2>3, <2>4 DEF After
  <2>5. CASE toServer[1].scope # d
    BY <2>1, <2>2, <2>3, <2>5 DEF After
  <2> QED
    BY <2>4, <2>5
<1>3. CASE \E i \in 1 .. n : /\ toServer'[i].scope = d /\ toServer'[i].type = "subscribe"
                             /\ \A j \in i + 1 .. n : toServer'[j].scope # d
  <2>1. PICK i \in 1 .. n : /\ toServer'[i].scope = d /\ toServer'[i].type = "subscribe"
                            /\ \A j \in i + 1 .. n : toServer'[j].scope # d
    BY <1>3
  <2>2. /\ toServer[i + 1].scope = d /\ toServer[i + 1].type = "subscribe"
        /\ i + 1 \in 1 .. n + 1
    BY <1>1, <2>1
  <2>3. \A j \in (i + 1) + 1 .. n + 1 : toServer[j].scope # d
    <3>1. \A j \in (i + 1) + 1 .. n + 1 :
            j - 1 \in i + 1 .. n /\ j - 1 \in 1 .. n /\ (j - 1) + 1 = j
      OBVIOUS
    <3>2. ASSUME NEW j \in (i + 1) + 1 .. n + 1
          PROVE  toServer[j].scope # d
      <4>1. PICK o : o = j - 1
        OBVIOUS
      <4>2. o \in i + 1 .. n /\ o \in 1 .. n /\ o + 1 = j
        BY <3>1, <4>1
      <4>3. toServer'[o].scope # d /\ toServer'[o] = toServer[o + 1]
        BY <1>1, <2>1, <4>2
      <4> QED
        BY <4>2, <4>3
    <3> QED
      BY <3>2
  <2> QED
    BY <2>2, <2>3 DEF After
<1> QED
  BY <1>2, <1>3 DEF After

-----------------------------------------------------------------------------
(***************************************************************************)
(* What the actions share.                                                 *)
(***************************************************************************)
LEMMA SpentIs ==
  ASSUME SubscriptionsTypeOK
  PROVE  /\ spent.refusals \in Nat /\ spent.publishes \in Nat
         /\ \A bound : Spend("subscribes", bound) \/ Spend("publishes", bound)
                       \/ Suffer("faults") \/ UNCHANGED spent =>
              /\ spent' \in [{"subscribes", "publishes", "faults", "refusals"} -> Nat]
              /\ spent'.refusals = spent.refusals
         /\ Suffer("refusals") =>
              /\ spent' \in [{"subscribes", "publishes", "faults", "refusals"} -> Nat]
              /\ spent'.refusals > 0
<1> DEFINE K == {"subscribes", "publishes", "faults", "refusals"}
<1>1. spent \in [K -> Nat]
  BY DEF SubscriptionsTypeOK
<1>2. \A k \in K : [spent EXCEPT ![k] = @ + 1] \in [K -> Nat]
  BY <1>1
<1>3. \A k \in K \ {"refusals"} : [spent EXCEPT ![k] = @ + 1].refusals = spent.refusals
  BY <1>1
<1>4. [spent EXCEPT !["refusals"] = @ + 1].refusals > 0
  BY <1>1
<1> QED
  BY <1>1, <1>2, <1>3, <1>4 DEF Spend, Suffer

\* Whoever subscribes or stops to listen changes the entries.
LEMMA EntriesMore ==
  ASSUME SubscriptionsTypeOK, NEW l \in Listeners, NEW c \in Scopes, at[l] = None,
         at' = [at EXCEPT ![l] = c]
  PROVE  Entries' = Entries \cup {c}
BY SubscriptionsAssumption DEF SubscriptionsTypeOK, Entries

LEMMA EntriesLess ==
  ASSUME SubscriptionsTypeOK, NEW l \in Listeners, at[l] # None,
         at' = [at EXCEPT ![l] = None]
  PROVE  /\ at[l] \in Entries
         /\ Entries' = IF \E other \in Listeners \ {l} : at[other] = at[l]
                       THEN Entries ELSE Entries \ {at[l]}
<1>1. /\ at[l] \in Scopes /\ at'[l] = None /\ None \notin Scopes
      /\ \A k \in Listeners \ {l} : at'[k] = at[k]
  BY SubscriptionsAssumption DEF SubscriptionsTypeOK
<1>2. CASE \E other \in Listeners \ {l} : at[other] = at[l]
  BY <1>1, <1>2 DEF Entries
<1>3. CASE ~ \E other \in Listeners \ {l} : at[other] = at[l]
  BY <1>1, <1>3 DEF Entries
<1> QED
  BY <1>1, <1>2, <1>3 DEF Entries

\* There are no more entries than listeners.
LEMMA EntriesSmall ==
  ASSUME NEW a \in [Listeners -> Scopes \cup {None}],
         NEW S, S = {c \in Scopes : \E l \in Listeners : a[l] = c}
  PROVE  IsFiniteSet(S) /\ Cardinality(S) <= Cardinality(Listeners)
<1> DEFINE T == {a[l] : l \in Listeners}
           f == [l \in Listeners |-> a[l]]
<1>1. f \in Surjection(Listeners, T)
  BY DEF Surjection
<1>2. IsFiniteSet(T) /\ Cardinality(T) <= Cardinality(Listeners)
  BY <1>1, FS_Surjection, SubscriptionsAssumption
<1>3. S \subseteq T
  OBVIOUS
<1>4. IsFiniteSet(S) /\ Cardinality(S) <= Cardinality(T)
  BY <1>2, <1>3, FS_Subset
<1>5. Cardinality(S) \in Nat /\ Cardinality(T) \in Nat /\ Cardinality(Listeners) \in Nat
  BY <1>2, <1>4, FS_CardinalityType, SubscriptionsAssumption
<1> QED
  BY <1>2, <1>4, <1>5

\* The requests of a socket, once one more is sent.
LEMMA AfterMore ==
  SubscriptionsTypeOK =>
    \A n \in Nat : n + 1 \in DOMAIN toServer =>
      After(n + 1) = IF toServer[n + 1].type = "subscribe"
                     THEN After(n) \cup {toServer[n + 1].scope}
                     ELSE After(n) \ {toServer[n + 1].scope}
BY AfterNext

-----------------------------------------------------------------------------
(***************************************************************************)
(* The socket is lost with everything on it.                               *)
(***************************************************************************)
LEMMA LostKeeps ==
  ASSUME SubscriptionsInv, LoseSocket, UNCHANGED <<at, hasOpened, owed, limited>>,
         conn' \in {"idle", "opening"}, timer' \in BOOLEAN, closed' \in BOOLEAN,
         spent' \in [{"subscribes", "publishes", "faults", "refusals"} -> Nat],
         spent'.refusals = spent.refusals
  PROVE  SubscriptionsInv'
<1>1. SubscriptionsTypeOK
  BY DEF SubscriptionsInv
<1>2. /\ pending' = {} /\ toServer' = <<>> /\ toClient' = <<>> /\ subs' = {}
      /\ \A c \in Scopes : ready'[c] =
           IF ready[c].is = "pending" /\ (ready[c].of # 0 \/ conn' = "idle")
           THEN Settled("rejected") ELSE ready[c]
  BY DEF LoseSocket, RejectPending
<1>3. DOMAIN toServer' = {} /\ DOMAIN toClient' = {}
  BY <1>2
<1>4. ~HasSocket' /\ conn' # "up"
  BY DEF HasSocket
<1>5. SubscriptionsTypeOK'
  <2>1. ready' \in [Scopes -> Promises]
    BY <1>1 DEF SubscriptionsTypeOK, LoseSocket, RejectPending, Settled, Promises
  <2>2. <<>> \in Seq(Requests) /\ <<>> \in Seq(Answers \cup Broadcasts)
    BY EmptySeq
  <2>3. IsFiniteSet({})
    BY FS_EmptySet
  <2> QED
    BY <1>1, <1>2, <2>1, <2>2, <2>3 DEF SubscriptionsTypeOK
<1>6. InOrder'
  BY <1>3 DEF InOrder
<1>7. PendingOk'
  <2>1. Bounded(0)'
    BY <1>2, <1>3 DEF Bounded
  <2> QED
    BY <1>2, <2>1 DEF PendingOk
<1>8. ReplayOk'
  BY <1>2, <1>4 DEF ReplayOk
<1>9. PromisesOk'
  <2> SUFFICES ASSUME NEW c \in Scopes
               PROVE  ready'[c].of = 0 /\ (ready'[c].is = "ready" => hasOpened)
    BY DEF PromisesOk
  <2>1. ready[c].of # 0 => ready[c].is = "pending"
    BY DEF SubscriptionsInv, PromisesOk
  <2>2. ready[c].is = "ready" => hasOpened
    BY DEF SubscriptionsInv, PromisesOk
  <2> QED
    BY <1>2, <2>1, <2>2 DEF Settled
<1>10. EntriesCovered' /\ NothingExtra' /\ Within'
  BY <1>4 DEF EntriesCovered, NothingExtra, Within
<1>11. WithinLimit'
  BY DEF SubscriptionsInv, WithinLimit
<1>12. OwedOk'
  BY <1>4 DEF SubscriptionsInv, OwedOk
<1> QED
  BY <1>5, <1>6, <1>7, <1>8, <1>9, <1>10, <1>11, <1>12 DEF SubscriptionsInv, SocketInv

LEMMA CloseSocketKeeps ==
  ASSUME SubscriptionsInv, NEW refused, CloseSocket(refused),
         UNCHANGED <<at, hasOpened, closed, owed, limited>>,
         Suffer("faults") \/ UNCHANGED spent
  PROVE  SubscriptionsInv'
<1>1. SubscriptionsTypeOK
  BY DEF SubscriptionsInv
<1>2. /\ spent' \in [{"subscribes", "publishes", "faults", "refusals"} -> Nat]
      /\ spent'.refusals = spent.refusals
  BY <1>1, SpentIs
<1>3. LoseSocket /\ conn' \in {"idle", "opening"} /\ timer' \in BOOLEAN
  <2>1. conn' \in {"idle", "opening"}
    BY DEF CloseSocket, AttemptFails
  <2>2. timer' \in BOOLEAN
    BY <1>1 DEF CloseSocket, ScheduleReconnect, SubscriptionsTypeOK
  <2> QED
    BY <2>1, <2>2 DEF CloseSocket
<1>4. closed' \in BOOLEAN
  BY <1>1 DEF SubscriptionsTypeOK
<1> QED
  BY <1>2, <1>3, <1>4, LostKeeps

LEMMA DropKeeps == SubscriptionsInv /\ Drop => SubscriptionsInv'
BY CloseSocketKeeps DEF Drop

LEMMA ConnectFailsKeeps == SubscriptionsInv /\ ConnectFails => SubscriptionsInv'
BY CloseSocketKeeps DEF ConnectFails

LEMMA CloseKeeps == SubscriptionsInv /\ Close => SubscriptionsInv'
<1> SUFFICES ASSUME SubscriptionsInv, Close PROVE SubscriptionsInv'
  OBVIOUS
<1>1. SubscriptionsTypeOK
  BY DEF SubscriptionsInv
<1>2. /\ spent' \in [{"subscribes", "publishes", "faults", "refusals"} -> Nat]
      /\ spent'.refusals = spent.refusals
  BY <1>1, SpentIs DEF Close
<1>3. conn' \in {"idle", "opening"}
  BY <1>1 DEF Close, AttemptFails, SubscriptionsTypeOK
<1>4. /\ LoseSocket /\ timer' \in BOOLEAN /\ closed' \in BOOLEAN
      /\ UNCHANGED <<at, hasOpened, owed, limited>>
  BY DEF Close
<1> QED
  BY <1>2, <1>3, <1>4, LostKeeps

-----------------------------------------------------------------------------
(***************************************************************************)
(* Nothing happens on the socket.                                          *)
(***************************************************************************)
LEMMA QuietKeeps ==
  ASSUME SubscriptionsInv, SubscriptionsTypeOK',
         UNCHANGED <<hasOpened, pending, toServer, toClient, subs, limited>>,
         conn' = conn \/ (~HasSocket /\ ~HasSocket'),
         spent'.refusals = spent.refusals,
         \A c \in Scopes : \/ ready'[c] = ready[c]
                           \/ ~HasSocket /\ ready'[c].of = 0 /\ ready'[c].is # "ready",
         HasSocket => Entries' = Entries,
         \A l \in Listeners : \A n \in owed'[l] : n \in owed[l] /\ at'[l] = at[l]
  PROVE  SubscriptionsInv'
<1>1. /\ HasSocket' <=> HasSocket
      /\ conn' = "up" => conn = "up"
      /\ conn' = "replaying" => conn = "replaying"
  BY DEF HasSocket
<1>2. \A j : IsAnswer(j)' <=> IsAnswer(j)
  BY DEF IsAnswer
<1>3. InOrder'
  BY <1>2 DEF SubscriptionsInv, SocketInv, InOrder
<1>4. PendingOk'
  <2>1. \A n : Bounded(n) => Bounded(n)'
    BY <1>2 DEF Bounded
  <2>2. \A p : OnItsWay(p) => OnItsWay(p)'
    BY <1>2 DEF OnItsWay
  <2> QED
    BY <2>1, <2>2 DEF SubscriptionsInv, SocketInv, PendingOk
<1>5. ReplayOk'
  BY <1>1 DEF SubscriptionsInv, SocketInv, ReplayOk
<1>6. PromisesOk'
  BY DEF SubscriptionsInv, PromisesOk
<1>7. EntriesCovered'
  <2> SUFFICES ASSUME HasSocket, NEW c \in Entries
               PROVE  ready'[c].is = "rejected" \/ Covered(c)'
    BY <1>1 DEF EntriesCovered
  <2>1. c \in Scopes /\ ready'[c] = ready[c]
    BY DEF Entries
  <2>2. \A k : DependsOn(c, k) => DependsOn(c, k)'
    BY <2>1 DEF DependsOn
  <2>3. /\ NoneAbout(c) => NoneAbout(c)'
        /\ \A i : LastAbout(c, i) => LastAbout(c, i)'
    BY DEF NoneAbout, LastAbout
  <2>4. Covered(c) => Covered(c)'
    BY <2>2, <2>3 DEF Covered, AskedFor, Subscribed, Refused
  <2> QED
    BY <2>1, <2>4 DEF SubscriptionsInv, EntriesCovered
<1>8. Len(toServer)' = Len(toServer) /\ \A n : After(n)' = After(n)
  BY DEF After
<1>9. NothingExtra'
  BY <1>1, <1>8 DEF SubscriptionsInv, NothingExtra
<1>10. Within'
  BY <1>1, <1>8 DEF SubscriptionsInv, Within
<1>11. WithinLimit'
  BY DEF SubscriptionsInv, WithinLimit
<1>12. OwedOk'
  BY <1>1 DEF SubscriptionsInv, OwedOk
<1> QED
  BY <1>3, <1>4, <1>5, <1>6, <1>7, <1>9, <1>10, <1>11, <1>12 DEF SubscriptionsInv, SocketInv

LEMMA OpenIs ==
  ASSUME NEW byTimer, Open(byTimer)
  PROVE  conn' = conn \/ (~HasSocket /\ ~HasSocket')
<1>1. CASE conn = "idle" /\ ~closed
  <2>1. conn = "idle" /\ conn' = "opening"
    BY <1>1 DEF Open
  <2>2. ~HasSocket
    BY <2>1 DEF HasSocket
  <2>3. ~HasSocket'
    BY <2>1 DEF HasSocket
  <2> QED
    BY <2>2, <2>3
<1>2. CASE ~(conn = "idle" /\ ~closed)
  BY <1>2 DEF Open
<1> QED
  BY <1>1, <1>2

LEMMA TimerFiresKeeps == SubscriptionsInv /\ TimerFires => SubscriptionsInv'
<1> SUFFICES ASSUME SubscriptionsInv, TimerFires PROVE SubscriptionsInv'
  OBVIOUS
<1>1. /\ UNCHANGED <<at, ready, hasOpened, pending, toServer, toClient, subs, limited, owed, spent, closed>>
      /\ timer' = FALSE
      /\ Open(TRUE)
      /\ conn' = IF conn = "idle" /\ ~closed THEN "opening" ELSE conn
  BY DEF TimerFires, Open
<1>2. SubscriptionsTypeOK'
  BY <1>1 DEF SubscriptionsInv, SubscriptionsTypeOK
<1>3. conn' = conn \/ (~HasSocket /\ ~HasSocket')
  BY <1>1, OpenIs
<1>4. Entries' = Entries
  BY <1>1 DEF Entries
<1> QED
  BY <1>1, <1>2, <1>3, <1>4, QuietKeeps

\* A listener joins an entry, or waits for a connection.
LEMMA SubscribeQuietKeeps ==
  ASSUME SubscriptionsInv, NEW l \in Listeners, NEW c \in Scopes, Subscribe(l, c),
         c \in Entries \/ ~HasSocket
  PROVE  SubscriptionsInv'
<1>1. SubscriptionsTypeOK /\ OwedOk
  BY DEF SubscriptionsInv
<1>2. /\ at[l] = None /\ at' = [at EXCEPT ![l] = c]
      /\ UNCHANGED <<timer, hasOpened, closed, toClient, subs, owed, limited>>
      /\ UNCHANGED <<pending, toServer>>
      /\ Spend("subscribes", MaxSubscribes)
  BY DEF Subscribe, SendNothing
<1>3. /\ spent' \in [{"subscribes", "publishes", "faults", "refusals"} -> Nat]
      /\ spent'.refusals = spent.refusals
  BY <1>1, <1>2, SpentIs
<1>4. \/ c \in Entries /\ UNCHANGED <<ready, conn>>
      \/ /\ ~HasSocket /\ Open(FALSE)
         /\ ready' = [ready EXCEPT ![c] = IF closed THEN Settled("rejected") ELSE OpenPromise]
  BY DEF Subscribe
<1>5. conn' = conn \/ (~HasSocket /\ ~HasSocket')
  BY <1>4, OpenIs
<1>6. \A d \in Scopes : \/ ready'[d] = ready[d]
                        \/ ~HasSocket /\ ready'[d].of = 0 /\ ready'[d].is # "ready"
  <2>1. CASE ready' = ready
    BY <2>1
  <2>2. CASE ready' = [ready EXCEPT ![c] = Settled("rejected")] /\ ~HasSocket
    BY <1>1, <2>2 DEF SubscriptionsTypeOK, Settled
  <2>3. CASE ready' = [ready EXCEPT ![c] = OpenPromise] /\ ~HasSocket
    BY <1>1, <2>3 DEF SubscriptionsTypeOK, OpenPromise
  <2> QED
    BY <1>4, <2>1, <2>2, <2>3
<1>7. SubscriptionsTypeOK'
  <2>1. Settled("rejected") \in Promises /\ OpenPromise \in Promises
    BY DEF Settled, OpenPromise, Promises
  <2>2. ready' \in [Scopes -> Promises]
    BY <1>1, <1>4, <2>1 DEF SubscriptionsTypeOK
  <2>3. conn' \in {"idle", "opening", "replaying", "up"}
    BY <1>1, <1>4 DEF SubscriptionsTypeOK, Open
  <2>4. at' \in [Listeners -> Scopes \cup {None}]
    BY <1>1, <1>2 DEF SubscriptionsTypeOK
  <2> QED
    BY <1>1, <1>2, <1>3, <2>2, <2>3, <2>4 DEF SubscriptionsTypeOK
<1>8. HasSocket => Entries' = Entries
  BY <1>1, <1>2, EntriesMore
<1>9. \A k \in Listeners : \A n \in owed'[k] : n \in owed[k] /\ at'[k] = at[k]
  BY <1>1, <1>2 DEF OwedOk, SubscriptionsTypeOK
<1> QED
  BY <1>2, <1>3, <1>5, <1>6, <1>7, <1>8, <1>9, QuietKeeps

\* A listener leaves an entry to others, or there is no socket.
LEMMA UnsubscribeQuietKeeps ==
  ASSUME SubscriptionsInv, NEW l \in Listeners, Unsubscribe(l),
         (\E other \in Listeners \ {l} : at[other] = at[l]) \/ ~HasSocket
  PROVE  SubscriptionsInv'
<1>1. SubscriptionsTypeOK
  BY DEF SubscriptionsInv
<1>2. /\ at[l] # None /\ at' = [at EXCEPT ![l] = None] /\ owed' = [owed EXCEPT ![l] = {}]
      /\ UNCHANGED <<conn, timer, hasOpened, closed, toClient, subs, limited, spent>>
      /\ UNCHANGED <<pending, toServer>>
  BY DEF Unsubscribe, SendNothing
<1>3. \/ ready' = ready
      \/ ~HasSocket /\ ready' = [ready EXCEPT ![at[l]] = NoPromise]
  BY DEF Unsubscribe
<1>4. \A d \in Scopes : \/ ready'[d] = ready[d]
                        \/ ~HasSocket /\ ready'[d].of = 0 /\ ready'[d].is # "ready"
  BY <1>1, <1>3 DEF SubscriptionsTypeOK, NoPromise
<1>5. SubscriptionsTypeOK'
  <2>1. NoPromise \in Promises
    BY DEF NoPromise, Promises
  <2>2. ready' \in [Scopes -> Promises]
    BY <1>1, <1>3, <2>1 DEF SubscriptionsTypeOK
  <2>3. at' \in [Listeners -> Scopes \cup {None}] /\ owed' \in [Listeners -> SUBSET Nat]
    BY <1>1, <1>2 DEF SubscriptionsTypeOK
  <2> QED
    BY <1>1, <1>2, <2>2, <2>3 DEF SubscriptionsTypeOK
<1>6. HasSocket => Entries' = Entries
  BY <1>1, <1>2, EntriesLess
<1>7. \A k \in Listeners : \A n \in owed'[k] : n \in owed[k] /\ at'[k] = at[k]
  BY <1>1, <1>2 DEF SubscriptionsTypeOK
<1>8. /\ UNCHANGED <<hasOpened, pending, toServer, toClient, subs, limited>>
      /\ conn' = conn /\ spent'.refusals = spent.refusals
  BY <1>2
<1> QED
  BY <1>4, <1>5, <1>6, <1>7, <1>8, QuietKeeps

-----------------------------------------------------------------------------
(***************************************************************************)
(* Requests are sent.                                                      *)
(***************************************************************************)
\* The queue of requests, once more of them are sent.
LEMMA SentIs ==
  ASSUME SubscriptionsTypeOK,
         NEW type, NEW by, NEW scopes, NEW asked, NEW n, NEW base,
         Sent(type, by, scopes, asked, n, base)
  PROVE  /\ n \in Nat /\ base \in Nat /\ Len(toServer) \in Nat
         /\ DOMAIN toServer = 1 .. Len(toServer)
         /\ DOMAIN toServer' = 1 .. Len(toServer) + n
         /\ Len(toServer') = Len(toServer) + n
         /\ \A i \in 1 .. Len(toServer) : /\ i \in DOMAIN toServer'
                                          /\ toServer'[i] = toServer[i]
         /\ \A i \in DOMAIN toServer' : ~(i \in 1 .. Len(toServer)) =>
              /\ i - Len(toServer) \in 1 .. n
              /\ toServer'[i].id = base + (i - Len(toServer))
              /\ toServer'[i].type = type
              /\ toServer'[i].scope = asked[i - Len(toServer)]
         /\ \A i \in 1 .. n : asked[i] \in scopes
<1>1. /\ n \in Nat /\ base \in Nat /\ Len(toServer) \in Nat
      /\ DOMAIN toServer = 1 .. Len(toServer)
      /\ Len(toServer') = Len(toServer) + n
      /\ \A i \in 1 .. Len(toServer) : toServer'[i] = toServer[i]
      /\ \A i \in 1 .. n : asked[i] \in scopes
  BY ServerQueue DEF Sent
<1>2. DOMAIN toServer' = 1 .. Len(toServer) + n
  <2>1. toServer' \in Seq(Requests)
    BY DEF Sent
  <2> QED
    BY <1>1, <2>1, LenProperties
<1>3. \A i \in 1 .. Len(toServer) : i \in 1 .. Len(toServer) + n
  BY <1>1
<1>4. ASSUME NEW i \in 1 .. Len(toServer) + n, ~(i \in 1 .. Len(toServer))
      PROVE  /\ i - Len(toServer) \in 1 .. n
             /\ toServer'[i].id = base + (i - Len(toServer))
             /\ toServer'[i].type = type
             /\ toServer'[i].scope = asked[i - Len(toServer)]
  <2>1. i - Len(toServer) \in 1 .. n /\ Len(toServer) + (i - Len(toServer)) = i
    BY <1>1, <1>4
  <2> QED
    BY <2>1 DEF Sent
<1> QED
  BY <1>1, <1>2, <1>3, <1>4

\* What other entries wait for.
LEMMA SentKeepsCover ==
  ASSUME SubscriptionsTypeOK,
         NEW type, NEW by, NEW scopes, NEW asked, NEW n, NEW base,
         Sent(type, by, scopes, asked, n, base),
         toClient' = toClient, subs' = subs,
         NEW d \in Scopes, d \notin scopes, ready'[d] = ready[d], Covered(d)
  PROVE  Covered(d)'
<1>1. \A k : DependsOn(d, k) => DependsOn(d, k)'
  BY DEF DependsOn, Sent
<1>2. \A i \in DOMAIN toServer' : ~(i \in 1 .. Len(toServer)) => toServer'[i].scope # d
  BY SentIs
<1>3. NoneAbout(d) => NoneAbout(d)'
  BY <1>2, SentIs DEF NoneAbout
<1>4. \A i : LastAbout(d, i) => LastAbout(d, i)' /\ toServer'[i] = toServer[i]
  BY <1>2, SentIs DEF LastAbout
<1>5. AskedFor(d) => AskedFor(d)'
  <2> SUFFICES ASSUME AskedFor(d) PROVE AskedFor(d)'
    OBVIOUS
  <2>1. PICK i \in DOMAIN toServer : /\ LastAbout(d, i) /\ toServer[i].type = "subscribe"
                                     /\ DependsOn(d, toServer[i].id)
    BY DEF AskedFor
  <2>2. PICK k : k = toServer[i].id
    OBVIOUS
  <2>3. LastAbout(d, i)' /\ toServer'[i] = toServer[i] /\ DependsOn(d, k)'
    BY <1>1, <1>4, <2>1, <2>2
  <2>4. i \in DOMAIN toServer' /\ toServer'[i].id = k /\ toServer'[i].type = "subscribe"
    BY <2>1, <2>2, <2>3 DEF LastAbout
  <2> QED
    BY <2>3, <2>4 DEF AskedFor, DependsOn
<1>6. Refused(d) => Refused(d)'
  BY <1>1, <1>3 DEF Refused
<1> QED
  BY <1>3, <1>5, <1>6 DEF Covered, Subscribed

\* What the entries that ask wait for.
LEMMA SentCovers ==
  ASSUME SubscriptionsTypeOK,
         NEW by, NEW scopes, NEW asked, NEW n, NEW base,
         Sent("subscribe", by, scopes, asked, n, base),
         NEW c \in scopes,
         by = "replay" \/ (by = "start" /\ n = 1 /\ ready'[c].of = base + 1)
  PROVE  Covered(c)'
<1>0. PICK L : L = Len(toServer)
  OBVIOUS
<1>1. PICK i \in 1 .. n : asked[i] = c
  BY DEF Sent
<1>2. /\ n \in Nat /\ L \in Nat /\ DOMAIN toServer' = 1 .. L + n
      /\ L + i \in 1 .. L + n /\ ~(L + i \in 1 .. L) /\ (L + i) - L = i
  BY <1>0, SentIs
<1>3. /\ toServer'[L + i].id = base + i /\ toServer'[L + i].type = "subscribe"
      /\ toServer'[L + i].scope = c
  BY <1>0, <1>1 DEF Sent
<1>4. ASSUME NEW j \in DOMAIN toServer', j > L + i
      PROVE  toServer'[j].scope # c
  <2>1. ~(j \in 1 .. L) /\ j - L # i
    BY <1>2, <1>4
  <2>2. j - L \in 1 .. n /\ toServer'[j].scope = asked[j - L]
    BY <1>0, <2>1, SentIs
  <2> QED
    BY <1>1, <2>1, <2>2 DEF Sent
<1>5. LastAbout(c, L + i)'
  BY <1>2, <1>3, <1>4 DEF LastAbout
<1>6. DependsOn(c, base + i)'
  <2> DEFINE p == [id |-> base + i, by |-> by, scope |-> asked[i]]
  <2>1. p \in pending'
    BY DEF Sent
  <2>2. p.id = base + i /\ p.by = by /\ p.scope = c
    BY <1>1
  <2>3. by = "start" => ready'[c].of = base + i
    BY <1>2
  <2> HIDE DEF p
  <2> QED
    BY <2>1, <2>2, <2>3 DEF DependsOn
<1>7. L + i \in DOMAIN toServer'
  BY <1>2
<1>8. AskedFor(c)'
  BY <1>3, <1>5, <1>6, <1>7 DEF AskedFor, DependsOn
<1> QED
  BY <1>8 DEF Covered

LEMMA AfterSent ==
  ASSUME SubscriptionsTypeOK, SubscriptionsTypeOK', subs' = subs,
         NEW type, NEW by, NEW c, NEW asked, NEW base,
         Sent(type, by, {c}, asked, 1, base)
  PROVE  /\ \A m \in 0 .. Len(toServer) : After(m)' = After(m)
         /\ After(Len(toServer))' = IF type = "subscribe" THEN After(Len(toServer)) \cup {c}
                                                           ELSE After(Len(toServer)) \ {c}
<1>0. PICK L : L = Len(toServer)
  OBVIOUS
<1>1. /\ L \in Nat /\ DOMAIN toServer' = 1 .. L + 1 /\ Len(toServer') = L + 1
      /\ \A i \in 1 .. L : toServer'[i] = toServer[i]
  BY <1>0, SentIs
<1>2. /\ toServer'[L + 1].type = type /\ toServer'[L + 1].scope = c
  <2>1. 1 \in 1 .. 1 /\ asked[1] = c
    BY DEF Sent
  <2> QED
    BY <1>0, <2>1 DEF Sent
<1>3. ASSUME NEW m \in 0 .. L
      PROVE  After(m)' = After(m)
  <2>1. \A i \in 1 .. m : toServer'[i] = toServer[i]
    BY <1>1
  <2>2. m \in Nat
    BY <1>1
  <2> QED
    BY <2>1, <2>2, AfterSame
<1>4. (SubscriptionsTypeOK =>
         \A n \in Nat : n + 1 \in DOMAIN toServer =>
           After(n + 1) = IF toServer[n + 1].type = "subscribe"
                          THEN After(n) \cup {toServer[n + 1].scope}
                          ELSE After(n) \ {toServer[n + 1].scope})'
  BY AfterMore, PTL
<1>5. L + 1 \in DOMAIN toServer'
  BY <1>1
<1>6. After(L + 1)' = IF type = "subscribe" THEN After(L)' \cup {c} ELSE After(L)' \ {c}
  BY <1>1, <1>2, <1>4, <1>5
<1>7. L \in 0 .. L
  BY <1>1
<1>8. After(Len(toServer))' = After(L + 1)'
  BY <1>1 DEF After
<1>9. After(L + 1)' = IF type = "subscribe" THEN After(L) \cup {c} ELSE After(L) \ {c}
  BY <1>3, <1>6, <1>7
<1> QED
  BY <1>0, <1>3, <1>8, <1>9

LEMMA SubscribeSocketKeeps ==
  ASSUME SubscriptionsInv, NEW l \in Listeners, NEW c \in Scopes, Subscribe(l, c),
         c \notin Entries, HasSocket
  PROVE  SubscriptionsInv'
<1>1. SubscriptionsTypeOK /\ InOrder /\ PendingOk /\ ReplayOk /\ OwedOk
  BY DEF SubscriptionsInv, SocketInv
<1>2. /\ at[l] = None /\ at' = [at EXCEPT ![l] = c]
      /\ UNCHANGED <<conn, timer, hasOpened, closed, toClient, subs, owed, limited>>
      /\ Spend("subscribes", MaxSubscribes)
      /\ Send("subscribe", "start", {c})
      /\ ready' = [ready EXCEPT ![c] = [is |-> "pending", of |-> nextId]]
  BY DEF Subscribe
<1>3. /\ spent' \in [{"subscribes", "publishes", "faults", "refusals"} -> Nat]
      /\ spent'.refusals = spent.refusals
  BY <1>1, <1>2, SpentIs
<1>4. PICK base : base = nextId - 1 /\ base \in Nat /\ nextId = base + 1 /\ Bounded(base)
  BY <1>1, NextIdIsNew
<1>5. PICK asked : Sent("subscribe", "start", {c}, asked, 1, base)
  <2>1. IsFiniteSet({c}) /\ Cardinality({c}) = 1
    BY FS_Singleton
  <2> QED
    BY <1>1, <1>2, <1>4, <2>1, SendIs
<1>6. InOrder' /\ PendingOk'
  BY <1>1, <1>2, <1>4, <1>5, SendKeepsOrder
<1>7. /\ ready'[c].is = "pending" /\ ready'[c].of = base + 1
      /\ \A d \in Scopes \ {c} : ready'[d] = ready[d]
  BY <1>1, <1>2, <1>4 DEF SubscriptionsTypeOK
<1>8. Entries' = Entries \cup {c}
  BY <1>1, <1>2, EntriesMore
<1>9. SubscriptionsTypeOK'
  <2>1. ready' \in [Scopes -> Promises]
    <3>1. [is |-> "pending", of |-> nextId] \in Promises
      BY <1>4 DEF Promises
    <3> QED
      BY <1>1, <1>2, <3>1 DEF SubscriptionsTypeOK
  <2>2. at' \in [Listeners -> Scopes \cup {None}]
    BY <1>1, <1>2 DEF SubscriptionsTypeOK
  <2>3. toServer' \in Seq(Requests) /\ pending' \in SUBSET Awaited
    BY <1>5 DEF Sent
  <2> QED
    BY <1>1, <1>2, <1>3, <2>1, <2>2, <2>3 DEF SubscriptionsTypeOK
<1>10. HasSocket'
  BY <1>2 DEF HasSocket
<1>11. ReplayOk'
  <2>1. pending \subseteq pending' /\ \A p \in pending' : p \in pending \/ p.by = "start"
    BY <1>5 DEF Sent
  <2> QED
    BY <1>1, <1>2, <1>10, <2>1 DEF ReplayOk
<1>12. PromisesOk'
  <2>1. \A d \in Scopes \ {c} :
          /\ ready'[d].of # 0 => /\ ready'[d].is = "pending"
                                 /\ \E p \in pending' : /\ p.id = ready'[d].of
                                                        /\ p.by = "start" /\ p.scope = d
          /\ ready'[d].is = "ready" => hasOpened'
    <3>1. pending \subseteq pending'
      BY <1>5 DEF Sent
    <3> QED
      BY <1>2, <1>7, <3>1 DEF SubscriptionsInv, PromisesOk
  <2>2. \E p \in pending' : p.id = base + 1 /\ p.by = "start" /\ p.scope = c
    <3>1. 1 \in 1 .. 1 /\ asked[1] = c
      BY <1>5 DEF Sent
    <3>2. [id |-> base + 1, by |-> "start", scope |-> asked[1]] \in pending'
      BY <1>5, <3>1 DEF Sent
    <3> QED
      BY <3>1, <3>2
  <2> QED
    BY <1>7, <2>1, <2>2 DEF PromisesOk
<1>13. EntriesCovered'
  <2>1. Covered(c)'
    BY <1>1, <1>5, <1>7, SentCovers
  <2>2. ASSUME NEW d \in Entries
        PROVE  ready'[d].is = "rejected" \/ Covered(d)'
    <3>1. d \in Scopes /\ d \notin {c} /\ ready'[d] = ready[d]
      BY <1>7 DEF Entries
    <3>2. ready[d].is = "rejected" \/ Covered(d)
      BY DEF SubscriptionsInv, EntriesCovered
    <3>3. Covered(d) => Covered(d)'
      BY <1>1, <1>2, <1>5, <3>1, SentKeepsCover
    <3> QED
      BY <3>1, <3>2, <3>3
  <2> QED
    BY <1>8, <2>1, <2>2 DEF EntriesCovered
<1>14. /\ \A m \in 0 .. Len(toServer) : After(m)' = After(m)
       /\ After(Len(toServer))' = After(Len(toServer)) \cup {c}
  BY <1>1, <1>2, <1>5, <1>9, AfterSent
<1>15. NothingExtra'
  BY <1>3, <1>8, <1>14 DEF SubscriptionsInv, NothingExtra
<1>16. Within'
  <2> SUFFICES ASSUME spent.refusals = 0, ~limited
               PROVE  /\ Entries' \subseteq After(Len(toServer))'
                      /\ \A m \in 0 .. Len(toServer') :
                           Cardinality(After(m)') <= Cardinality(Listeners)
    BY <1>2, <1>3, Zenon DEF Within
  <2>1. /\ After(Len(toServer)) = Entries
        /\ \A m \in 0 .. Len(toServer) : Cardinality(After(m)) <= Cardinality(Listeners)
    BY DEF SubscriptionsInv, NothingExtra, Within
  <2>2. After(Len(toServer))' = Entries'
    BY <1>8, <1>14, <2>1
  <2>3. Cardinality(Entries') <= Cardinality(Listeners)
    BY <1>9, EntriesSmall DEF SubscriptionsTypeOK, Entries
  <2>4. ASSUME NEW m \in 0 .. Len(toServer')
        PROVE  Cardinality(After(m)') <= Cardinality(Listeners)
    <3>1. m \in 0 .. Len(toServer) \/ m = Len(toServer')
      BY <1>1, <1>5, SentIs
    <3>2. CASE m \in 0 .. Len(toServer)
      BY <1>14, <2>1, <3>2
    <3>3. CASE m = Len(toServer')
      <4>1. After(m)' = After(Len(toServer))'
        BY <3>3 DEF After
      <4> QED
        BY <2>2, <2>3, <4>1
    <3> QED
      BY <3>1, <3>2, <3>3
  <2> QED
    BY <2>2, <2>4
<1>17. WithinLimit'
  BY <1>2, <1>3 DEF SubscriptionsInv, WithinLimit
<1>18. OwedOk'
  <2>1. \A k \in Listeners : \A n \in owed[k] : at'[k] = at[k]
    BY <1>1, <1>2 DEF OwedOk, SubscriptionsTypeOK
  <2> QED
    BY <1>1, <1>2, <2>1 DEF OwedOk
<1> QED
  BY <1>6, <1>9, <1>11, <1>12, <1>13, <1>15, <1>16, <1>17, <1>18 DEF SubscriptionsInv, SocketInv

LEMMA UnsubscribeSocketKeeps ==
  ASSUME SubscriptionsInv, NEW l \in Listeners, Unsubscribe(l),
         ~ \E other \in Listeners \ {l} : at[other] = at[l], HasSocket
  PROVE  SubscriptionsInv'
<1>1. SubscriptionsTypeOK /\ InOrder /\ PendingOk /\ ReplayOk /\ OwedOk
  BY DEF SubscriptionsInv, SocketInv
<1>2. PICK c : c = at[l]
  OBVIOUS
<1>3. /\ at[l] # None /\ at' = [at EXCEPT ![l] = None] /\ owed' = [owed EXCEPT ![l] = {}]
      /\ UNCHANGED <<conn, timer, hasOpened, closed, toClient, subs, limited, spent>>
      /\ Send("unsubscribe", "unsubscribe", {c})
      /\ ready' = [ready EXCEPT ![c] = NoPromise]
  BY <1>2 DEF Unsubscribe
<1>4. c \in Scopes /\ Entries' = Entries \ {c}
  BY <1>1, <1>2, <1>3, EntriesLess DEF Entries
<1>5. PICK base : base = nextId - 1 /\ base \in Nat /\ Bounded(base)
  BY <1>1, NextIdIsNew
<1>6. PICK asked : Sent("unsubscribe", "unsubscribe", {c}, asked, 1, base)
  <2>1. IsFiniteSet({c}) /\ Cardinality({c}) = 1
    BY FS_Singleton
  <2>2. {c} \in SUBSET Scopes
    BY <1>4
  <2> QED
    BY <1>1, <1>3, <1>5, <2>1, <2>2, SendIs
<1>7. InOrder' /\ PendingOk'
  BY <1>1, <1>3, <1>5, <1>6, SendKeepsOrder
<1>8. /\ ready'[c] = NoPromise
      /\ \A d \in Scopes \ {c} : ready'[d] = ready[d]
  BY <1>1, <1>3, <1>4 DEF SubscriptionsTypeOK
<1>9. SubscriptionsTypeOK'
  <2>1. ready' \in [Scopes -> Promises]
    <3>1. NoPromise \in Promises
      BY DEF NoPromise, Promises
    <3> QED
      BY <1>1, <1>3, <3>1 DEF SubscriptionsTypeOK
  <2>2. at' \in [Listeners -> Scopes \cup {None}] /\ owed' \in [Listeners -> SUBSET Nat]
    BY <1>1, <1>3 DEF SubscriptionsTypeOK
  <2>3. toServer' \in Seq(Requests) /\ pending' \in SUBSET Awaited
    BY <1>6 DEF Sent
  <2> QED
    BY <1>1, <1>3, <2>1, <2>2, <2>3 DEF SubscriptionsTypeOK
<1>10. HasSocket'
  BY <1>3 DEF HasSocket
<1>11. ReplayOk'
  <2>1. pending \subseteq pending' /\ \A p \in pending' : p \in pending \/ p.by = "unsubscribe"
    BY <1>6 DEF Sent
  <2> QED
    BY <1>1, <1>3, <1>10, <2>1 DEF ReplayOk
<1>12. PromisesOk'
  <2>1. pending \subseteq pending'
    BY <1>6 DEF Sent
  <2> QED
    BY <1>3, <1>8, <2>1 DEF SubscriptionsInv, PromisesOk, NoPromise
<1>13. EntriesCovered'
  <2>1. ASSUME NEW d \in Entries, d # c
        PROVE  ready'[d].is = "rejected" \/ Covered(d)'
    <3>1. d \in Scopes /\ d \notin {c} /\ ready'[d] = ready[d]
      BY <1>8, <2>1 DEF Entries
    <3>2. ready[d].is = "rejected" \/ Covered(d)
      BY DEF SubscriptionsInv, EntriesCovered
    <3>3. Covered(d) => Covered(d)'
      BY <1>1, <1>3, <1>6, <3>1, SentKeepsCover
    <3> QED
      BY <3>1, <3>2, <3>3
  <2> QED
    BY <1>4, <2>1 DEF EntriesCovered
<1>14. /\ \A m \in 0 .. Len(toServer) : After(m)' = After(m)
       /\ After(Len(toServer))' = After(Len(toServer)) \ {c}
  BY <1>1, <1>3, <1>6, <1>9, AfterSent
<1>15. NothingExtra'
  BY <1>3, <1>4, <1>14 DEF SubscriptionsInv, NothingExtra
<1>16. Within'
  <2> SUFFICES ASSUME spent.refusals = 0, ~limited
               PROVE  /\ Entries' \subseteq After(Len(toServer))'
                      /\ \A m \in 0 .. Len(toServer') :
                           Cardinality(After(m)') <= Cardinality(Listeners)
    BY <1>3, Zenon DEF Within
  <2>1. /\ After(Len(toServer)) = Entries
        /\ \A m \in 0 .. Len(toServer) : Cardinality(After(m)) <= Cardinality(Listeners)
    BY DEF SubscriptionsInv, NothingExtra, Within
  <2>2. After(Len(toServer))' = Entries'
    BY <1>4, <1>14, <2>1
  <2>3. Cardinality(Entries') <= Cardinality(Listeners)
    BY <1>9, EntriesSmall DEF SubscriptionsTypeOK, Entries
  <2>4. ASSUME NEW m \in 0 .. Len(toServer')
        PROVE  Cardinality(After(m)') <= Cardinality(Listeners)
    <3>1. m \in 0 .. Len(toServer) \/ m = Len(toServer')
      BY <1>1, <1>6, SentIs
    <3>2. CASE m \in 0 .. Len(toServer)
      BY <1>14, <2>1, <3>2
    <3>3. CASE m = Len(toServer')
      <4>1. After(m)' = After(Len(toServer))'
        BY <3>3 DEF After
      <4> QED
        BY <2>2, <2>3, <4>1
    <3> QED
      BY <3>1, <3>2, <3>3
  <2> QED
    BY <2>2, <2>4
<1>17. WithinLimit'
  BY <1>3 DEF SubscriptionsInv, WithinLimit
<1>18. OwedOk'
  <2>1. \A k \in Listeners : \A n \in owed'[k] : n \in owed[k] /\ at'[k] = at[k]
    BY <1>1, <1>3 DEF SubscriptionsTypeOK
  <2> QED
    BY <1>1, <1>3, <2>1 DEF OwedOk
<1> QED
  BY <1>7, <1>9, <1>11, <1>12, <1>13, <1>15, <1>16, <1>17, <1>18 DEF SubscriptionsInv, SocketInv

LEMMA SubscribeKeeps ==
  ASSUME SubscriptionsInv, NEW l \in Listeners, NEW c \in Scopes, Subscribe(l, c)
  PROVE  SubscriptionsInv'
BY SubscribeQuietKeeps, SubscribeSocketKeeps

LEMMA UnsubscribeKeeps ==
  ASSUME SubscriptionsInv, NEW l \in Listeners, Unsubscribe(l)
  PROVE  SubscriptionsInv'
BY UnsubscribeQuietKeeps, UnsubscribeSocketKeeps

-----------------------------------------------------------------------------
(***************************************************************************)
(* A socket opens, and a replay ends.                                      *)
(***************************************************************************)
\* What an open promise becomes when a replay has succeeded.
LEMMA ReplayedIs ==
  ASSUME SubscriptionsTypeOK, PromisesOk, OwedOk, Replayed
  PROVE  /\ conn' = "up" /\ hasOpened'
         /\ ready' \in [Scopes -> Promises] /\ owed' \in [Listeners -> SUBSET Nat]
         /\ hasOpened' \in BOOLEAN
         /\ \A l \in Listeners : owed'[l] = {}
         /\ \A c \in Scopes : \/ ready'[c] = ready[c]
                              \/ /\ ready[c].is = "pending" /\ ready[c].of = 0
                                 /\ ready'[c].is = "ready" /\ ready'[c].of = 0
<1>1. /\ conn' = "up" /\ hasOpened' = TRUE
      /\ owed' = IF hasOpened THEN [l \in Listeners |-> {}] ELSE owed
      /\ ready' = [c \in Scopes |-> IF ready[c] = OpenPromise THEN Settled("ready") ELSE ready[c]]
  BY DEF Replayed
<1>2. Settled("ready") \in Promises
  BY DEF Settled, Promises
<1>3. ready' \in [Scopes -> Promises]
  BY <1>1, <1>2 DEF SubscriptionsTypeOK
<1>4. owed' \in [Listeners -> SUBSET Nat] /\ \A l \in Listeners : owed'[l] = {}
  BY <1>1 DEF SubscriptionsTypeOK, OwedOk
<1>5. \A c \in Scopes : \/ ready'[c] = ready[c]
                        \/ /\ ready[c].is = "pending" /\ ready[c].of = 0
                           /\ ready'[c].is = "ready" /\ ready'[c].of = 0
  BY <1>1 DEF OpenPromise, Settled
<1> QED
  BY <1>1, <1>3, <1>4, <1>5

LEMMA ConnectedKeeps == SubscriptionsInv /\ Connected => SubscriptionsInv'
<1> SUFFICES ASSUME SubscriptionsInv, Connected PROVE SubscriptionsInv'
  OBVIOUS
<1>1. SubscriptionsTypeOK /\ InOrder /\ PendingOk /\ ReplayOk /\ OwedOk /\ PromisesOk
  BY DEF SubscriptionsInv, SocketInv
<1>2. /\ subs' = {} /\ toClient' = <<>>
      /\ Send("subscribe", "replay", Entries)
      /\ UNCHANGED <<at, timer, closed, limited, spent>>
      /\ pending = {} /\ toServer = <<>>
  BY <1>1 DEF Connected, ReplayOk, HasSocket
<1>3. IF Entries = {} THEN Replayed ELSE conn' = "replaying" /\ UNCHANGED <<hasOpened, owed, ready>>
  BY DEF Connected
<1>4. IsFiniteSet(Entries) /\ Cardinality(Entries) <= Cardinality(Listeners)
  BY <1>1, EntriesSmall DEF SubscriptionsTypeOK, Entries
<1>5. PICK base : base = nextId - 1 /\ base \in Nat /\ Bounded(base)
  BY <1>1, NextIdIsNew
<1>6. PICK S, n : S = Entries /\ n = Cardinality(Entries)
  OBVIOUS
<1>7. PICK asked : Sent("subscribe", "replay", S, asked, n, base)
  <2>1. Entries \in SUBSET Scopes
    BY DEF Entries
  <2> QED
    BY <1>1, <1>2, <1>4, <1>5, <1>6, <2>1, SendIs
<1>8. InOrder' /\ PendingOk'
  BY <1>1, <1>2, <1>5, <1>7, SendKeepsOrder
<1>9. /\ ready' \in [Scopes -> Promises] /\ owed' \in [Listeners -> SUBSET Nat]
      /\ hasOpened' \in BOOLEAN /\ conn' \in {"replaying", "up"}
      /\ \A c \in Scopes : \/ ready'[c] = ready[c]
                           \/ ready'[c].of = 0 /\ hasOpened'
      /\ hasOpened => hasOpened'
  <2>1. CASE Entries = {}
    <3>1. Replayed
      BY <1>3, <2>1
    <3> QED
      BY <1>1, <3>1, ReplayedIs
  <2>2. CASE Entries # {}
    BY <1>1, <1>3, <2>2 DEF SubscriptionsTypeOK
  <2> QED
    BY <2>1, <2>2
<1>10. SubscriptionsTypeOK'
  <2>1. toServer' \in Seq(Requests) /\ pending' \in SUBSET Awaited
    BY <1>7 DEF Sent
  <2>2. toClient' \in Seq(Answers \cup Broadcasts)
    BY <1>2, EmptySeq
  <2>3. subs' \in SUBSET Scopes /\ IsFiniteSet(subs')
    BY <1>2, FS_EmptySet
  <2> QED
    BY <1>1, <1>2, <1>9, <2>1, <2>2, <2>3 DEF SubscriptionsTypeOK
<1>11. /\ n \in Nat /\ Len(toServer') = n /\ DOMAIN toServer' = 1 .. n
       /\ \A i \in 1 .. n : /\ toServer'[i].scope = asked[i] /\ asked[i] \in S
                            /\ toServer'[i].type = "subscribe"
       /\ \A i, j \in 1 .. n : asked[i] = asked[j] => i = j
       /\ \A c \in S : \E i \in 1 .. n : asked[i] = c
  <2>1. Len(toServer) = 0
    BY <1>2, EmptySeq
  <2>2. n \in Nat
    BY <1>7 DEF Sent
  <2>3. \A i \in 1 .. n : 0 + i = i
    BY <2>2
  <2>4. \A i \in 1 .. n : /\ toServer'[i].scope = asked[i] /\ asked[i] \in S
                          /\ toServer'[i].type = "subscribe"
    BY <1>7, <2>1, <2>3 DEF Sent
  <2>5. Len(toServer') = 0 + n /\ DOMAIN toServer' = 1 .. 0 + n
    BY <1>1, <1>7, <2>1, SentIs
  <2>6. 0 + n = n
    BY <2>2
  <2> QED
    BY <1>7, <2>2, <2>4, <2>5, <2>6 DEF Sent
<1>12. Entries' = S /\ HasSocket'
  BY <1>2, <1>6, <1>9 DEF Entries, HasSocket
<1>13. ReplayOk'
  <2>1. \A p \in pending' : \E i \in 1 .. n : TRUE
    BY <1>2, <1>7 DEF Sent
  <2>2. CASE Entries = {}
    <3>1. pending' = {}
      BY <1>6, <1>11, <2>1, <2>2
    <3>2. conn' = "up" /\ hasOpened'
      BY <1>1, <1>3, <2>2, ReplayedIs
    <3> QED
      BY <1>12, <3>1, <3>2 DEF ReplayOk
  <2>3. CASE Entries # {}
    <3>1. PICK i \in 1 .. n : TRUE
      BY <1>6, <1>11, <2>3
    <3>2. [id |-> base + i, by |-> "replay", scope |-> asked[i]] \in pending'
      BY <1>7 DEF Sent
    <3>3. \E p \in pending' : p.by = "replay"
      BY <3>2
    <3> QED
      BY <1>3, <1>12, <2>3, <3>3 DEF ReplayOk
  <2> QED
    BY <2>2, <2>3
<1>14. PromisesOk'
  <2>1. \A c \in Scopes : ready[c].of = 0 /\ (ready[c].is = "ready" => hasOpened)
    BY <1>1, <1>2 DEF PromisesOk
  <2> QED
    BY <1>9, <2>1 DEF PromisesOk
<1>15. EntriesCovered'
  <2>1. \A c \in S : Covered(c)'
    BY <1>1, <1>7, SentCovers
  <2> QED
    BY <1>12, <2>1 DEF EntriesCovered
<1>16. ASSUME NEW m \in 0 .. n
       PROVE  After(m)' \subseteq S
  <2>1. \A i \in 1 .. m : i \in 1 .. n
    BY <1>11
  <2> QED
    BY <1>2, <1>11, <2>1 DEF After
<1>17. After(n)' = S
  <2>1. n \in 0 .. n
    BY <1>11
  <2>2. After(n)' \subseteq S
    BY <1>16, <2>1
  <2>3. ASSUME NEW c \in S
        PROVE  c \in After(n)'
    <3>1. PICK i \in 1 .. n : asked[i] = c
      BY <1>11
    <3>2. \A j \in i + 1 .. n : j \in 1 .. n /\ j # i
      BY <1>11
    <3>3. \A j \in i + 1 .. n : toServer'[j].scope # c
      BY <1>11, <3>1, <3>2
    <3>4. c \in Scopes
      BY <1>6 DEF Entries
    <3> QED
      BY <1>11, <3>1, <3>3, <3>4 DEF After
  <2> QED
    BY <2>2, <2>3
<1>18. After(Len(toServer))' = S
  BY <1>11, <1>17 DEF After
<1>19. NothingExtra'
  BY <1>12, <1>18 DEF NothingExtra
<1>20. Within'
  <2>1. ASSUME NEW m \in 0 .. Len(toServer')
        PROVE  Cardinality(After(m)') <= Cardinality(Listeners)
    <3>1. After(m)' \subseteq S /\ IsFiniteSet(S)
      BY <1>4, <1>6, <1>11, <1>16
    <3>2. IsFiniteSet(After(m)') /\ Cardinality(After(m)') <= Cardinality(S)
      BY <3>1, FS_Subset
    <3>3. Cardinality(After(m)') \in Nat /\ Cardinality(S) \in Nat /\ Cardinality(Listeners) \in Nat
      BY <3>1, <3>2, FS_CardinalityType, SubscriptionsAssumption
    <3>4. Cardinality(S) <= Cardinality(Listeners)
      BY <1>4, <1>6
    <3> QED
      BY <3>2, <3>3, <3>4
  <2> QED
    BY <1>12, <1>18, <2>1, Zenon DEF Within
<1>21. WithinLimit'
  BY <1>2 DEF SubscriptionsInv, WithinLimit
<1>22. OwedOk'
  <2>1. CASE Entries = {}
    <3>1. \A l \in Listeners : owed'[l] = {}
      BY <1>1, <1>3, <2>1, ReplayedIs
    <3> QED
      BY <3>1 DEF OwedOk
  <2>2. CASE Entries # {}
    <3>1. conn' # "up" /\ UNCHANGED <<at, hasOpened, owed>>
      BY <1>2, <1>3, <2>2
    <3> QED
      BY <1>1, <3>1 DEF OwedOk
  <2> QED
    BY <2>1, <2>2
<1> QED
  BY <1>8, <1>10, <1>13, <1>14, <1>15, <1>19, <1>20, <1>21, <1>22 DEF SubscriptionsInv, SocketInv

-----------------------------------------------------------------------------
(***************************************************************************)
(* An update is published.                                                 *)
(***************************************************************************)
\* On a connection that is up the shard subscribes the socket to every entry
\* that is ready.
LEMMA ReadyIsSubscribed ==
  ASSUME SubscriptionsInv, NEW c \in Entries, ready[c].is = "ready", conn = "up"
  PROVE  HasSocket /\ c \in subs
<1>1. HasSocket
  BY DEF HasSocket
<1>2. c \in Scopes /\ Covered(c)
  BY <1>1 DEF SubscriptionsInv, EntriesCovered, Entries
<1>3. ASSUME NEW k, DependsOn(c, k)
      PROVE  FALSE
  <2>1. PICK p \in pending : /\ p.id = k
                             /\ p.by = "replay" \/ (p.by = "start" /\ ready[c].of = k)
    BY <1>3 DEF DependsOn
  <2>2. p.by # "replay"
    BY DEF SubscriptionsInv, SocketInv, ReplayOk
  <2>3. ready[c].of = k /\ k > 0 /\ k \in Nat
    BY <2>1, <2>2, AwaitedIs DEF SubscriptionsInv
  <2>4. ready[c].of # 0
    BY <2>3
  <2> QED
    BY <1>2, <2>4 DEF SubscriptionsInv, PromisesOk
<1> QED
  BY <1>1, <1>2, <1>3 DEF Covered, AskedFor, Subscribed, Refused

LEMMA PublishKeeps ==
  ASSUME SubscriptionsInv, NEW c \in Scopes, Publish(c)
  PROVE  SubscriptionsInv'
<1>1. SubscriptionsTypeOK /\ InOrder /\ PendingOk /\ ReplayOk /\ OwedOk /\ PromisesOk
  BY DEF SubscriptionsInv, SocketInv
<1>2. PICK n : n = spent.publishes + 1
  OBVIOUS
<1>3. PICK update : update = [type |-> "updates", update |-> n, scope |-> c]
  OBVIOUS
<1>4. /\ UNCHANGED <<at, ready, conn, timer, hasOpened, closed, pending, toServer, subs, limited>>
      /\ owed' = [l \in Listeners |->
                   IF at[l] = c /\ ready[c].is = "ready" THEN owed[l] \cup {n} ELSE owed[l]]
      /\ toClient' = IF HasSocket /\ c \in subs THEN Append(toClient, update) ELSE toClient
      /\ Spend("publishes", MaxPublishes)
  BY <1>2, <1>3 DEF Publish
<1>5. /\ spent' \in [{"subscribes", "publishes", "faults", "refusals"} -> Nat]
      /\ spent'.refusals = spent.refusals
      /\ n \in Nat
  BY <1>1, <1>2, <1>4, SpentIs
<1>6. update.type = "updates" /\ update.update = n /\ update.scope = c /\ update \in Broadcasts
  BY <1>3, <1>5 DEF Broadcasts
<1>7. PICK M : M = Len(toClient) /\ M \in Nat /\ DOMAIN toClient = 1 .. M
  BY <1>1, ClientQueue
<1>8. /\ toClient' \in Seq(Answers \cup Broadcasts)
      /\ \A j \in 1 .. M : j \in DOMAIN toClient' /\ toClient'[j] = toClient[j]
      /\ \A j \in DOMAIN toClient' : ~(j \in 1 .. M) => toClient'[j] = update
      /\ HasSocket /\ c \in subs => M + 1 \in DOMAIN toClient' /\ toClient'[M + 1] = update
  <2>1. toClient \in Seq(Answers \cup Broadcasts) /\ update \in Answers \cup Broadcasts
    BY <1>1, <1>6 DEF SubscriptionsTypeOK
  <2>2. CASE HasSocket /\ c \in subs
    <3>1. toClient' = Append(toClient, update)
      BY <1>4, <2>2
    <3>2. /\ toClient' \in Seq(Answers \cup Broadcasts)
          /\ Len(toClient') = M + 1
          /\ \A j \in 1 .. M : toClient'[j] = toClient[j]
          /\ toClient'[M + 1] = update
      BY <1>7, <2>1, <3>1, AppendProperties
    <3>3. DOMAIN toClient' = 1 .. M + 1
      BY <3>2, LenProperties
    <3>4. \A j \in 1 .. M + 1 : j \in 1 .. M \/ j = M + 1
      BY <1>7
    <3>5. M + 1 \in 1 .. M + 1 /\ \A j \in 1 .. M : j \in 1 .. M + 1
      BY <1>7
    <3> QED
      BY <3>2, <3>3, <3>4, <3>5
  <2>3. CASE ~(HasSocket /\ c \in subs)
    BY <1>4, <1>7, <2>1, <2>3
  <2> QED
    BY <2>2, <2>3
<1>9. \A j : IsAnswer(j)' => IsAnswer(j) /\ j \in 1 .. M
  BY <1>6, <1>7, <1>8 DEF IsAnswer
<1>10. \A j : IsAnswer(j) => IsAnswer(j)' /\ toClient'[j] = toClient[j]
  BY <1>7, <1>8 DEF IsAnswer
<1>11. InOrder' /\ PendingOk'
  <2>1. \A j : IsAnswer(j)' => j \in Nat /\ IsAnswer(j + 0) /\ toClient'[j] = toClient[j + 0]
    BY <1>7, <1>8, <1>9
  <2>2. \A p \in pending' : \A j : IsAnswer(j) /\ toClient[j].id = p.id =>
           \E k : IsAnswer(k)' /\ toClient'[k].id = p.id
    BY <1>10
  <2>3. toServer' = toServer /\ pending' \subseteq pending /\ 0 \in Nat
    BY <1>4
  <2> QED
    BY <1>1, <2>1, <2>2, <2>3, ShiftKeepsOrder
<1>12. SubscriptionsTypeOK'
  <2>1. owed' \in [Listeners -> SUBSET Nat]
    BY <1>1, <1>4, <1>5 DEF SubscriptionsTypeOK
  <2> QED
    BY <1>1, <1>4, <1>5, <1>8, <2>1 DEF SubscriptionsTypeOK
<1>13. ReplayOk' /\ PromisesOk' /\ Entries' = Entries /\ (HasSocket' <=> HasSocket)
  BY <1>1, <1>4 DEF ReplayOk, PromisesOk, HasSocket, Entries
<1>14. EntriesCovered'
  <2> SUFFICES ASSUME HasSocket, NEW d \in Entries
               PROVE  ready'[d].is = "rejected" \/ Covered(d)'
    BY <1>13 DEF EntriesCovered
  <2>1. ready[d].is = "rejected" \/ Covered(d)
    BY DEF SubscriptionsInv, EntriesCovered
  <2>2. \A k : DependsOn(d, k) => DependsOn(d, k)'
    BY <1>4 DEF DependsOn
  <2>3. /\ NoneAbout(d) => NoneAbout(d)'
        /\ \A i : LastAbout(d, i) => LastAbout(d, i)'
    BY <1>4 DEF NoneAbout, LastAbout
  <2>4. AskedFor(d) => AskedFor(d)'
    BY <1>4, <2>2, <2>3 DEF AskedFor
  <2>5. Refused(d) => Refused(d)'
    <3> SUFFICES ASSUME Refused(d) PROVE Refused(d)'
      OBVIOUS
    <3>1. PICK j \in DOMAIN toClient : toClient[j].type = "error" /\ DependsOn(d, toClient[j].id)
      BY DEF Refused
    <3>2. PICK k : k = toClient[j].id
      OBVIOUS
    <3>3. /\ j \in DOMAIN toClient' /\ toClient'[j].type = "error" /\ toClient'[j].id = k
          /\ DependsOn(d, k)'
      BY <1>7, <1>8, <2>2, <3>1, <3>2
    <3> QED
      BY <2>3, <3>3 DEF Refused, DependsOn
  <2> QED
    BY <1>4, <2>1, <2>3, <2>4, <2>5 DEF Covered, Subscribed
<1>15. Len(toServer)' = Len(toServer) /\ \A m : After(m)' = After(m)
  BY <1>4 DEF After
<1>16. NothingExtra' /\ Within'
  BY <1>4, <1>5, <1>13, <1>15 DEF SubscriptionsInv, NothingExtra, Within
<1>17. WithinLimit'
  BY <1>4, <1>5 DEF SubscriptionsInv, WithinLimit
<1>18. OwedOk'
  <2>0. SUFFICES \A l \in Listeners : \A m \in owed'[l] :
                   /\ at[l] # None /\ hasOpened
                   /\ conn = "up" => \E j \in DOMAIN toClient' :
                                       /\ toClient'[j].type = "updates"
                                       /\ toClient'[j].update = m
                                       /\ toClient'[j].scope = at[l]
    <3>1. at' = at /\ hasOpened' = hasOpened /\ conn' = conn
      BY <1>4
    <3> QED
      BY <2>0, <3>1, Zenon DEF OwedOk
  <2> TAKE l \in Listeners
  <2> TAKE m \in owed'[l]
  <2>1. CASE m \in owed[l]
    <3>1. /\ at[l] # None /\ hasOpened
          /\ conn = "up" => \E j \in DOMAIN toClient : /\ toClient[j].type = "updates"
                                                       /\ toClient[j].update = m
                                                       /\ toClient[j].scope = at[l]
      BY <1>1, <2>1 DEF OwedOk
    <3> QED
      BY <1>7, <1>8, <3>1
  <2>2. CASE m \notin owed[l]
    <3>1. at[l] = c /\ ready[c].is = "ready" /\ m = n
      BY <1>4, <2>2
    <3>2. at[l] # None /\ c \in Entries
      BY <3>1, SubscriptionsAssumption DEF Entries
    <3>3. hasOpened
      BY <1>1, <3>1 DEF PromisesOk
    <3>4. conn = "up" => M + 1 \in DOMAIN toClient' /\ toClient'[M + 1] = update
      BY <1>8, <3>1, <3>2, ReadyIsSubscribed
    <3> QED
      BY <1>6, <3>1, <3>2, <3>3, <3>4
  <2> QED
    BY <2>1, <2>2
<1> QED
  BY <1>11, <1>12, <1>13, <1>14, <1>16, <1>17, <1>18 DEF SubscriptionsInv, SocketInv

-----------------------------------------------------------------------------
(***************************************************************************)
(* The shard handles the first request.                                    *)
(***************************************************************************)
LEMMA HandledKeepsCover ==
  ASSUME SubscriptionsTypeOK, NEW how, Handled(how), UNCHANGED <<ready, pending>>,
         \/ how = "result" /\ subs' = UpdateSubscriptions(toServer[1])
         \/ how = "error" /\ subs' = subs,
         NEW c \in Scopes, Covered(c)
  PROVE  Covered(c)'
<1>0. PICK L, M : L = Len(toServer) /\ M = Len(toClient)
  OBVIOUS
<1>1. /\ L \in Nat \ {0} /\ DOMAIN toServer = 1 .. L /\ DOMAIN toServer' = 1 .. L - 1
      /\ \A i \in 1 .. L - 1 : toServer'[i] = toServer[i + 1]
      /\ M \in Nat /\ DOMAIN toClient = 1 .. M /\ DOMAIN toClient' = 1 .. M + 1
      /\ \A j \in 1 .. M : toClient'[j] = toClient[j]
      /\ toClient'[M + 1].type = how /\ toClient'[M + 1].id = toServer[1].id
  BY <1>0, ServerQueue, ClientQueue DEF Handled
<1>2. \A k : DependsOn(c, k) => DependsOn(c, k)'
  BY DEF DependsOn
<1>3. /\ \A i \in 1 .. L - 1 : i + 1 \in 1 .. L /\ i + 1 > 1
      /\ \A i \in 1 .. L : i = 1 \/ (i - 1 \in 1 .. L - 1 /\ (i - 1) + 1 = i)
      /\ 1 \in 1 .. L /\ M + 1 \in 1 .. M + 1 /\ \A j \in 1 .. M : j \in 1 .. M + 1
  BY <1>1
<1>4. NoneAbout(c) => NoneAbout(c)' /\ toServer[1].scope # c
  <2> SUFFICES ASSUME NoneAbout(c) PROVE NoneAbout(c)' /\ toServer[1].scope # c
    OBVIOUS
  <2>1. \A i \in 1 .. L : toServer[i].scope # c
    BY <1>1 DEF NoneAbout
  <2>2. \A i \in 1 .. L - 1 : toServer'[i].scope # c
    BY <1>1, <1>3, <2>1
  <2> QED
    BY <1>1, <1>3, <2>1, <2>2 DEF NoneAbout
<1>5. CASE AskedFor(c)
  <2>1. PICK i \in 1 .. L : /\ LastAbout(c, i) /\ toServer[i].type = "subscribe"
                            /\ DependsOn(c, toServer[i].id)
    BY <1>1, <1>5 DEF AskedFor
  <2>2. PICK k : k = toServer[i].id
    OBVIOUS
  <2>3. CASE i = 1
    <3>1. NoneAbout(c)'
      BY <1>1, <1>3, <2>1, <2>3 DEF LastAbout, NoneAbout
    <3>2. toServer[1].scope = c /\ toServer[1].type = "subscribe"
      BY <2>1, <2>3 DEF LastAbout
    <3>3. CASE subs' = UpdateSubscriptions(toServer[1])
      <4>1. c \in subs'
        BY <3>2, <3>3 DEF UpdateSubscriptions
      <4> QED
        BY <3>1, <4>1 DEF Covered, Subscribed
    <3>4. CASE how = "error"
      <4>1. /\ M + 1 \in DOMAIN toClient' /\ toClient'[M + 1].type = "error"
            /\ toClient'[M + 1].id = k /\ DependsOn(c, k)'
        BY <1>1, <1>2, <1>3, <2>1, <2>2, <2>3, <3>4
      <4>2. Refused(c)'
        BY <3>1, <4>1 DEF Refused, DependsOn
      <4> QED
        BY <4>2 DEF Covered
    <3> QED
      BY <3>3, <3>4
  <2>4. CASE i # 1
    <3>1. PICK h \in 1 .. L - 1 : h = i - 1 /\ h + 1 = i
      BY <1>3, <2>4
    <3>2. /\ toServer'[h].scope = c /\ toServer'[h].type = "subscribe" /\ toServer'[h].id = k
          /\ DependsOn(c, k)' /\ h \in DOMAIN toServer'
      BY <1>1, <1>2, <2>1, <2>2, <3>1 DEF LastAbout
    <3>3. ASSUME NEW j \in 1 .. L - 1, j > h
          PROVE  toServer'[j].scope # c
      <4>1. j + 1 \in 1 .. L /\ j + 1 > i
        BY <1>3, <3>1, <3>3
      <4> QED
        BY <1>1, <2>1, <4>1 DEF LastAbout
    <3>4. LastAbout(c, h)'
      BY <1>1, <3>2, <3>3 DEF LastAbout
    <3>5. AskedFor(c)'
      BY <3>2, <3>4 DEF AskedFor, DependsOn
    <3> QED
      BY <3>5 DEF Covered
  <2> QED
    BY <2>3, <2>4
<1>6. CASE Subscribed(c)
  <2>1. c \in subs'
    BY <1>4, <1>6 DEF Subscribed, UpdateSubscriptions
  <2> QED
    BY <1>4, <1>6, <2>1 DEF Covered, Subscribed
<1>7. CASE Refused(c)
  <2>1. PICK j \in 1 .. M : toClient[j].type = "error" /\ DependsOn(c, toClient[j].id)
    BY <1>1, <1>7 DEF Refused
  <2>2. PICK k : k = toClient[j].id
    OBVIOUS
  <2>3. /\ j \in DOMAIN toClient' /\ toClient'[j].type = "error" /\ toClient'[j].id = k
        /\ DependsOn(c, k)'
    BY <1>1, <1>2, <1>3, <2>1, <2>2
  <2>4. Refused(c)'
    BY <1>4, <1>7, <2>3 DEF Refused, DependsOn
  <2> QED
    BY <2>4 DEF Covered
<1> QED
  BY <1>5, <1>6, <1>7 DEF Covered

\* What holds whatever the answer is.
LEMMA HandledKeeps ==
  ASSUME SubscriptionsInv, NEW how \in {"result", "error"}, Handled(how),
         UNCHANGED <<at, ready, conn, timer, hasOpened, closed, pending, owed>>,
         \/ how = "result" /\ subs' = UpdateSubscriptions(toServer[1])
         \/ how = "error" /\ subs' = subs,
         limited' \in BOOLEAN,
         spent' \in [{"subscribes", "publishes", "faults", "refusals"} -> Nat]
  PROVE  /\ SubscriptionsTypeOK' /\ SocketInv' /\ PromisesOk' /\ EntriesCovered' /\ OwedOk'
         /\ Entries' = Entries /\ HasSocket
<1>1. SubscriptionsTypeOK /\ InOrder /\ PendingOk /\ ReplayOk /\ OwedOk /\ PromisesOk
  BY DEF SubscriptionsInv, SocketInv
<1>2. HasSocket /\ HasSocket' /\ Entries' = Entries
  <2>1. toServer # <<>>
    BY <1>1, EmptySeq DEF Handled
  <2> QED
    BY <1>1, <2>1 DEF ReplayOk, HasSocket, Entries
<1>3. SubscriptionsTypeOK'
  <2>1. 1 \in DOMAIN toServer
    BY <1>1, ServerQueue DEF Handled
  <2>2. toServer[1].scope \in Scopes
    BY <1>1, <2>1, ServerQueue
  <2>3. subs' \in SUBSET Scopes
    BY <1>1, <2>2 DEF SubscriptionsTypeOK, UpdateSubscriptions
  <2>4. IsFiniteSet(subs')
    <3>1. \A x : IsFiniteSet(subs \cup {x}) /\ IsFiniteSet(subs \ {x})
      BY <1>1, FS_AddElement, FS_RemoveElement DEF SubscriptionsTypeOK
    <3>2. IsFiniteSet(UpdateSubscriptions(toServer[1]))
      BY <3>1 DEF UpdateSubscriptions
    <3>3. IsFiniteSet(subs)
      BY <1>1 DEF SubscriptionsTypeOK
    <3> QED
      BY <3>2, <3>3
  <2> QED
    BY <1>1, <2>3, <2>4 DEF SubscriptionsTypeOK, Handled
<1>4. InOrder' /\ PendingOk'
  BY <1>1, HandledKeepsOrder
<1>5. ReplayOk'
  BY <1>1, <1>2 DEF ReplayOk
<1>6. PromisesOk'
  BY <1>1 DEF PromisesOk
<1>7. EntriesCovered'
  <2> SUFFICES ASSUME NEW c \in Entries
               PROVE  ready'[c].is = "rejected" \/ Covered(c)'
    BY <1>2 DEF EntriesCovered
  <2>1. c \in Scopes /\ ready' = ready
    BY DEF Entries
  <2>2. ready[c].is = "rejected" \/ Covered(c)
    BY <1>2 DEF SubscriptionsInv, EntriesCovered
  <2>3. Covered(c) => Covered(c)'
    BY <1>1, <2>1, HandledKeepsCover
  <2> QED
    BY <2>1, <2>2, <2>3
<1>8. OwedOk'
  <2>1. \A j \in DOMAIN toClient : j \in DOMAIN toClient' /\ toClient'[j] = toClient[j]
    BY <1>1, ClientQueue DEF Handled
  <2> QED
    BY <1>1, <2>1 DEF OwedOk
<1> QED
  BY <1>2, <1>3, <1>4, <1>5, <1>6, <1>7, <1>8 DEF SocketInv

\* The rate limiter refuses the request.
LEMMA RefuseKeeps ==
  ASSUME SubscriptionsInv, Handled("error"),
         UNCHANGED <<at, ready, conn, timer, hasOpened, closed, pending, owed, subs, limited>>,
         Suffer("refusals")
  PROVE  SubscriptionsInv'
<1>1. SubscriptionsTypeOK
  BY DEF SubscriptionsInv
<1>2. /\ spent' \in [{"subscribes", "publishes", "faults", "refusals"} -> Nat]
      /\ spent'.refusals # 0 /\ spent'.refusals > 0
  BY <1>1, SpentIs DEF SubscriptionsTypeOK
<1>3. limited' \in BOOLEAN
  BY <1>1 DEF SubscriptionsTypeOK
<1>4. /\ SubscriptionsTypeOK' /\ SocketInv' /\ PromisesOk' /\ EntriesCovered' /\ OwedOk'
  BY <1>2, <1>3, HandledKeeps
<1>5. NothingExtra' /\ Within' /\ WithinLimit'
  BY <1>2 DEF NothingExtra, Within, WithinLimit
<1> QED
  BY <1>4, <1>5 DEF SubscriptionsInv

\* The request is carried out.
LEMMA AllowKeeps ==
  ASSUME SubscriptionsInv, Handled("result"),
         UNCHANGED <<at, ready, conn, timer, hasOpened, closed, pending, owed, limited, spent>>,
         subs' = UpdateSubscriptions(toServer[1])
  PROVE  SubscriptionsInv'
<1>1. SubscriptionsTypeOK
  BY DEF SubscriptionsInv
<1>2. /\ limited' \in BOOLEAN
      /\ spent' \in [{"subscribes", "publishes", "faults", "refusals"} -> Nat]
  BY <1>1 DEF SubscriptionsTypeOK
<1>3. /\ SubscriptionsTypeOK' /\ SocketInv' /\ PromisesOk' /\ EntriesCovered' /\ OwedOk'
      /\ Entries' = Entries /\ HasSocket
  BY <1>2, HandledKeeps
<1>4. PICK L : L = Len(toServer) /\ L \in Nat \ {0} /\ Len(toServer') = L - 1
  BY DEF Handled
<1>5. ASSUME NEW m \in 0 .. L - 1
      PROVE  After(m)' = After(m + 1) /\ m + 1 \in 0 .. L
  <2>1. m \in Nat /\ m \in 0 .. Len(toServer) - 1 /\ m + 1 \in 0 .. L
    BY <1>4
  <2>2. 1 \in DOMAIN toServer
    BY <1>1, <1>4, ServerQueue
  <2> QED
    BY <1>1, <2>1, <2>2, AfterHandled
<1>6. After(Len(toServer))' = After(Len(toServer))
  <2>1. L - 1 \in 0 .. L - 1 /\ (L - 1) + 1 = L
    BY <1>4
  <2>2. After(L - 1)' = After(L)
    BY <1>5, <2>1
  <2>3. After(Len(toServer))' = After(L - 1)'
    BY <1>4 DEF After
  <2> QED
    BY <1>4, <2>2, <2>3
<1>7. NothingExtra'
  BY <1>3, <1>6 DEF SubscriptionsInv, NothingExtra
<1>8. Within'
  <2> SUFFICES ASSUME spent.refusals = 0, ~limited
               PROVE  /\ Entries' \subseteq After(Len(toServer))'
                      /\ \A m \in 0 .. Len(toServer') :
                           Cardinality(After(m)') <= Cardinality(Listeners)
    BY Zenon DEF Within
  <2>1. /\ Entries \subseteq After(Len(toServer))
        /\ \A m \in 0 .. L : Cardinality(After(m)) <= Cardinality(Listeners)
    BY <1>3, <1>4 DEF SubscriptionsInv, Within
  <2>2. \A m \in 0 .. L - 1 : Cardinality(After(m)') <= Cardinality(Listeners)
    BY <1>5, <2>1
  <2> QED
    BY <1>3, <1>4, <1>6, <2>1, <2>2
<1>9. WithinLimit'
  BY DEF SubscriptionsInv, WithinLimit
<1> QED
  BY <1>3, <1>7, <1>8, <1>9 DEF SubscriptionsInv

\* The limit refuses the subscription.
LEMMA LimitKeeps ==
  ASSUME SubscriptionsInv, Handled("error"),
         UNCHANGED <<at, ready, conn, timer, hasOpened, closed, pending, owed, subs, spent>>,
         toServer[1].type # "unsubscribe", ~SubscriptionAllowed(toServer[1].scope),
         limited' = TRUE
  PROVE  SubscriptionsInv'
<1>1. SubscriptionsTypeOK
  BY DEF SubscriptionsInv
<1>2. /\ limited' \in BOOLEAN
      /\ spent' \in [{"subscribes", "publishes", "faults", "refusals"} -> Nat]
  BY <1>1 DEF SubscriptionsTypeOK
<1>3. /\ SubscriptionsTypeOK' /\ SocketInv' /\ PromisesOk' /\ EntriesCovered' /\ OwedOk'
      /\ Entries' = Entries /\ HasSocket
  BY <1>2, HandledKeeps
<1>4. PICK L : L = Len(toServer) /\ L \in Nat \ {0} /\ Len(toServer') = L - 1
  BY DEF Handled
<1>5. 1 \in DOMAIN toServer /\ toServer[1].type = "subscribe"
  BY <1>1, <1>4, ServerQueue
<1>6. NothingExtra'
  <2>1. L - 1 \in Nat /\ L - 1 \in 0 .. Len(toServer) - 1 /\ (L - 1) + 1 = L
    BY <1>4
  <2>2. After(L - 1)' \subseteq After((L - 1) + 1)
    BY <1>1, <1>5, <2>1, AfterRefused
  <2>3. After(Len(toServer))' = After(L - 1)'
    BY <1>4 DEF After
  <2>4. After(Len(toServer))' \subseteq After(Len(toServer))
    BY <1>4, <2>1, <2>2, <2>3
  <2> QED
    BY <1>3, <2>4 DEF SubscriptionsInv, NothingExtra
<1>7. Within'
  BY DEF Within
<1>8. WithinLimit'
  <2> SUFFICES ASSUME spent.refusals = 0, ~(Cardinality(Listeners) > MaxSubs)
               PROVE  FALSE
    BY <1>1, SpentIs DEF WithinLimit
  <2>1. ~limited
    BY <1>1 DEF SubscriptionsInv, WithinLimit
  <2>2. 1 \in 0 .. Len(toServer)
    BY <1>4
  <2>3. Cardinality(After(1)) <= Cardinality(Listeners)
    BY <1>3, <2>1, <2>2 DEF SubscriptionsInv, Within
  <2>4. PICK c : c = toServer[1].scope
    OBVIOUS
  <2>5. After(1) = subs \cup {c}
    <3>1. 0 \in Nat /\ 0 + 1 = 1 /\ 0 + 1 \in DOMAIN toServer
      BY <1>5
    <3>2. After(0 + 1) = After(0) \cup {toServer[0 + 1].scope}
      BY <1>1, <1>5, <3>1, AfterNext
    <3> QED
      BY <1>1, <2>4, <3>1, <3>2, AfterNone
  <2>6. c \notin subs /\ ~(Cardinality(subs) < MaxSubs)
    BY <2>4 DEF SubscriptionAllowed
  <2>7. Cardinality(subs \cup {c}) = Cardinality(subs) + 1 /\ Cardinality(subs) \in Nat
    BY <1>1, <2>6, FS_AddElement, FS_CardinalityType DEF SubscriptionsTypeOK
  <2>8. Cardinality(Listeners) \in Nat /\ MaxSubs \in Nat
    BY SubscriptionsAssumption, FS_CardinalityType
  <2> QED
    BY <2>3, <2>5, <2>6, <2>7, <2>8
<1> QED
  BY <1>3, <1>6, <1>7, <1>8 DEF SubscriptionsInv

LEMMA HandleKeeps ==
  ASSUME SubscriptionsInv, 1 \in DOMAIN toServer, Handle(1)
  PROVE  SubscriptionsInv'
<1> DEFINE Answer(how) == toClient' = Append(toClient, [type |-> how, id |-> toServer[1].id])
<1>1. SubscriptionsTypeOK
  BY DEF SubscriptionsInv
<1>2. /\ toServer' = RemoveAt(toServer, 1)
      /\ UNCHANGED <<at, ready, conn, timer, hasOpened, closed, pending, owed>>
      /\ \/ Suffer("refusals") /\ Answer("error") /\ UNCHANGED <<subs, limited>>
         \/ /\ subs' = UpdateSubscriptions(toServer[1])
            /\ Answer("result")
            /\ UNCHANGED <<limited, spent>>
         \/ /\ toServer[1].type # "unsubscribe" /\ ~SubscriptionAllowed(toServer[1].scope)
            /\ limited' = TRUE /\ Answer("error") /\ UNCHANGED <<subs, spent>>
  BY DEF Handle
<1>3. /\ Answer("error") => Handled("error")
      /\ Answer("result") => Handled("result")
  BY <1>1, <1>2, HandledIs
<1> HIDE DEF Answer
<1> QED
  BY <1>2, <1>3, RefuseKeeps, AllowKeeps, LimitKeeps

-----------------------------------------------------------------------------
(***************************************************************************)
(* Messages to the client are taken.                                       *)
(***************************************************************************)
\* The first d messages to the client are taken: the first, or none.
Taken(d) ==
  /\ d \in {0, 1} /\ d <= Len(toClient)
  /\ toClient' \in Seq(Answers \cup Broadcasts)
  /\ DOMAIN toClient' = 1 .. Len(toClient) - d
  /\ \A j \in 1 .. Len(toClient) - d : /\ j + d \in DOMAIN toClient
                                       /\ toClient'[j] = toClient[j + d]
  /\ \A j \in DOMAIN toClient : j > d => j - d \in 1 .. Len(toClient) - d /\ (j - d) + d = j

LEMMA TakenIs ==
  ASSUME SubscriptionsTypeOK
  PROVE  /\ toClient' = toClient => Taken(0)
         /\ toClient # <<>> /\ toClient' = Tail(toClient) => Taken(1)
         /\ toClient # <<>> => Head(toClient) = toClient[1] /\ 1 \in DOMAIN toClient
<1>1. toClient \in Seq(Answers \cup Broadcasts)
  BY DEF SubscriptionsTypeOK
<1>2. PICK M : M = Len(toClient) /\ M \in Nat /\ DOMAIN toClient = 1 .. M
  BY ClientQueue
<1>3. toClient' = toClient => Taken(0)
  <2>1. M - 0 = M /\ \A j \in 1 .. M : j + 0 = j /\ j - 0 = j
    BY <1>2
  <2> QED
    BY <1>1, <1>2, <2>1 DEF Taken
<1>4. ASSUME toClient # <<>>, toClient' = Tail(toClient)
      PROVE  Taken(1)
  <2>1. M # 0
    BY <1>1, <1>2, <1>4, EmptySeq
  <2>2. /\ toClient' \in Seq(Answers \cup Broadcasts)
        /\ Len(toClient') = M - 1
        /\ \A j \in 1 .. M - 1 : toClient'[j] = toClient[j + 1]
    BY <1>1, <1>2, <1>4, HeadTailProperties
  <2>3. DOMAIN toClient' = 1 .. M - 1
    BY <2>2, LenProperties
  <2>4. /\ \A j \in 1 .. M - 1 : j + 1 \in 1 .. M
        /\ \A j \in 1 .. M : j > 1 => j - 1 \in 1 .. M - 1 /\ (j - 1) + 1 = j
    BY <1>2
  <2> QED
    BY <1>2, <2>1, <2>2, <2>3, <2>4 DEF Taken
<1>5. toClient # <<>> => Head(toClient) = toClient[1] /\ 1 \in DOMAIN toClient
  <2> SUFFICES ASSUME toClient # <<>> PROVE Head(toClient) = toClient[1] /\ 1 \in DOMAIN toClient
    OBVIOUS
  <2>1. M # 0
    BY <1>1, <1>2, EmptySeq
  <2>2. 1 \in DOMAIN toClient
    BY <1>2, <2>1
  <2> QED
    BY <1>1, <2>2, HeadTailProperties
<1> QED
  BY <1>3, <1>4, <1>5

LEMMA TakenKeepsOrder ==
  ASSUME SubscriptionsTypeOK, InOrder, PendingOk, NEW d, Taken(d),
         toServer' = toServer, pending' \subseteq pending,
         d = 1 /\ toClient[1].type # "updates" =>
           \A p \in pending' : p.id # toClient[1].id
  PROVE  InOrder' /\ PendingOk'
<1>1. \A j : IsAnswer(j)' => j \in Nat /\ IsAnswer(j + d) /\ toClient'[j] = toClient[j + d]
  BY DEF IsAnswer, Taken
<1>2. ASSUME NEW p \in pending', NEW j, IsAnswer(j), toClient[j].id = p.id
      PROVE  \E k : IsAnswer(k)' /\ toClient'[k].id = p.id
  <2>1. j \in DOMAIN toClient /\ j \in Nat /\ j > 0 /\ toClient[j].type # "updates"
    BY <1>2, ClientQueue DEF IsAnswer
  <2>2. j > d
    <3>1. CASE d = 0
      BY <2>1, <3>1
    <3>2. CASE d = 1
      <4>1. j # 1
        BY <1>2, <2>1, <3>2
      <4> QED
        BY <2>1, <3>2, <4>1
    <3> QED
      BY <3>1, <3>2 DEF Taken
  <2>3. j - d \in DOMAIN toClient' /\ toClient'[j - d] = toClient[j]
    BY <2>1, <2>2 DEF Taken
  <2>4. PICK k : k = j - d
    OBVIOUS
  <2>5. IsAnswer(k)' /\ toClient'[k].id = p.id
    BY <1>2, <2>1, <2>3, <2>4 DEF IsAnswer
  <2> QED
    BY <2>5
<1>3. d \in Nat
  BY DEF Taken
<1> QED
  BY <1>1, <1>2, <1>3, ShiftKeepsOrder

LEMMA TakenKeepsCover ==
  ASSUME SubscriptionsTypeOK, InOrder, NEW d, Taken(d),
         toServer' = toServer, subs' = subs, NEW c \in Scopes, Covered(c),
         \A k : DependsOn(c, k) =>
           \/ DependsOn(c, k)'
           \/ d = 1 /\ toClient[1].type = "result" /\ k = toClient[1].id,
         d = 1 /\ toClient[1].type = "error" => ~DependsOn(c, toClient[1].id)
  PROVE  Covered(c)'
<1>1. /\ NoneAbout(c) => NoneAbout(c)'
      /\ \A i : LastAbout(c, i) => LastAbout(c, i)'
  BY DEF NoneAbout, LastAbout
<1>2. d = 1 => 1 \in DOMAIN toClient /\ (toClient[1].type = "result" => IsAnswer(1))
  BY ClientQueue DEF Taken, IsAnswer
<1>3. CASE AskedFor(c)
  <2>1. PICK i \in DOMAIN toServer : /\ LastAbout(c, i) /\ toServer[i].type = "subscribe"
                                     /\ DependsOn(c, toServer[i].id)
    BY <1>3 DEF AskedFor
  <2>2. PICK k : k = toServer[i].id
    OBVIOUS
  <2>3. ~(d = 1 /\ toClient[1].type = "result" /\ k = toClient[1].id)
    <3> SUFFICES ASSUME d = 1, toClient[1].type = "result" PROVE k # toClient[1].id
      OBVIOUS
    <3>1. toClient[1].id < k /\ toClient[1].id \in Nat /\ k \in Nat
      BY <1>2, <2>2, ServerQueue, ClientQueue DEF InOrder
    <3> QED
      BY <3>1
  <2>4. DependsOn(c, k)' /\ toServer'[i].id = k /\ toServer'[i].type = "subscribe"
    BY <2>1, <2>2, <2>3
  <2>5. AskedFor(c)'
    BY <1>1, <2>1, <2>4 DEF AskedFor, DependsOn
  <2> QED
    BY <2>5 DEF Covered
<1>4. CASE Subscribed(c)
  BY <1>1, <1>4 DEF Subscribed, Covered
<1>5. CASE Refused(c)
  <2>1. PICK j \in DOMAIN toClient : toClient[j].type = "error" /\ DependsOn(c, toClient[j].id)
    BY <1>5 DEF Refused
  <2>2. PICK k : k = toClient[j].id
    OBVIOUS
  <2>3. IsAnswer(j) /\ j \in Nat /\ j > 0
    BY <2>1, ClientQueue DEF IsAnswer
  <2>4. j > d
    <3>1. CASE d = 0
      BY <2>3, <3>1
    <3>2. CASE d = 1
      <4>1. j # 1
        BY <2>1, <3>2
      <4> QED
        BY <2>3, <3>2, <4>1
    <3> QED
      BY <3>1, <3>2 DEF Taken
  <2>5. ~(d = 1 /\ toClient[1].type = "result" /\ k = toClient[1].id)
    <3> SUFFICES ASSUME d = 1, toClient[1].type = "result" PROVE k # toClient[1].id
      OBVIOUS
    <3>1. 1 < j
      BY <2>4
    <3>2. toClient[1].id < k /\ toClient[1].id \in Nat /\ k \in Nat
      BY <1>2, <2>2, <2>3, <3>1, ClientQueue DEF InOrder
    <3> QED
      BY <3>2
  <2>6. PICK h : h = j - d
    OBVIOUS
  <2>7. /\ h \in DOMAIN toClient' /\ toClient'[h] = toClient[j]
        /\ DependsOn(c, k)'
    BY <2>1, <2>2, <2>4, <2>5, <2>6 DEF Taken
  <2>8. toClient'[h].type = "error" /\ toClient'[h].id = k
    BY <2>1, <2>2, <2>7
  <2>9. Refused(c)'
    BY <1>1, <1>5, <2>7, <2>8 DEF Refused, DependsOn
  <2> QED
    BY <2>9 DEF Covered
<1> QED
  BY <1>3, <1>4, <1>5 DEF Covered

\* The updates that are owed stay on the socket.
LEMMA TakenKeepsUpdates ==
  ASSUME SubscriptionsTypeOK, OwedOk, NEW d, Taken(d),
         d = 1 => toClient[1].type # "updates",
         NEW l \in Listeners, NEW n \in owed[l], conn = "up"
  PROVE  \E j \in DOMAIN toClient' : /\ toClient'[j].type = "updates"
                                     /\ toClient'[j].update = n
                                     /\ toClient'[j].scope = at[l]
<1>1. PICK j \in DOMAIN toClient : /\ toClient[j].type = "updates"
                                   /\ toClient[j].update = n
                                   /\ toClient[j].scope = at[l]
  BY DEF OwedOk
<1>2. j \in Nat /\ j > 0
  BY ClientQueue
<1>3. j > d
  <2>1. CASE d = 0
    BY <1>2, <2>1
  <2>2. CASE d = 1
    <3>1. j # 1
      BY <1>1, <2>2
    <3> QED
      BY <1>2, <2>2, <3>1
  <2> QED
    BY <2>1, <2>2 DEF Taken
<1>4. j - d \in DOMAIN toClient' /\ toClient'[j - d] = toClient[j]
  BY <1>3 DEF Taken
<1> QED
  BY <1>1, <1>4

\* What is left to show when messages are taken.
LEMMA TakenKeeps ==
  ASSUME SubscriptionsInv, NEW d, Taken(d),
         UNCHANGED <<at, timer, closed, toServer, subs, limited>>,
         ready' \in [Scopes -> Promises], owed' \in [Listeners -> SUBSET Nat],
         conn' \in {"idle", "opening", "replaying", "up"}, hasOpened' \in BOOLEAN,
         spent' \in [{"subscribes", "publishes", "faults", "refusals"} -> Nat],
         spent'.refusals = spent.refusals,
         pending' \subseteq pending, HasSocket' => HasSocket,
         ReplayOk', PromisesOk', OwedOk',
         d = 1 /\ toClient[1].type # "updates" => \A p \in pending' : p.id # toClient[1].id,
         \A c \in Scopes :
           \/ ready'[c].is = "rejected"
           \/ /\ ready[c].is # "rejected"
              /\ \A k : DependsOn(c, k) =>
                   \/ DependsOn(c, k)'
                   \/ d = 1 /\ toClient[1].type = "result" /\ k = toClient[1].id
              /\ d = 1 /\ toClient[1].type = "error" => ~DependsOn(c, toClient[1].id)
  PROVE  SubscriptionsInv'
<1>1. SubscriptionsTypeOK /\ InOrder /\ PendingOk
  BY DEF SubscriptionsInv, SocketInv
<1>2. SubscriptionsTypeOK'
  BY <1>1 DEF SubscriptionsTypeOK, Taken
<1>3. InOrder' /\ PendingOk'
  BY <1>1, TakenKeepsOrder
<1>4. Entries' = Entries
  BY DEF Entries
<1>5. EntriesCovered'
  <2> SUFFICES ASSUME HasSocket, NEW c \in Entries, ready'[c].is # "rejected"
               PROVE  Covered(c)'
    BY <1>4 DEF EntriesCovered
  <2>1. c \in Scopes
    BY DEF Entries
  <2>2. Covered(c)
    BY <2>1 DEF SubscriptionsInv, EntriesCovered
  <2>3. /\ \A k : DependsOn(c, k) =>
             \/ DependsOn(c, k)'
             \/ d = 1 /\ toClient[1].type = "result" /\ k = toClient[1].id
        /\ d = 1 /\ toClient[1].type = "error" => ~DependsOn(c, toClient[1].id)
    BY <2>1
  <2> QED
    BY <1>1, <2>1, <2>2, <2>3, TakenKeepsCover
<1>6. Len(toServer)' = Len(toServer) /\ \A n : After(n)' = After(n)
  BY DEF After
<1>7. NothingExtra' /\ Within'
  BY <1>4, <1>6 DEF SubscriptionsInv, NothingExtra, Within
<1>8. WithinLimit'
  BY DEF SubscriptionsInv, WithinLimit
<1> QED
  BY <1>2, <1>3, <1>5, <1>7, <1>8 DEF SubscriptionsInv, SocketInv

\* A broadcast, or an answer that nobody waits for.
LEMMA UpdatesKeeps ==
  ASSUME SubscriptionsInv, Taken(1), toClient[1].type = "updates", Dispatch(toClient[1]),
         UNCHANGED <<at, ready, conn, timer, hasOpened, closed, pending, toServer, subs,
                     limited, spent>>
  PROVE  SubscriptionsInv'
<1>1. SubscriptionsTypeOK /\ ReplayOk /\ PromisesOk /\ OwedOk
  BY DEF SubscriptionsInv, SocketInv
<1>2. \A l \in Listeners : owed'[l] = IF at[l] = toClient[1].scope
                                      THEN owed[l] \ {toClient[1].update} ELSE owed[l]
  BY DEF Dispatch
<1>3. owed' \in [Listeners -> SUBSET Nat]
  BY <1>1 DEF Dispatch, SubscriptionsTypeOK
<1>4. ReplayOk' /\ PromisesOk' /\ (HasSocket' => HasSocket)
  BY <1>1 DEF ReplayOk, PromisesOk, HasSocket
<1>5. OwedOk'
  <2> SUFFICES ASSUME NEW l \in Listeners, NEW n \in owed'[l]
               PROVE  /\ at[l] # None /\ hasOpened
                      /\ conn = "up" => \E j \in DOMAIN toClient' :
                                          /\ toClient'[j].type = "updates"
                                          /\ toClient'[j].update = n
                                          /\ toClient'[j].scope = at[l]
    BY DEF OwedOk
  <2>1. n \in owed[l] /\ ~(at[l] = toClient[1].scope /\ n = toClient[1].update)
    BY <1>2
  <2>2. at[l] # None /\ hasOpened
    BY <1>1, <2>1 DEF OwedOk
  <2>3. ASSUME conn = "up"
        PROVE  \E j \in DOMAIN toClient' : /\ toClient'[j].type = "updates"
                                           /\ toClient'[j].update = n
                                           /\ toClient'[j].scope = at[l]
    <3>1. PICK j \in DOMAIN toClient : /\ toClient[j].type = "updates"
                                       /\ toClient[j].update = n
                                       /\ toClient[j].scope = at[l]
      BY <1>1, <2>1, <2>3 DEF OwedOk
    <3>2. j \in Nat /\ j > 0 /\ j # 1
      BY <1>1, <2>1, <3>1, ClientQueue
    <3>3. j > 1
      BY <3>2
    <3>4. j - 1 \in DOMAIN toClient' /\ toClient'[j - 1] = toClient[j]
      BY <3>3 DEF Taken
    <3> QED
      BY <3>1, <3>4
  <2> QED
    BY <2>2, <2>3
<1>6. \A c \in Scopes : \A k : DependsOn(c, k) => DependsOn(c, k)'
  BY DEF DependsOn
<1>7. /\ ready' \in [Scopes -> Promises] /\ hasOpened' \in BOOLEAN
      /\ conn' \in {"idle", "opening", "replaying", "up"}
      /\ spent' \in [{"subscribes", "publishes", "faults", "refusals"} -> Nat]
  BY <1>1 DEF SubscriptionsTypeOK
<1>8. \A c \in Scopes : ready[c].is = "rejected" => ready'[c].is = "rejected"
  OBVIOUS
<1> QED
  BY <1>3, <1>4, <1>5, <1>6, <1>7, <1>8, TakenKeeps

LEMMA StaleKeeps ==
  ASSUME SubscriptionsInv, Taken(1), toClient[1].type # "updates",
         \A p \in pending : p.id # toClient[1].id,
         UNCHANGED <<at, ready, conn, timer, hasOpened, closed, pending, toServer, subs, owed,
                     limited, spent>>
  PROVE  SubscriptionsInv'
<1>1. SubscriptionsTypeOK /\ ReplayOk /\ PromisesOk /\ OwedOk
  BY DEF SubscriptionsInv, SocketInv
<1>2. ReplayOk' /\ PromisesOk' /\ (HasSocket' => HasSocket)
  BY <1>1 DEF ReplayOk, PromisesOk, HasSocket
<1>3. OwedOk'
  <2> SUFFICES ASSUME NEW l \in Listeners, NEW n \in owed[l], conn = "up"
               PROVE  \E j \in DOMAIN toClient' : /\ toClient'[j].type = "updates"
                                                  /\ toClient'[j].update = n
                                                  /\ toClient'[j].scope = at[l]
    BY <1>1 DEF OwedOk
  <2> QED
    BY <1>1, TakenKeepsUpdates
<1>4. \A c \in Scopes : \A k : DependsOn(c, k) => DependsOn(c, k)' /\ k # toClient[1].id
  BY DEF DependsOn
<1>5. /\ ready' \in [Scopes -> Promises] /\ hasOpened' \in BOOLEAN
      /\ conn' \in {"idle", "opening", "replaying", "up"}
      /\ owed' \in [Listeners -> SUBSET Nat]
      /\ spent' \in [{"subscribes", "publishes", "faults", "refusals"} -> Nat]
  BY <1>1 DEF SubscriptionsTypeOK
<1>6. \A c \in Scopes : ready[c].is = "rejected" => ready'[c].is = "rejected"
  OBVIOUS
<1> QED
  BY <1>2, <1>3, <1>4, <1>5, <1>6, TakenKeeps

-----------------------------------------------------------------------------
(***************************************************************************)
(* A request is answered, or is given up.                                  *)
(***************************************************************************)
LEMMA SettleIs ==
  ASSUME SubscriptionsTypeOK, PromisesOk, NEW how \in {"ready", "rejected"},
         NEW r \in pending, r.by = "start", Settle(r, how)
  PROVE  /\ ready' \in [Scopes -> Promises]
         /\ \A c \in Scopes :
              \/ /\ c = r.scope /\ ready[c].of = r.id /\ ready[c].is = "pending"
                 /\ ready'[c].is = how /\ ready'[c].of = 0
              \/ ready'[c] = ready[c] /\ ~(c = r.scope /\ ready[c].of = r.id)
<1>1. r.scope \in Scopes /\ r.id \in Nat /\ r.id > 0
  BY AwaitedIs
<1>2. ready' = [ready EXCEPT ![r.scope] = IF @.of = r.id THEN Settled(how) ELSE @]
  BY DEF Settle
<1>3. Settled(how) \in Promises /\ Settled(how).is = how /\ Settled(how).of = 0
  BY DEF Settled, Promises
<1>4. ready' \in [Scopes -> Promises]
  BY <1>1, <1>2, <1>3 DEF SubscriptionsTypeOK
<1>5. ASSUME NEW c \in Scopes
      PROVE  \/ /\ c = r.scope /\ ready[c].of = r.id /\ ready[c].is = "pending"
                /\ ready'[c].is = how /\ ready'[c].of = 0
             \/ ready'[c] = ready[c] /\ ~(c = r.scope /\ ready[c].of = r.id)
  <2>1. CASE c = r.scope /\ ready[c].of = r.id
    <3>1. ready'[c] = Settled(how)
      BY <1>1, <1>2, <2>1 DEF SubscriptionsTypeOK
    <3>2. ready[c].of # 0
      BY <1>1, <2>1
    <3>3. ready[c].is = "pending"
      BY <3>2 DEF PromisesOk
    <3> QED
      BY <1>3, <2>1, <3>1, <3>3
  <2>2. CASE ~(c = r.scope /\ ready[c].of = r.id)
    <3>1. ready'[c] = ready[c]
      BY <1>1, <1>2, <2>2 DEF SubscriptionsTypeOK
    <3> QED
      BY <2>2, <3>1
  <2> QED
    BY <2>1, <2>2
<1> QED
  BY <1>4, <1>5

\* Entries that depend on other requests still do.
LEMMA OthersDepend ==
  ASSUME SubscriptionsTypeOK, PendingOk, NEW r \in pending, pending' = pending \ {r},
         NEW c \in Scopes, ready'[c].of = ready[c].of \/ ready[c].of \in {0, r.id},
         NEW k, DependsOn(c, k)
  PROVE  \/ DependsOn(c, k)'
         \/ /\ k = r.id /\ c = r.scope
            /\ r.by = "replay" \/ (r.by = "start" /\ ready[c].of = r.id)
<1>1. PICK p \in pending : /\ p.id = k /\ p.scope = c
                           /\ p.by = "replay" \/ (p.by = "start" /\ ready[c].of = k)
  BY DEF DependsOn
<1>2. CASE p = r
  BY <1>1, <1>2
<1>3. CASE p # r
  <2>1. p.id # r.id /\ p \in pending'
    BY <1>3 DEF PendingOk
  <2>2. k > 0 /\ k \in Nat
    BY <1>1, AwaitedIs
  <2>3. p.by = "start" => ready'[c].of = k
    BY <1>1, <2>1, <2>2
  <2> QED
    BY <1>1, <2>1, <2>3 DEF DependsOn
<1> QED
  BY <1>2, <1>3

LEMMA PromisesRemain ==
  ASSUME SubscriptionsTypeOK, PromisesOk, NEW r \in pending, pending' = pending \ {r},
         hasOpened => hasOpened',
         \A c \in Scopes :
           \/ /\ ready'[c] = ready[c]
              /\ r.by = "start" => ~(c = r.scope /\ ready[c].of = r.id)
           \/ ready'[c].of = 0 /\ (ready'[c].is = "ready" => hasOpened')
  PROVE  PromisesOk'
<1> SUFFICES ASSUME NEW c \in Scopes, ready'[c] = ready[c],
                    r.by = "start" => ~(c = r.scope /\ ready[c].of = r.id)
             PROVE  /\ ready'[c].of # 0 => /\ ready'[c].is = "pending"
                                           /\ \E p \in pending' : /\ p.id = ready'[c].of
                                                                  /\ p.by = "start" /\ p.scope = c
                    /\ ready'[c].is = "ready" => hasOpened'
  BY DEF PromisesOk
<1>1. ready[c].is = "ready" => hasOpened'
  BY DEF PromisesOk
<1>2. ASSUME ready[c].of # 0
      PROVE  /\ ready[c].is = "pending"
             /\ \E p \in pending' : p.id = ready[c].of /\ p.by = "start" /\ p.scope = c
  <2>1. PICK p \in pending : p.id = ready[c].of /\ p.by = "start" /\ p.scope = c
    BY <1>2 DEF PromisesOk
  <2>2. p # r
    BY <2>1
  <2> QED
    BY <1>2, <2>1, <2>2 DEF PromisesOk
<1> QED
  BY <1>1, <1>2

\* An answer to anything but a replay arrives on a connection that is up.
LEMMA AnsweredWhenUp ==
  ASSUME SubscriptionsInv, NEW r \in pending, r.by # "replay",
         1 \in DOMAIN toClient, toClient[1].type # "updates", toClient[1].id = r.id
  PROVE  conn = "up" /\ hasOpened
<1>1. SubscriptionsTypeOK /\ InOrder /\ PendingOk /\ ReplayOk
  BY DEF SubscriptionsInv, SocketInv
<1>2. conn \in {"replaying", "up"}
  BY <1>1 DEF ReplayOk, HasSocket
<1>3. conn # "replaying"
  <2> SUFFICES ASSUME conn = "replaying" PROVE FALSE
    OBVIOUS
  <2>1. PICK q \in pending : q.by = "replay"
    BY <1>1 DEF ReplayOk
  <2>2. q.id < r.id /\ q.id \in Nat /\ r.id \in Nat
    BY <1>1, <2>1, AwaitedIs DEF PendingOk
  <2>3. OnItsWay(q) /\ IsAnswer(1)
    BY <1>1 DEF PendingOk, IsAnswer
  <2>4. CASE \E i \in DOMAIN toServer : toServer[i].id = q.id
    <3>1. r.id < q.id
      BY <1>1, <2>3, <2>4 DEF InOrder
    <3> QED
      BY <2>2, <3>1
  <2>5. CASE \E j \in DOMAIN toClient : IsAnswer(j) /\ toClient[j].id = q.id
    <3>1. PICK j \in DOMAIN toClient : IsAnswer(j) /\ toClient[j].id = q.id
      BY <2>5
    <3>2. j = 1 \/ 1 < j
      BY <1>1, ClientQueue
    <3>3. CASE j = 1
      BY <2>2, <3>1, <3>3
    <3>4. CASE 1 < j
      <4>1. r.id < q.id
        BY <1>1, <2>3, <3>1, <3>4 DEF InOrder
      <4> QED
        BY <2>2, <4>1
    <3> QED
      BY <3>2, <3>3, <3>4
  <2> QED
    BY <2>3, <2>4, <2>5 DEF OnItsWay
<1> QED
  BY <1>1, <1>2, <1>3 DEF ReplayOk

LEMMA ResolveKeeps ==
  ASSUME SubscriptionsInv, Taken(1), toClient[1].type = "result",
         NEW r \in pending, toClient[1].id = r.id, Resolve(r),
         UNCHANGED <<at, closed, limited, spent>>
  PROVE  SubscriptionsInv'
<1>1. SubscriptionsTypeOK /\ PendingOk /\ ReplayOk /\ PromisesOk /\ OwedOk
  BY DEF SubscriptionsInv, SocketInv
<1>2. /\ pending' = pending \ {r} /\ pending' \subseteq pending
      /\ UNCHANGED <<timer, toServer, subs>>
  BY DEF Resolve
<1>3. HasSocket
  BY <1>1 DEF ReplayOk
<1>4. 1 \in DOMAIN toClient
  BY <1>1, ClientQueue DEF Taken
<1>5. \A p \in pending' : p.id # toClient[1].id
  BY <1>1, <1>2 DEF PendingOk
<1> DEFINE last == r.by = "replay" /\ \A other \in pending \ {r} : other.by # "replay"
<1>6. /\ ready' \in [Scopes -> Promises] /\ owed' \in [Listeners -> SUBSET Nat]
      /\ conn' \in {"idle", "opening", "replaying", "up"} /\ hasOpened' \in BOOLEAN
      /\ hasOpened => hasOpened'
      /\ \A c \in Scopes :
           \/ /\ ready'[c] = ready[c]
              /\ r.by = "start" => ~(c = r.scope /\ ready[c].of = r.id)
           \/ /\ ready[c].is = "pending" /\ ready[c].of \in {0, r.id}
              /\ ready'[c].of = 0 /\ ready'[c].is = "ready" /\ hasOpened'
  <2>1. CASE last
    <3>1. Replayed /\ r.by = "replay"
      BY <2>1 DEF Resolve
    <3> QED
      BY <1>1, <3>1, ReplayedIs
  <2>2. CASE ~last /\ r.by = "start"
    <3>1. Settle(r, "ready") /\ UNCHANGED <<conn, hasOpened, owed>>
      BY <2>2 DEF Resolve
    <3>2. hasOpened
      BY <1>4, <2>2, AnsweredWhenUp
    <3>3. ready' \in [Scopes -> Promises] /\
          \A c \in Scopes :
            \/ /\ c = r.scope /\ ready[c].of = r.id /\ ready[c].is = "pending"
               /\ ready'[c].is = "ready" /\ ready'[c].of = 0
            \/ ready'[c] = ready[c] /\ ~(c = r.scope /\ ready[c].of = r.id)
      BY <1>1, <2>2, <3>1, SettleIs
    <3>4. /\ owed' \in [Listeners -> SUBSET Nat]
          /\ conn' \in {"idle", "opening", "replaying", "up"} /\ hasOpened' \in BOOLEAN
      BY <1>1, <3>1 DEF SubscriptionsTypeOK
    <3> QED
      BY <3>1, <3>2, <3>3, <3>4
  <2>3. CASE ~last /\ r.by # "start"
    <3>1. UNCHANGED <<ready, conn, hasOpened, owed>>
      BY <2>3 DEF Resolve
    <3> QED
      BY <1>1, <2>3, <3>1 DEF SubscriptionsTypeOK
  <2> QED
    BY <2>1, <2>2, <2>3
<1>7. PromisesOk'
  BY <1>1, <1>2, <1>6, PromisesRemain
<1>8. ReplayOk'
  <2>1. CASE last
    <3>1. conn' = "up" /\ hasOpened' /\ \A p \in pending' : p.by # "replay"
      <4>1. Replayed
        BY <2>1 DEF Resolve
      <4> QED
        BY <1>1, <1>2, <2>1, <4>1, ReplayedIs
    <3> QED
      BY <3>1 DEF ReplayOk, HasSocket
  <2>2. CASE ~last
    <3>1. conn' = conn /\ hasOpened' = hasOpened
      BY <2>2 DEF Resolve
    <3>2. conn = "replaying" => \E p \in pending' : p.by = "replay"
      <4>1. CASE r.by = "replay"
        BY <1>2, <2>2, <4>1
      <4>2. CASE r.by # "replay"
        BY <1>1, <1>2, <4>2 DEF ReplayOk
      <4> QED
        BY <4>1, <4>2
    <3>3. HasSocket'
      BY <1>3, <3>1 DEF HasSocket
    <3> QED
      BY <1>1, <1>2, <3>1, <3>2, <3>3 DEF ReplayOk
  <2> QED
    BY <2>1, <2>2
<1>9. OwedOk'
  <2>1. CASE last
    <3>1. Replayed
      BY <2>1 DEF Resolve
    <3>2. \A l \in Listeners : owed'[l] = {}
      BY <1>1, <3>1, ReplayedIs
    <3> QED
      BY <3>2 DEF OwedOk
  <2>2. CASE ~last
    <3>1. UNCHANGED <<conn, hasOpened, owed>>
      BY <2>2 DEF Resolve
    <3>2. \A l \in Listeners : \A n \in owed[l] : conn = "up" =>
            \E j \in DOMAIN toClient' : /\ toClient'[j].type = "updates"
                                        /\ toClient'[j].update = n
                                        /\ toClient'[j].scope = at[l]
      BY <1>1, TakenKeepsUpdates
    <3> QED
      BY <1>1, <3>1, <3>2 DEF OwedOk
  <2> QED
    BY <2>1, <2>2
<1>10. ASSUME NEW c \in Scopes, ready'[c].is # "rejected"
       PROVE  /\ ready[c].is # "rejected"
              /\ \A k : DependsOn(c, k) => DependsOn(c, k)' \/ k = toClient[1].id
  <2>1. ready[c].is # "rejected"
    BY <1>6, <1>10
  <2>2. ready'[c].of = ready[c].of \/ ready[c].of \in {0, r.id}
    BY <1>6
  <2> QED
    BY <1>1, <1>2, <2>1, <2>2, OthersDepend
<1>11. /\ spent' \in [{"subscribes", "publishes", "faults", "refusals"} -> Nat]
       /\ spent'.refusals = spent.refusals
  BY <1>1 DEF SubscriptionsTypeOK
<1> HIDE DEF last
<1> QED
  BY <1>2, <1>3, <1>5, <1>6, <1>7, <1>8, <1>9, <1>10, <1>11, TakenKeeps

\* The request of a listener fails: by an error, or by a timeout.
LEMMA RejectKeeps ==
  ASSUME SubscriptionsInv, NEW d, Taken(d), NEW r \in pending, r.by # "replay",
         d = 1 => toClient[1].type = "error" /\ toClient[1].id = r.id,
         pending' = pending \ {r},
         IF r.by = "start" THEN Settle(r, "rejected") ELSE UNCHANGED ready,
         UNCHANGED <<conn, timer, hasOpened, owed, toServer, subs, at, closed, limited>>,
         Suffer("faults") \/ UNCHANGED spent
  PROVE  SubscriptionsInv'
<1>1. SubscriptionsTypeOK /\ PendingOk /\ ReplayOk /\ PromisesOk /\ OwedOk
  BY DEF SubscriptionsInv, SocketInv
<1>2. \A p \in pending' : p.id # r.id
  BY <1>1 DEF PendingOk
<1>3. /\ ready' \in [Scopes -> Promises]
      /\ \A c \in Scopes :
           \/ /\ ready'[c] = ready[c]
              /\ r.by = "start" => ~(c = r.scope /\ ready[c].of = r.id)
           \/ ready'[c].of = 0 /\ ready'[c].is = "rejected"
  <2>1. CASE r.by = "start"
    BY <1>1, <2>1, SettleIs
  <2>2. CASE r.by # "start"
    BY <1>1, <2>2 DEF SubscriptionsTypeOK
  <2> QED
    BY <2>1, <2>2
<1>4. PromisesOk'
  BY <1>1, <1>3, PromisesRemain
<1>5. ReplayOk' /\ (HasSocket' => HasSocket)
  BY <1>1 DEF ReplayOk, HasSocket
<1>6. OwedOk'
  <2>1. \A l \in Listeners : \A n \in owed[l] : conn = "up" =>
          \E j \in DOMAIN toClient' : /\ toClient'[j].type = "updates"
                                      /\ toClient'[j].update = n
                                      /\ toClient'[j].scope = at[l]
    BY <1>1, TakenKeepsUpdates
  <2> QED
    BY <1>1, <2>1 DEF OwedOk
<1>7. ASSUME NEW c \in Scopes, ready'[c].is # "rejected"
      PROVE  /\ ready[c].is # "rejected"
             /\ \A k : DependsOn(c, k) => DependsOn(c, k)' /\ k # r.id
  <2>1. /\ ready'[c] = ready[c]
        /\ r.by = "start" => ~(c = r.scope /\ ready[c].of = r.id)
    BY <1>3, <1>7
  <2>2. ASSUME NEW k, DependsOn(c, k)
        PROVE  DependsOn(c, k)' /\ k # r.id
    <3>1. DependsOn(c, k)'
      BY <1>1, <2>1, <2>2, OthersDepend
    <3>2. k # r.id
      BY <1>2, <3>1 DEF DependsOn
    <3> QED
      BY <3>1, <3>2
  <2> QED
    BY <1>7, <2>1, <2>2
<1>8. /\ spent' \in [{"subscribes", "publishes", "faults", "refusals"} -> Nat]
      /\ spent'.refusals = spent.refusals
  BY <1>1, SpentIs
<1>9. /\ owed' \in [Listeners -> SUBSET Nat] /\ hasOpened' \in BOOLEAN
      /\ conn' \in {"idle", "opening", "replaying", "up"}
  BY <1>1 DEF SubscriptionsTypeOK
<1>10. d = 1 /\ toClient[1].type # "updates" => \A p \in pending' : p.id # toClient[1].id
  BY <1>2
<1>11. \A c \in Scopes :
         \/ ready'[c].is = "rejected"
         \/ /\ ready[c].is # "rejected"
            /\ \A k : DependsOn(c, k) =>
                 \/ DependsOn(c, k)'
                 \/ d = 1 /\ toClient[1].type = "result" /\ k = toClient[1].id
            /\ d = 1 /\ toClient[1].type = "error" => ~DependsOn(c, toClient[1].id)
  BY <1>7
<1> QED
  BY <1>3, <1>4, <1>5, <1>6, <1>8, <1>9, <1>10, <1>11, TakenKeeps

LEMMA TimeoutKeeps ==
  ASSUME SubscriptionsInv, NEW r \in pending, Timeout(r)
  PROVE  SubscriptionsInv'
<1>1. SubscriptionsTypeOK
  BY DEF SubscriptionsInv
<1>2. CASE r.by = "replay"
  <2>1. /\ CloseSocket(TRUE) /\ UNCHANGED <<at, hasOpened, closed, owed, limited>>
        /\ Suffer("faults")
    BY <1>2 DEF Timeout, RejectRequest
  <2> QED
    BY <2>1, CloseSocketKeeps
<1>3. CASE r.by # "replay"
  <2>1. /\ pending' = pending \ {r}
        /\ IF r.by = "start" THEN Settle(r, "rejected") ELSE UNCHANGED ready
        /\ toClient' = toClient
        /\ UNCHANGED <<conn, timer, hasOpened, owed, toServer, subs, at, closed, limited>>
        /\ Suffer("faults")
    BY <1>3 DEF Timeout, RejectRequest
  <2>2. Taken(0)
    BY <1>1, <2>1, TakenIs
  <2> QED
    BY <1>3, <2>1, <2>2, RejectKeeps
<1> QED
  BY <1>2, <1>3

LEMMA DeliverKeeps == SubscriptionsInv /\ Deliver => SubscriptionsInv'
<1> SUFFICES ASSUME SubscriptionsInv, Deliver PROVE SubscriptionsInv'
  OBVIOUS
<1>1. SubscriptionsTypeOK
  BY DEF SubscriptionsInv
<1>2. PICK message : message = Head(toClient)
  OBVIOUS
<1> DEFINE asked == {request \in pending : message.type # "updates" /\ request.id = message.id}
<1>3. /\ toClient # <<>>
      /\ UNCHANGED <<at, closed, limited, spent>>
      /\ \/ /\ message.type = "updates" /\ Dispatch(message) /\ toClient' = Tail(toClient)
            /\ UNCHANGED <<ready, conn, timer, hasOpened, pending, toServer, subs>>
         \/ /\ message.type = "result"
            /\ \E request \in asked : Resolve(request)
            /\ toClient' = Tail(toClient)
         \/ /\ message.type = "error"
            /\ \E request \in asked : RejectRequest(request, Tail(toClient))
         \/ /\ message.type # "updates" /\ asked = {} /\ toClient' = Tail(toClient)
            /\ UNCHANGED <<ready, conn, timer, hasOpened, pending, toServer, subs, owed>>
  BY <1>2 DEF Deliver
<1>4. message = toClient[1] /\ (toClient' = Tail(toClient) => Taken(1))
  BY <1>1, <1>2, <1>3, TakenIs
<1>5. CASE /\ message.type = "updates" /\ Dispatch(message) /\ toClient' = Tail(toClient)
           /\ UNCHANGED <<ready, conn, timer, hasOpened, pending, toServer, subs>>
  BY <1>3, <1>4, <1>5, UpdatesKeeps
<1>6. CASE /\ message.type = "result" /\ toClient' = Tail(toClient)
           /\ \E request \in asked : Resolve(request)
  <2>1. PICK r \in pending : message.id = r.id /\ Resolve(r)
    BY <1>6
  <2> QED
    BY <1>3, <1>4, <1>6, <2>1, ResolveKeeps
<1>7. CASE /\ message.type = "error"
           /\ \E request \in asked : RejectRequest(request, Tail(toClient))
  <2>1. PICK r \in pending : message.id = r.id /\ RejectRequest(r, Tail(toClient))
    BY <1>7
  <2>2. CASE r.by = "replay"
    <3>1. /\ CloseSocket(TRUE) /\ UNCHANGED <<at, hasOpened, closed, owed, limited>>
          /\ UNCHANGED spent
      BY <1>3, <2>1, <2>2 DEF RejectRequest
    <3> QED
      BY <3>1, CloseSocketKeeps
  <2>3. CASE r.by # "replay"
    <3>1. /\ pending' = pending \ {r}
          /\ IF r.by = "start" THEN Settle(r, "rejected") ELSE UNCHANGED ready
          /\ toClient' = Tail(toClient)
          /\ UNCHANGED <<conn, timer, hasOpened, owed, toServer, subs, at, closed, limited>>
          /\ UNCHANGED spent
      BY <1>3, <2>1, <2>3 DEF RejectRequest
    <3>2. Taken(1) /\ toClient[1].type = "error" /\ toClient[1].id = r.id
      BY <1>4, <1>7, <2>1, <3>1
    <3> QED
      BY <2>3, <3>1, <3>2, RejectKeeps
  <2> QED
    BY <2>2, <2>3
<1>8. CASE /\ message.type # "updates" /\ asked = {} /\ toClient' = Tail(toClient)
           /\ UNCHANGED <<ready, conn, timer, hasOpened, pending, toServer, subs, owed>>
  <2>1. \A p \in pending : p.id # toClient[1].id
    BY <1>4, <1>8
  <2> QED
    BY <1>3, <1>4, <1>8, <2>1, StaleKeeps
<1> HIDE DEF asked
<1> QED
  BY <1>3, <1>5, <1>6, <1>7, <1>8

-----------------------------------------------------------------------------
(***************************************************************************)
(* The theorems, for requests that are handled in the order in which they  *)
(* were sent.                                                              *)
(***************************************************************************)
LEMMA InitIs == Init => SubscriptionsInv
<1> SUFFICES ASSUME Init PROVE SubscriptionsInv
  OBVIOUS
<1>1. /\ at = [l \in Listeners |-> None] /\ ready = [c \in Scopes |-> NoPromise]
      /\ conn = "idle" /\ timer = FALSE /\ hasOpened = FALSE /\ closed = FALSE
      /\ limited = FALSE /\ pending = {} /\ toServer = <<>> /\ toClient = <<>> /\ subs = {}
      /\ owed = [l \in Listeners |-> {}]
      /\ spent = [subscribes |-> 0, publishes |-> 0, faults |-> 0, refusals |-> 0]
  BY DEF Init
<1>2. DOMAIN toServer = {} /\ DOMAIN toClient = {}
  BY <1>1
<1>3. SubscriptionsTypeOK
  <2>1. NoPromise \in Promises
    BY DEF NoPromise, Promises
  <2>2. <<>> \in Seq(Requests) /\ <<>> \in Seq(Answers \cup Broadcasts)
    BY EmptySeq
  <2>3. IsFiniteSet({})
    BY FS_EmptySet
  <2>4. spent \in [{"subscribes", "publishes", "faults", "refusals"} -> Nat]
    BY <1>1
  <2>5. /\ ready \in [Scopes -> Promises] /\ at \in [Listeners -> Scopes \cup {None}]
        /\ owed \in [Listeners -> SUBSET Nat]
    BY <1>1, <2>1
  <2> QED
    BY <1>1, <2>2, <2>3, <2>4, <2>5 DEF SubscriptionsTypeOK
<1>4. ~HasSocket
  BY <1>1 DEF HasSocket
<1>5. SocketInv
  <2>1. Bounded(0)
    BY <1>1, <1>2 DEF Bounded
  <2> QED
    BY <1>1, <1>2, <1>4, <2>1 DEF SocketInv, InOrder, PendingOk, ReplayOk
<1>6. PromisesOk
  BY <1>1 DEF PromisesOk, NoPromise
<1>7. OwedOk
  BY <1>1 DEF OwedOk
<1> QED
  BY <1>1, <1>3, <1>4, <1>5, <1>6, <1>7
     DEF SubscriptionsInv, EntriesCovered, NothingExtra, Within, WithinLimit

LEMMA StutterKeeps == SubscriptionsInv /\ UNCHANGED vars => SubscriptionsInv'
<1> SUFFICES ASSUME SubscriptionsInv, UNCHANGED vars PROVE SubscriptionsInv'
  OBVIOUS
<1>1. UNCHANGED <<at, ready, conn, timer, hasOpened, closed, pending, toServer, toClient,
                  subs, owed, limited, spent>>
  BY DEF vars
<1>2. SubscriptionsTypeOK'
  BY <1>1 DEF SubscriptionsInv, SubscriptionsTypeOK
<1>3. Entries' = Entries
  BY <1>1 DEF Entries
<1>4. /\ UNCHANGED <<hasOpened, pending, toServer, toClient, subs, limited>>
      /\ conn' = conn /\ spent'.refusals = spent.refusals
      /\ \A c \in Scopes : ready'[c] = ready[c]
      /\ \A l \in Listeners : \A n \in owed'[l] : n \in owed[l] /\ at'[l] = at[l]
  BY <1>1
<1> QED
  BY <1>2, <1>3, <1>4, QuietKeeps

\* The inductive invariant: requests and answers keep their order, every entry
\* is covered by a request, by the attachment or by a refusal, and what the
\* shard will have after the first requests never exceeds the listeners.
THEOREM SubscriptionsInvariance ==
  ASSUME ~Reorders PROVE Spec => []SubscriptionsInv
<1>1. ASSUME SubscriptionsInv, Next
      PROVE  SubscriptionsInv'
  <2>1. CASE User
    <3>1. CASE \E l \in Listeners, c \in Scopes : Subscribe(l, c)
      BY <1>1, <3>1, SubscribeKeeps
    <3>2. CASE \E l \in Listeners : Unsubscribe(l)
      BY <1>1, <3>2, UnsubscribeKeeps
    <3>3. CASE Close
      BY <1>1, <3>3, CloseKeeps
    <3>4. CASE \E c \in Scopes : Publish(c)
      BY <1>1, <3>4, PublishKeeps
    <3> QED
      BY <2>1, <3>1, <3>2, <3>3, <3>4 DEF User
  <2>2. CASE Fault
    BY <1>1, <2>2, DropKeeps, ConnectFailsKeeps, TimeoutKeeps DEF Fault
  <2>3. CASE Connected
    BY <1>1, <2>3, ConnectedKeeps
  <2>4. CASE TimerFires
    BY <1>1, <2>4, TimerFiresKeeps
  <2>5. CASE HandleNext
    <3>1. 1 \in DOMAIN toServer /\ Handle(1)
      BY <2>5 DEF HandleNext
    <3> QED
      BY <1>1, <3>1, HandleKeeps
  <2>6. CASE Deliver
    BY <1>1, <2>6, DeliverKeeps
  <2> QED
    BY <1>1, <2>1, <2>2, <2>3, <2>4, <2>5, <2>6 DEF Next
<1> QED
  BY <1>1, InitIs, StutterKeeps, PTL DEF Spec

\* Once nothing is on its way, the shard subscribes the socket to every scope
\* that somebody listens to and whose subscription did not fail, and, unless
\* the rate limiter refused a request, to no other.
THEOREM SubscriptionsAgreeHolds ==
  ASSUME ~Reorders PROVE Spec => []SubscriptionsAgree
<1>1. SubscriptionsInv => SubscriptionsAgree
  <2> SUFFICES ASSUME SubscriptionsInv, AtRest
               PROVE  /\ {c \in Entries : ready[c].is # "rejected"} \subseteq subs
                      /\ spent.refusals = 0 => subs \subseteq Entries
    BY DEF SubscriptionsAgree
  <2>1. HasSocket /\ DOMAIN toServer = {} /\ DOMAIN toClient = {} /\ Len(toServer) = 0
    BY EmptySeq DEF AtRest, HasSocket
  <2>2. ASSUME NEW c \in Entries, ready[c].is # "rejected"
        PROVE  c \in subs
    <3>1. Covered(c)
      BY <2>1, <2>2 DEF SubscriptionsInv, EntriesCovered
    <3> QED
      BY <2>1, <3>1 DEF Covered, AskedFor, Subscribed, Refused
  <2>3. After(0) = subs
    BY AfterNone DEF SubscriptionsInv
  <2> QED
    BY <2>1, <2>2, <2>3 DEF SubscriptionsInv, NothingExtra
<1> QED
  BY <1>1, SubscriptionsInvariance, PTL

\* No update is missed: once nothing is on its way, none that was published
\* since a listener was ready is owed to it.
THEOREM NothingMissedHolds ==
  ASSUME ~Reorders PROVE Spec => []NothingMissed
<1>1. SubscriptionsInv => NothingMissed
  <2> SUFFICES ASSUME SubscriptionsInv, AtRest, NEW l \in Listeners
               PROVE  owed[l] = {}
    BY DEF NothingMissed
  <2>1. conn = "up" /\ DOMAIN toClient = {}
    BY DEF AtRest
  <2> QED
    BY <2>1 DEF SubscriptionsInv, OwedOk
<1> QED
  BY <1>1, SubscriptionsInvariance, PTL

\* The limit refuses nobody who keeps within it.
THEOREM WithinLimitHolds ==
  ASSUME ~Reorders PROVE Spec => []WithinLimit
<1>1. SubscriptionsInv => WithinLimit
  BY DEF SubscriptionsInv
<1> QED
  BY <1>1, SubscriptionsInvariance, PTL

-----------------------------------------------------------------------------
(***************************************************************************)
(* The connect loop makes no more than its attempts.                       *)
(***************************************************************************)
LoopOK == loop \in [attempt : 0 .. MaxAttempts - 1, joined : BOOLEAN, gaveUp : BOOLEAN]

LEMMA OpenKeepsLoop ==
  ASSUME LoopOK, NEW byTimer \in BOOLEAN, Open(byTimer)
  PROVE  LoopOK'
<1>1. CASE loop' = NewLoop(byTimer)
  BY <1>1, SubscriptionsAssumption DEF LoopOK, NewLoop
<1>2. CASE loop' = [loop EXCEPT !.joined = @ \/ (byTimer /\ conn = "opening" /\ ~closed)]
  BY <1>2 DEF LoopOK
<1> QED
  BY <1>1, <1>2 DEF Open

LEMMA AttemptFailsKeepsLoop ==
  ASSUME LoopOK, NEW reschedules \in BOOLEAN, AttemptFails(reschedules)
  PROVE  LoopOK'
<1>1. CASE loop.attempt + 1 = MaxAttempts
  <2>1. loop' = [attempt |-> 0, joined |-> FALSE, gaveUp |-> ~reschedules]
    BY <1>1 DEF AttemptFails
  <2> QED
    BY <2>1, SubscriptionsAssumption DEF LoopOK
<1>2. CASE loop.attempt + 1 # MaxAttempts
  <2>1. loop' = [loop EXCEPT !.attempt = @ + 1]
    BY <1>2 DEF AttemptFails
  <2> QED
    BY <1>2, <2>1, SubscriptionsAssumption DEF LoopOK
<1> QED
  BY <1>1, <1>2

LEMMA CloseSocketKeepsLoop ==
  ASSUME LoopOK, NEW refused \in BOOLEAN, CloseSocket(refused)
  PROVE  LoopOK'
<1>1. CASE conn = "up"
  BY <1>1 DEF CloseSocket, LoopOK
<1>2. CASE conn # "up"
  <2>1. AttemptFails(loop.joined \/ refused) /\ (loop.joined \/ refused) \in BOOLEAN
    BY <1>2 DEF CloseSocket, LoopOK
  <2> QED
    BY <2>1, AttemptFailsKeepsLoop
<1> QED
  BY <1>1, <1>2

LEMMA NewLoopIs == NewLoop(FALSE) \in [attempt : 0 .. MaxAttempts - 1, joined : BOOLEAN, gaveUp : BOOLEAN]
BY SubscriptionsAssumption DEF NewLoop

\* A loop never makes more attempts than it may, whatever fails or is refused.
THEOREM LoopBounded == Spec => []LoopOK
<1>1. Init => LoopOK
  BY NewLoopIs DEF Init, LoopOK
<1>2. LoopOK /\ [Next]_vars => LoopOK'
  <2> SUFFICES ASSUME LoopOK, [Next]_vars PROVE LoopOK'
    OBVIOUS
  <2>1. (loop' = loop \/ loop' = NewLoop(FALSE)) => LoopOK'
    BY NewLoopIs DEF LoopOK
  <2>2. ASSUME NEW l \in Listeners, NEW c \in Scopes, Subscribe(l, c)
        PROVE  LoopOK'
    <3>1. loop' = loop \/ Open(FALSE)
      BY <2>2 DEF Subscribe
    <3> QED
      BY <2>1, <3>1, OpenKeepsLoop
  <2>3. CASE Close
    <3>1. UNCHANGED loop \/ AttemptFails(FALSE)
      BY <2>3 DEF Close
    <3> QED
      BY <2>1, <3>1, AttemptFailsKeepsLoop
  <2>4. CASE Drop \/ ConnectFails
    BY <2>4, CloseSocketKeepsLoop DEF Drop, ConnectFails
  <2>5. ASSUME NEW r \in pending, NEW rest, RejectRequest(r, rest)
        PROVE  LoopOK'
    <3>1. loop' = loop \/ CloseSocket(TRUE)
      BY <2>5 DEF RejectRequest
    <3> QED
      BY <2>1, <3>1, CloseSocketKeepsLoop
  <2>6. ASSUME NEW r \in pending, Timeout(r)
        PROVE  LoopOK'
    BY <2>5, <2>6 DEF Timeout
  <2>7. CASE Connected
    BY <2>1, <2>7 DEF Connected, Replayed
  <2>8. CASE TimerFires
    BY <2>8, OpenKeepsLoop DEF TimerFires
  <2>9. CASE Deliver
    <3>1. \/ UNCHANGED loop
          \/ \E r \in pending : Resolve(r)
          \/ \E r \in pending : RejectRequest(r, Tail(toClient))
      BY <2>9 DEF Deliver
    <3>2. ASSUME NEW r \in pending, Resolve(r)
          PROVE  loop' = loop \/ loop' = NewLoop(FALSE)
      BY <3>2 DEF Resolve, Replayed
    <3> QED
      BY <2>1, <2>5, <3>1, <3>2
  <2>10. \/ \E l \in Listeners : Unsubscribe(l)
         \/ \E c \in Scopes : Publish(c)
         \/ HandleNext \/ UNCHANGED vars
         => loop' = loop
    BY DEF Unsubscribe, Publish, HandleNext, Handle, vars
  <2> QED
    BY <2>1, <2>2, <2>3, <2>4, <2>6, <2>7, <2>8, <2>9, <2>10 DEF Next, User, Fault
<1> QED
  BY <1>1, <1>2, PTL DEF Spec

-----------------------------------------------------------------------------
(***************************************************************************)
(* The client is never stranded, in whichever order requests are handled.  *)
(***************************************************************************)
ListeningOK == at \in [Listeners -> Scopes \cup {None}]

\* Whoever listens has a socket, or something runs that will open one: no step
\* leaves the connection idle without the timer, unless close() was called,
\* nobody listens, or a connect loop has run out of its attempts that no callback
\* of the timer awaited.
THEOREM NeverStrandedHolds == Spec => []NeverStranded
<1>1. Init => ListeningOK /\ NeverStranded
  <2> SUFFICES ASSUME at = [l \in Listeners |-> None]
               PROVE  ListeningOK /\ NeverStranded
    BY DEF Init
  <2>1. ListeningOK
    BY DEF ListeningOK
  <2>2. Entries = {}
    BY SubscriptionsAssumption DEF Entries
  <2> QED
    BY <2>1, <2>2 DEF NeverStranded
<1>2. ListeningOK /\ [Next]_vars => ListeningOK'
  <2> SUFFICES ASSUME ListeningOK, [Next]_vars PROVE ListeningOK'
    OBVIOUS
  <2>1. \A l \in Listeners, c \in Scopes : Subscribe(l, c) => ListeningOK'
    BY DEF Subscribe, ListeningOK
  <2>2. \A l \in Listeners : Unsubscribe(l) => ListeningOK'
    BY DEF Unsubscribe, ListeningOK
  <2>3. \/ Close \/ \E c \in Scopes : Publish(c)
        \/ Drop \/ ConnectFails \/ \E r \in pending : Timeout(r)
        \/ Connected \/ TimerFires \/ HandleNext \/ Deliver \/ UNCHANGED vars
        => at' = at
    BY DEF Close, Publish, Drop, ConnectFails, Timeout, Connected, TimerFires, HandleNext,
              Handle, Deliver, vars
  <2>4. at' = at => ListeningOK'
    BY DEF ListeningOK
  <2> QED
    BY <2>1, <2>2, <2>3, <2>4 DEF Next, User, Fault
<1>3. ListeningOK /\ NeverStranded /\ [Next]_vars => NeverStranded'
  <2> SUFFICES ASSUME ListeningOK, NeverStranded, [Next]_vars PROVE NeverStranded'
    OBVIOUS
  <2>1. ASSUME NEW l \in Listeners, NEW c \in Scopes, Subscribe(l, c)
        PROVE  NeverStranded'
    <3>1. closed' = closed /\ timer' = timer
      BY <2>1 DEF Subscribe
    <3>2. CASE c \in Entries
      <4>1. conn' = conn /\ loop' = loop
        BY <2>1, <3>2 DEF Subscribe
      <4> QED
        BY <3>1, <3>2, <4>1 DEF NeverStranded
    <3>3. CASE c \notin Entries /\ HasSocket
      <4>1. conn' # "idle"
        BY <2>1, <3>3 DEF Subscribe, HasSocket
      <4> QED
        BY <4>1 DEF NeverStranded
    <3>4. CASE c \notin Entries /\ ~HasSocket
      <4>1. closed \/ conn' # "idle"
        BY <2>1, <3>4 DEF Subscribe, Open, HasSocket
      <4> QED
        BY <3>1, <4>1 DEF NeverStranded
    <3> QED
      BY <3>2, <3>3, <3>4
  <2>2. ASSUME NEW l \in Listeners, Unsubscribe(l)
        PROVE  NeverStranded'
    <3>1. /\ at' = [at EXCEPT ![l] = None]
          /\ closed' = closed /\ timer' = timer /\ conn' = conn /\ loop' = loop
      BY <2>2 DEF Unsubscribe
    <3>2. Entries' \subseteq Entries
      BY <3>1, SubscriptionsAssumption DEF ListeningOK, Entries
    <3> QED
      BY <3>1, <3>2 DEF NeverStranded
  <2>3. CASE Close
    BY <2>3 DEF Close, NeverStranded
  <2>4. ASSUME NEW c \in Scopes, Publish(c)
        PROVE  NeverStranded'
    BY <2>4 DEF Publish, NeverStranded, Entries
  <2>5. ASSUME NEW refused, CloseSocket(refused), at' = at, closed' = closed
        PROVE  NeverStranded'
    <3>1. Entries' = Entries
      BY <2>5 DEF Entries
    <3>2. CASE conn = "up" \/ loop.joined \/ refused
      <4>1. timer' = (timer \/ (conn' = "idle" /\ ~closed /\ Entries # {}))
        BY <2>5, <3>2 DEF CloseSocket, ScheduleReconnect
      <4> QED
        BY <2>5, <3>1, <4>1 DEF NeverStranded
    <3>3. CASE ~(conn = "up" \/ loop.joined \/ refused)
      <4>1. conn' # "idle" \/ loop'.gaveUp
        <5>1. AttemptFails(loop.joined \/ refused)
          BY <2>5, <3>3 DEF CloseSocket
        <5>2. CASE loop.attempt + 1 = MaxAttempts
          <6>1. loop' = [attempt |-> 0, joined |-> FALSE, gaveUp |-> ~(loop.joined \/ refused)]
            BY <5>1, <5>2 DEF AttemptFails
          <6>2. loop'.gaveUp = ~(loop.joined \/ refused)
            BY <6>1
          <6> QED
            BY <3>3, <6>2, Zenon
        <5>3. CASE loop.attempt + 1 # MaxAttempts
          BY <5>1, <5>3 DEF AttemptFails
        <5> QED
          BY <5>2, <5>3
      <4> QED
        BY <4>1 DEF NeverStranded
    <3> QED
      BY <3>2, <3>3
  <2>6. CASE Drop \/ ConnectFails
    BY <2>5, <2>6 DEF Drop, ConnectFails
  <2>7. ASSUME NEW r \in pending, Timeout(r)
        PROVE  NeverStranded'
    <3>1. at' = at /\ closed' = closed /\ RejectRequest(r, toClient)
      BY <2>7 DEF Timeout
    <3>2. CASE r.by = "replay"
      BY <2>5, <3>1, <3>2 DEF RejectRequest
    <3>3. CASE r.by # "replay"
      BY <3>1, <3>3 DEF RejectRequest, NeverStranded, Entries
    <3> QED
      BY <3>2, <3>3
  <2>8. CASE Connected
    <3>1. conn' \in {"up", "replaying"}
      BY <2>8 DEF Connected, Replayed
    <3> QED
      BY <3>1 DEF NeverStranded
  <2>9. CASE TimerFires
    <3>1. /\ at' = at /\ closed' = closed
          /\ conn' = IF conn = "idle" /\ ~closed THEN "opening" ELSE conn
      BY <2>9 DEF TimerFires, Open
    <3>2. closed \/ conn' # "idle"
      BY <3>1
    <3> QED
      BY <3>1, <3>2 DEF NeverStranded
  <2>10. CASE HandleNext
    BY <2>10 DEF HandleNext, Handle, NeverStranded, Entries
  <2>11. CASE Deliver
    <3> DEFINE message == Head(toClient)
               rest == Tail(toClient)
               asked == {q \in pending : message.type # "updates" /\ q.id = message.id}
    <3>1. /\ at' = at /\ closed' = closed
          /\ \/ UNCHANGED <<conn, loop, timer>>
             \/ \E r \in asked : Resolve(r)
             \/ \E r \in asked : RejectRequest(r, rest)
      BY <2>11 DEF Deliver
    <3>2. CASE UNCHANGED <<conn, loop, timer>>
      BY <3>1, <3>2 DEF NeverStranded, Entries
    <3>3. ASSUME NEW r \in asked, Resolve(r)
          PROVE  NeverStranded'
      <4>1. timer' = timer /\ (conn' = "up" \/ (conn' = conn /\ loop' = loop))
        BY <3>3 DEF Resolve, Replayed
      <4> QED
        BY <3>1, <4>1 DEF NeverStranded, Entries
    <3>4. ASSUME NEW r \in asked, RejectRequest(r, rest)
          PROVE  NeverStranded'
      <4>1. CASE r.by = "replay"
        BY <2>5, <3>1, <3>4, <4>1 DEF RejectRequest
      <4>2. CASE r.by # "replay"
        BY <3>1, <3>4, <4>2 DEF RejectRequest, NeverStranded, Entries
      <4> QED
        BY <4>1, <4>2
    <3> QED
      BY <3>1, <3>2, <3>3, <3>4
  <2>12. CASE UNCHANGED vars
    BY <2>12 DEF vars, NeverStranded, Entries
  <2> QED
    BY <2>1, <2>2, <2>3, <2>4, <2>6, <2>7, <2>8, <2>9, <2>10, <2>11, <2>12 DEF Next, User, Fault
<1> QED
  BY <1>1, <1>2, <1>3, PTL DEF Spec
=============================================================================
