------------------------ MODULE CollectionCacheProofs ------------------------
(***************************************************************************)
(* Proofs about SharedClients, for any holders, connections and clients:   *)
(* the count of a client is the number of its leases, and a client is open *)
(* exactly while it is leased.  And about CollectionCache, for any number  *)
(* of collections, scopes, connections and calls and any size of the       *)
(* cache: nobody closes a client under a collection that syncs, and a      *)
(* scope has one live collection, as long as no collection is used again   *)
(* after it was cleaned up.                                                *)
(***************************************************************************)
EXTENDS CollectionCache, FiniteSetTheorems, SequenceTheorems, TLAPS

USE SharedClientsAssumption

\* The holders of a client are finitely many, and counted by a number.
LEMMA HoldersFinite ==
  \A c : /\ IsFiniteSet(HoldersOf(c))
         /\ Cardinality(HoldersOf(c)) \in Nat
         /\ Cardinality(HoldersOf(c)) = 0 <=> HoldersOf(c) = {}
BY FS_Subset, FS_CardinalityType, FS_EmptySet DEF HoldersOf

LEMMA InitInv == ClientsInit => ClientsInv
<1> SUFFICES ASSUME ClientsInit PROVE ClientsInv
  OBVIOUS
<1>1. ClientsTypeOK
  BY DEF ClientsInit, ClientsTypeOK
<1>2. \A c \in Clients : HoldersOf(c) = {}
  BY DEF ClientsInit, HoldersOf
<1>3. RefsCountLeases
  BY <1>2, HoldersFinite DEF ClientsInit, RefsCountLeases
<1>4. EntriesAreOpen
  BY DEF ClientsInit, EntriesAreOpen
<1>5. OpenIffLeased
  BY <1>2 DEF ClientsInit, OpenIffLeased
<1> QED
  BY <1>1, <1>3, <1>4, <1>5 DEF ClientsInv

LEMMA AcquireInv ==
  ASSUME ClientsInv, NEW h \in Holders, NEW k \in Connections, Acquire(h, k)
  PROVE  ClientsInv'
<1> USE DEF ClientsInv, ClientsTypeOK
<1>1. PICK c \in Clients :
        /\ lease[h] = None
        /\ EntryFor(k, c)
        /\ shared' = [shared EXCEPT ![k] = c]
        /\ state' = [state EXCEPT ![c] = "open"]
        /\ refs' = [refs EXCEPT ![c] = @ + 1]
        /\ lease' = [lease EXCEPT ![h] = c]
  BY DEF Acquire
<1>2. ClientsTypeOK'
  BY <1>1
<1>3. /\ HoldersOf(c)' = HoldersOf(c) \cup {h}
      /\ h \notin HoldersOf(c)
      /\ \A d \in Clients \ {c} : HoldersOf(d)' = HoldersOf(d)
  BY <1>1 DEF HoldersOf
<1>4. Cardinality(HoldersOf(c)') = Cardinality(HoldersOf(c)) + 1
  BY <1>3, HoldersFinite, FS_AddElement
<1>5. RefsCountLeases'
  BY <1>1, <1>3, <1>4 DEF RefsCountLeases
<1>6. \A j \in Connections : j # k => shared[j] # c
  BY <1>1 DEF EntryFor, EntriesAreOpen
<1>7. EntriesAreOpen'
  <2>1. ASSUME NEW d \in Clients
        PROVE  (state[d] = "open" <=> \E j \in Connections : shared[j] = d)'
    <3>1. CASE d = c
      BY <1>1, <3>1
    <3>2. CASE d # c
      <4>1. state'[d] = state[d]
        BY <1>1, <3>2
      <4>2. shared[k] = d => FALSE
        BY <1>1, <3>2 DEF EntryFor
      <4>3. \A j \in Connections : shared'[j] = d <=> shared[j] = d
        BY <1>1, <3>2, <4>2
      <4> QED
        BY <4>1, <4>3 DEF EntriesAreOpen
    <3> QED
      BY <3>1, <3>2
  <2>2. ASSUME NEW i \in Connections, NEW j \in Connections,
               shared'[i] = shared'[j], shared'[i] # None
        PROVE  i = j
    BY <1>1, <1>6, <2>2 DEF EntriesAreOpen
  <2> QED
    BY <2>1, <2>2 DEF EntriesAreOpen
<1>8. OpenIffLeased'
  BY <1>1, <1>3 DEF OpenIffLeased
<1> QED
  BY <1>2, <1>5, <1>7, <1>8

LEMMA ReleaseInv ==
  ASSUME ClientsInv, NEW h \in Holders, Release(h)
  PROVE  ClientsInv'
<1> USE DEF ClientsInv, ClientsTypeOK
<1>0. PICK c \in Clients : lease[h] = c
  BY DEF Release
<1>1. c \in Clients /\ h \in HoldersOf(c)
  BY <1>0 DEF HoldersOf
<1>2. /\ HoldersOf(c)' = HoldersOf(c) \ {h}
      /\ \A d \in Clients \ {c} : HoldersOf(d)' = HoldersOf(d)
  BY <1>0 DEF Release, HoldersOf
<1>3. Cardinality(HoldersOf(c)') = Cardinality(HoldersOf(c)) - 1
  BY <1>1, <1>2, HoldersFinite, FS_RemoveElement
<1>4. refs[c] = Cardinality(HoldersOf(c)) /\ refs[c] \in Nat /\ refs[c] # 0
  BY <1>1, HoldersFinite DEF RefsCountLeases
<1>5. refs' = [refs EXCEPT ![c] = refs[c] - 1] /\ refs[c] - 1 \in Nat
  BY <1>0, <1>4 DEF Release
<1>6. state[c] = "open" /\ \E k \in Connections : shared[k] = c
  BY <1>1 DEF OpenIffLeased, EntriesAreOpen
<1>7. /\ shared' = IF refs[c] = 1
                   THEN [k \in Connections |-> IF shared[k] = c THEN None ELSE shared[k]]
                   ELSE shared
      /\ state' = IF refs[c] = 1 THEN [state EXCEPT ![c] = "closed"] ELSE state
      /\ lease' = [lease EXCEPT ![h] = None]
  BY <1>0, <1>6 DEF Release
<1>8. ClientsTypeOK'
  <2>1. shared' \in [Connections -> Clients \cup {None}]
    BY <1>7
  <2>2. refs' \in [Clients -> Nat]
    BY <1>1, <1>5
  <2>3. state' \in [Clients -> {"new", "open", "closed"}]
    BY <1>7
  <2>4. lease' \in [Holders -> Clients \cup {None}]
    BY <1>7
  <2> QED
    BY <2>1, <2>2, <2>3, <2>4
<1>9. RefsCountLeases'
  BY <1>1, <1>2, <1>3, <1>4, <1>5 DEF RefsCountLeases
<1>10. EntriesAreOpen'
  <2>1. CASE refs[c] = 1
    BY <1>1, <1>7, <2>1 DEF EntriesAreOpen
  <2>2. CASE refs[c] # 1
    BY <1>7, <2>2 DEF EntriesAreOpen
  <2> QED
    BY <2>1, <2>2
<1>11. OpenIffLeased'
  <2>1. HoldersOf(c)' = {} <=> refs[c] = 1
    <3>1. IsFiniteSet(HoldersOf(c)') /\ (Cardinality(HoldersOf(c)') = 0 <=> HoldersOf(c)' = {})
      BY <1>2, HoldersFinite, FS_Subset, FS_EmptySet
    <3> QED
      BY <3>1, <1>3, <1>4
  <2>2. state'[c] = "open" <=> refs[c] # 1
    BY <1>1, <1>6, <1>7
  <2>3. \A d \in Clients \ {c} : state'[d] = state[d]
    BY <1>7
  <2> QED
    BY <1>2, <2>1, <2>2, <2>3 DEF OpenIffLeased
<1> QED
  BY <1>8, <1>9, <1>10, <1>11

LEMMA StepInv == ClientsInv /\ [ClientsNext]_clientVars => ClientsInv'
<1> SUFFICES ASSUME ClientsInv, [ClientsNext]_clientVars PROVE ClientsInv'
  OBVIOUS
<1>1. CASE UNCHANGED clientVars
  BY <1>1 DEF clientVars, ClientsInv, ClientsTypeOK, RefsCountLeases, EntriesAreOpen,
              OpenIffLeased, HoldersOf
<1>2. ASSUME NEW h \in Holders, Release(h) PROVE ClientsInv'
  BY <1>2, ReleaseInv
<1>3. ASSUME NEW h \in Holders, NEW k \in Connections, Acquire(h, k) PROVE ClientsInv'
  BY <1>3, AcquireInv
<1> QED
  BY <1>1, <1>2, <1>3 DEF ClientsNext

\* At every moment the count of each client is the number of its leases, an
\* entry belongs to one connection, and a client is open exactly while it is
\* leased (acquireSharedClient and release).
THEOREM ClientsInvariance == ClientsSpec => []ClientsInv
<1>1. ClientsInit => ClientsInv
  BY InitInv
<1>2. ClientsInv /\ [ClientsNext]_clientVars => ClientsInv'
  BY StepInv
<1> QED
  BY <1>1, <1>2, PTL DEF ClientsSpec

\* A closed client is not opened or leased again: whoever acquires one later
\* gets a client that is open.
THEOREM ClosedStaysClosedHolds == ClientsSpec => ClosedStaysClosed
<1> DEFINE Stays == \A c \in Clients : state[c] = "closed" =>
                      state'[c] = "closed" /\ \A h \in Holders : lease'[h] # c
<1>1. ClientsInv /\ [ClientsNext]_clientVars => [Stays]_clientVars
  <2> SUFFICES ASSUME ClientsInv, ClientsNext, NEW c \in Clients, state[c] = "closed"
               PROVE  state'[c] = "closed" /\ \A h \in Holders : lease'[h] # c
    OBVIOUS
  <2> USE DEF ClientsInv, ClientsTypeOK
  <2>1. \A h \in Holders : lease[h] # c
    BY DEF OpenIffLeased, HoldersOf
  <2>2. \A k \in Connections : shared[k] # c
    BY DEF EntriesAreOpen
  <2>3. ASSUME NEW h \in Holders, Release(h)
        PROVE  state'[c] = "closed" /\ \A i \in Holders : lease'[i] # c
    <3>1. lease[h] # c
      BY <2>1
    <3>2. state' = state \/ state' = [state EXCEPT ![lease[h]] = "closed"]
      BY <2>3 DEF Release
    <3>3. lease' = [lease EXCEPT ![h] = None]
      BY <2>3 DEF Release
    <3> QED
      BY <2>1, <3>1, <3>2, <3>3
  <2>4. ASSUME NEW h \in Holders, NEW k \in Connections, Acquire(h, k)
        PROVE  state'[c] = "closed" /\ \A i \in Holders : lease'[i] # c
    <3>1. PICK d \in Clients :
            /\ EntryFor(k, d)
            /\ state' = [state EXCEPT ![d] = "open"]
            /\ lease' = [lease EXCEPT ![h] = d]
      BY <2>4 DEF Acquire
    <3>2. d # c
      BY <2>2, <3>1 DEF EntryFor
    <3> QED
      BY <2>1, <3>1, <3>2
  <2> QED
    BY <2>3, <2>4 DEF ClientsNext
<1>2. ClientsSpec => []ClientsInv
  BY ClientsInvariance
<1> QED
  BY <1>1, <1>2, PTL DEF ClientsSpec, ClosedStaysClosed

-----------------------------------------------------------------------------
(***************************************************************************)
(* CollectionCache.                                                        *)
(***************************************************************************)
Statuses == {"not made", "idle", "loading", "stalled", "ready", "cleaned-up"}
Live(o) == Status(o) \in {"idle", "loading", "stalled", "ready"}

Records == [scope : Scopes \cup {None}, status : Statuses, subscribers : Nat]

CacheTypeOK ==
  /\ object \in [Objects -> Records]
  /\ cache \in Seq(Objects)
  /\ protected \in Objects \cup {None}
  /\ cleaning \in SUBSET Objects

\* A collection that was not cleaned up has its lease.
LiveIsLeased == \A o \in Objects : Live(o) => lease[o] # None

\* The cache holds collections that were made, one for each scope; what is
\* cleaned up was made as well.
CachedAreMade == \A i \in DOMAIN cache : Made(cache[i])
CleaningAreMade == \A o \in cleaning : Made(o)
OneCachedPerScope ==
  \A i, j \in DOMAIN cache : object[cache[i]].scope = object[cache[j]].scope => i = j

\* A live collection is cached until it is being cleaned up.
LiveIsCached ==
  \A o \in Objects : Live(o) => o \in cleaning \/ \E i \in DOMAIN cache : cache[i] = o

CacheInv ==
  /\ CacheTypeOK /\ ClientsInv
  /\ LiveIsLeased
  /\ CachedAreMade /\ CleaningAreMade /\ OneCachedPerScope /\ LiveIsCached

-----------------------------------------------------------------------------
LEMMA RemoveAtIs ==
  ASSUME NEW S, NEW s \in Seq(S), NEW i \in 1 .. Len(s)
  PROVE  /\ RemoveAt(s, i) \in Seq(S)
         /\ Len(s) \in Nat
         /\ Len(RemoveAt(s, i)) = Len(s) - 1
         /\ \A j \in 1 .. Len(s) - 1 : RemoveAt(s, i)[j] = IF j < i THEN s[j] ELSE s[j + 1]
<1> DEFINE before == SubSeq(s, 1, i - 1)
           after == SubSeq(s, i + 1, Len(s))
<1>1. Len(s) \in Nat /\ i \in Nat /\ 1 <= i /\ i <= Len(s)
  BY LenProperties
<1>2. \A j \in 1 .. Len(s) : s[j] \in S
  BY ElementOfSeq
<1>3. /\ before \in Seq(S)
      /\ Len(before) = i - 1
      /\ \A j \in 1 .. i - 1 : before[j] = s[j]
  <2>1. \A j \in 1 .. i - 1 : s[j] \in S
    BY <1>1, <1>2
  <2>2. 1 \in Int /\ i - 1 \in Int
    BY <1>1
  <2>3. /\ before \in Seq(S)
        /\ Len(before) = IF 1 <= i - 1 THEN (i - 1) - 1 + 1 ELSE 0
        /\ \A j \in 1 .. (i - 1) - 1 + 1 : before[j] = s[1 + j - 1]
    BY <2>1, <2>2, SubSeqProperties
  <2> QED
    BY <1>1, <2>3
<1>4. /\ after \in Seq(S)
      /\ Len(after) = Len(s) - i
      /\ \A j \in 1 .. Len(s) - i : after[j] = s[i + j]
  <2>1. \A j \in i + 1 .. Len(s) : s[j] \in S
    BY <1>1, <1>2
  <2>2. i + 1 \in Int /\ Len(s) \in Int
    BY <1>1
  <2>3. /\ after \in Seq(S)
        /\ Len(after) = IF i + 1 <= Len(s) THEN Len(s) - (i + 1) + 1 ELSE 0
        /\ \A j \in 1 .. Len(s) - (i + 1) + 1 : after[j] = s[i + 1 + j - 1]
    BY <2>1, <2>2, SubSeqProperties
  <2> QED
    BY <1>1, <2>3
<1> HIDE DEF before, after
<1>5. /\ before \o after \in Seq(S)
      /\ Len(before \o after) = Len(before) + Len(after)
      /\ \A j \in 1 .. Len(before) + Len(after) :
           (before \o after)[j] = IF j <= Len(before) THEN before[j] ELSE after[j - Len(before)]
  BY <1>3, <1>4, ConcatProperties
<1>6. RemoveAt(s, i) = before \o after
  BY DEF RemoveAt, before, after
<1>7. Len(before \o after) = Len(s) - 1
  BY <1>1, <1>3, <1>4, <1>5
<1>8. ASSUME NEW j \in 1 .. Len(s) - 1
      PROVE  (before \o after)[j] = IF j < i THEN s[j] ELSE s[j + 1]
  <2>1. CASE j < i
    BY <1>1, <1>3, <1>4, <1>5, <2>1
  <2>2. CASE ~(j < i)
    <3>1. j - (i - 1) \in 1 .. Len(s) - i /\ i + (j - (i - 1)) = j + 1
      BY <1>1, <2>2
    <3>2. (before \o after)[j] = after[j - (i - 1)]
      BY <1>1, <1>3, <1>4, <1>5, <2>2
    <3> QED
      BY <1>4, <2>2, <3>1, <3>2
  <2> QED
    BY <2>1, <2>2
<1> QED
  BY <1>1, <1>5, <1>6, <1>7, <1>8

LEMMA CacheInit == Init => CacheInv
<1> SUFFICES ASSUME Init PROVE CacheInv
  OBVIOUS
<1>1. ClientsInv
  BY InitInv DEF Init
<1>2. \A o \in Objects : object[o].status = "not made"
  <2> SUFFICES ASSUME NEW o \in Objects PROVE object[o].status = "not made"
    OBVIOUS
  <2>1. object[o] = NotMade
    BY DEF Init
  <2>2. NotMade.status = "not made"
    BY DEF NotMade
  <2> QED
    BY <2>1, <2>2
<1>3. CacheTypeOK
  <2>1. NotMade \in Records
    BY DEF NotMade, Records, Statuses
  <2>2. object = [o \in Objects |-> NotMade]
    BY DEF Init
  <2>3. object \in [Objects -> Records]
    BY <2>1, <2>2
  <2>4. cache \in Seq(Objects)
    BY EmptySeq DEF Init
  <2>5. protected \in Objects \cup {None} /\ cleaning \in SUBSET Objects
    BY DEF Init
  <2> QED
    BY <2>3, <2>4, <2>5 DEF CacheTypeOK
<1>4. \A o \in Objects : ~Live(o)
  BY <1>2 DEF Live, Status
<1>5. LiveIsLeased
  BY <1>4 DEF LiveIsLeased
<1>6. CachedAreMade /\ CleaningAreMade /\ OneCachedPerScope /\ LiveIsCached
  <2>1. DOMAIN cache = {}
    <3>1. cache = <<>>
      BY DEF Init
    <3>2. DOMAIN cache = 1 .. Len(cache) /\ Len(cache) = 0
      BY <3>1, EmptySeq, LenProperties
    <3> QED
      BY <3>2
  <2> QED
    BY <1>4, <2>1 DEF Init, CachedAreMade, CleaningAreMade, OneCachedPerScope, LiveIsCached
<1> QED
  BY <1>1, <1>3, <1>5, <1>6 DEF CacheInv

-----------------------------------------------------------------------------
(***************************************************************************)
(* To the shared clients, a step of the cache acquires or releases a       *)
(* lease, or is none of their business.                                    *)
(***************************************************************************)
LEMMA StepOfClients == [Next]_vars => [ClientsNext]_clientVars
<1> SUFFICES ASSUME [Next]_vars PROVE [ClientsNext]_clientVars
  OBVIOUS
<1>1. /\ \A s \in Scopes : ConnectionOf[s] \in Connections
      /\ Holders = Objects \cup Calls
  BY CollectionCacheAssumption
<1>2. ASSUME NEW s \in Scopes, AllNew(s)
      PROVE  ClientsNext
  <2> DEFINE o == CHOOSE p \in Objects : ~Made(p)
  <2>1. o \in Objects /\ Acquire(o, ConnectionOf[s])
    BY <1>2 DEF AllNew
  <2> QED
    BY <1>1, <2>1 DEF ClientsNext
<1>3. ASSUME NEW s \in Scopes, NEW call \in Calls, StartCall(call, s)
      PROVE  ClientsNext
  BY <1>1, <1>3 DEF StartCall, ClientsNext
<1>4. ASSUME NEW call \in Calls, EndCall(call)
      PROVE  ClientsNext
  BY <1>1, <1>4 DEF EndCall, ClientsNext
<1>5. ASSUME NEW o \in Objects, CleanUp(o) \/ Collect(o)
      PROVE  [ClientsNext]_clientVars
  BY <1>1, <1>5 DEF CleanUp, Collect, ClientsNext
<1>6. ASSUME NEW s \in Scopes, AllCached(s)
      PROVE  UNCHANGED clientVars
  BY <1>6 DEF AllCached
<1>7. CASE Evict \/ EvictDone \/ Dispose \/ UNCHANGED vars
  BY <1>7 DEF Evict, EvictDone, Dispose, vars
<1>8. ASSUME NEW o \in Objects, Subscribe(o) \/ Unsubscribe(o) \/ Loaded(o) \/ LoadFails(o)
      PROVE  UNCHANGED clientVars
  BY <1>8 DEF Subscribe, Unsubscribe, Loaded, LoadFails
<1> QED
  BY <1>2, <1>3, <1>4, <1>5, <1>6, <1>7, <1>8 DEF Next

\* Whatever the cache and the collections do, the shared clients behave as
\* their own specification says.
THEOREM CacheUsesSharedClients == Spec => ClientsSpec
<1>1. Init => ClientsInit
  BY DEF Init
<1>2. [Next]_vars => [ClientsNext]_clientVars
  BY StepOfClients
<1> QED
  BY <1>1, <1>2, PTL DEF Spec, ClientsSpec

\* The count of leases is right, and a client is open exactly while leased,
\* under every use that collection types make of it.
THEOREM CacheKeepsClientsInv == Spec => []ClientsInv
BY CacheUsesSharedClients, ClientsInvariance, PTL

\* No collection type brings a closed client back.
THEOREM CacheKeepsClosed == Spec => ClosedStaysClosed
BY CacheUsesSharedClients, ClosedStaysClosedHolds, PTL

-----------------------------------------------------------------------------
(***************************************************************************)
(* The inductive invariant.  The actions come in three kinds: one object   *)
(* goes on in its life, the cache is rearranged or shortened, and an       *)
(* object is made.                                                         *)
(***************************************************************************)
LEMMA CachedAt ==
  ASSUME CacheTypeOK
  PROVE  /\ Len(cache) \in Nat
         /\ DOMAIN cache = 1 .. Len(cache)
         /\ \A i \in DOMAIN cache : cache[i] \in Objects
BY LenProperties, ElementOfSeq DEF CacheTypeOK

LEMMA ObjectIs ==
  ASSUME CacheTypeOK, NEW o \in Objects
  PROVE  /\ object[o].scope \in Scopes \cup {None}
         /\ object[o].status \in Statuses
         /\ object[o].subscribers \in Nat
BY DEF CacheTypeOK, Records

\* One object goes on in its life, and may lose its lease when it is not live
\* any more.
LEMMA OneObjectMoves ==
  ASSUME CacheInv, ClientsInv', NEW o \in Objects, NEW new \in Records,
         new.scope = object[o].scope, Made(o) => new.status # "not made",
         object' = [object EXCEPT ![o] = new],
         cache' = cache, protected' = protected,
         cleaning' \subseteq cleaning, cleaning \ {o} \subseteq cleaning',
         \A p \in Objects \ {o} : lease'[p] = lease[p],
         new.status \in {"idle", "loading", "stalled", "ready"} =>
           Live(o) /\ lease'[o] = lease[o] /\ cleaning' = cleaning
  PROVE  CacheInv'
<1>1. /\ CacheTypeOK /\ LiveIsLeased
      /\ CachedAreMade /\ CleaningAreMade /\ OneCachedPerScope /\ LiveIsCached
  BY DEF CacheInv
<1>2. object'[o] = new /\ \A p \in Objects \ {o} : object'[p] = object[p]
  BY <1>1 DEF CacheTypeOK
<1>3. /\ \A p \in Objects : object'[p].scope = object[p].scope
      /\ \A p \in Objects \ {o} : object'[p].status = object[p].status
      /\ object'[o].status = new.status
  BY <1>2
<1>4. CacheTypeOK'
  BY <1>1 DEF CacheTypeOK
<1>5. \A p \in Objects : Live(p)' => Live(p) /\ lease'[p] = lease[p]
  BY <1>3 DEF Live, Status
<1>6. \A p \in Objects : Live(p)' => (p \in cleaning => p \in cleaning')
  BY <1>3 DEF Live, Status
<1>7. \A p \in Objects : Made(p) => Made(p)'
  BY <1>3 DEF Made
<1>8. LiveIsLeased'
  BY <1>1, <1>5 DEF LiveIsLeased
<1>9. CachedAreMade'
  BY <1>1, <1>7, CachedAt DEF CachedAreMade, Made
<1>10. CleaningAreMade'
  <2>1. \A p \in cleaning' : p \in Objects /\ Made(p)
    BY <1>1 DEF CleaningAreMade, CacheTypeOK
  <2> QED
    BY <1>7, <2>1 DEF CleaningAreMade, Made
<1>11. OneCachedPerScope'
  <2>1. ASSUME NEW i \in DOMAIN cache, NEW j \in DOMAIN cache,
               object'[cache[i]].scope = object'[cache[j]].scope
        PROVE  i = j
    <3>1. object[cache[i]].scope = object[cache[j]].scope
      BY <1>1, <1>3, <2>1, CachedAt
    <3> QED
      BY <1>1, <3>1 DEF OneCachedPerScope
  <2>2. \A i, j \in DOMAIN cache : object'[cache[i]].scope = object'[cache[j]].scope => i = j
    BY <2>1, Zenon
  <2> QED
    BY <2>2, Zenon DEF OneCachedPerScope
<1>12. LiveIsCached'
  <2> SUFFICES ASSUME NEW p \in Objects, Live(p)'
               PROVE  p \in cleaning' \/ \E i \in DOMAIN cache' : cache'[i] = p
    BY DEF LiveIsCached, Live, Status
  <2>1. Live(p) /\ (p \in cleaning => p \in cleaning')
    BY <1>5, <1>6
  <2> QED
    BY <1>1, <2>1 DEF LiveIsCached
<1> QED
  BY <1>4, <1>8, <1>9, <1>11, <1>12, <1>10 DEF CacheInv

\* The cache is rearranged: what leaves it is being cleaned up.
LEMMA CacheMoves ==
  ASSUME CacheInv, ClientsInv', object' = object, lease' = lease,
         cache' \in Seq(Objects), protected' \in Objects \cup {None},
         cleaning \subseteq cleaning',
         \A o \in cleaning' : o \in cleaning \/ \E i \in DOMAIN cache : cache[i] = o,
         NEW from,
         \A i \in DOMAIN cache' : from[i] \in DOMAIN cache /\ cache'[i] = cache[from[i]],
         \A i, j \in DOMAIN cache' : from[i] = from[j] => i = j,
         \A i \in DOMAIN cache :
           cache[i] \in cleaning' \/ \E j \in DOMAIN cache' : cache'[j] = cache[i]
  PROVE  CacheInv'
<1>1. /\ CacheTypeOK /\ LiveIsLeased
      /\ CachedAreMade /\ CleaningAreMade /\ OneCachedPerScope /\ LiveIsCached
  BY DEF CacheInv
<1>2. CacheTypeOK'
  <2>1. cleaning' \in SUBSET Objects
    BY <1>1, CachedAt DEF CacheTypeOK
  <2> QED
    BY <1>1, <2>1 DEF CacheTypeOK
<1>3. CleaningAreMade'
  <2>1. \A o \in cleaning' : Made(o)
    BY <1>1 DEF CleaningAreMade, CachedAreMade
  <2> QED
    BY <2>1 DEF CleaningAreMade, Made
<1>4. LiveIsLeased'
  BY <1>1 DEF LiveIsLeased, Live, Status
<1>5. CachedAreMade'
  <2>1. \A i \in DOMAIN cache' : Made(cache'[i])
    BY <1>1 DEF CachedAreMade
  <2> QED
    BY <2>1 DEF CachedAreMade, Made
<1>6. OneCachedPerScope'
  BY <1>1 DEF OneCachedPerScope
<1>7. LiveIsCached'
  <2> SUFFICES ASSUME NEW p \in Objects, Live(p)'
               PROVE  p \in cleaning' \/ \E i \in DOMAIN cache' : cache'[i] = p
    BY DEF LiveIsCached, Live, Status
  <2>1. Live(p)
    BY DEF Live, Status
  <2> QED
    BY <1>1, <2>1 DEF LiveIsCached
<1> QED
  BY <1>2, <1>4, <1>5, <1>6, <1>7, <1>3 DEF CacheInv

LEMMA AllCachedInv ==
  ASSUME CacheInv, ClientsInv', NEW s \in Scopes, AllCached(s)
  PROVE  CacheInv'
<1>1. CacheTypeOK
  BY DEF CacheInv
<1>2. PICK i \in DOMAIN cache :
        /\ cache' = Append(RemoveAt(cache, i), cache[i])
        /\ protected' = cache[i]
  BY DEF AllCached
<1>3. /\ Len(cache) \in Nat
      /\ DOMAIN cache = 1 .. Len(cache)
      /\ \A j \in 1 .. Len(cache) : cache[j] \in Objects
      /\ i \in 1 .. Len(cache)
  BY <1>1, CachedAt
<1> DEFINE n == Len(cache)
           rest == RemoveAt(cache, i)
           from == [j \in 1 .. n |-> IF j = n THEN i ELSE IF j < i THEN j ELSE j + 1]
<1>4. /\ rest \in Seq(Objects)
      /\ Len(rest) = n - 1
      /\ \A j \in 1 .. n - 1 : rest[j] = IF j < i THEN cache[j] ELSE cache[j + 1]
  BY <1>1, <1>3, RemoveAtIs DEF CacheTypeOK
<1>5. /\ cache' \in Seq(Objects)
      /\ Len(cache') = n
      /\ \A j \in 1 .. n - 1 : cache'[j] = rest[j]
      /\ cache'[n] = cache[i]
  <2> HIDE DEF rest
  <2>1. cache[i] \in Objects /\ cache' = Append(rest, cache[i])
    BY <1>2, <1>3 DEF rest
  <2>2. /\ Append(rest, cache[i]) \in Seq(Objects)
        /\ Len(Append(rest, cache[i])) = Len(rest) + 1
        /\ \A j \in 1 .. Len(rest) : Append(rest, cache[i])[j] = rest[j]
        /\ Append(rest, cache[i])[Len(rest) + 1] = cache[i]
    BY <1>4, <2>1, AppendProperties
  <2>3. Len(rest) + 1 = n
    BY <1>3, <1>4
  <2> QED
    BY <1>4, <2>1, <2>2, <2>3
<1>6. DOMAIN cache' = 1 .. n
  BY <1>5, LenProperties
<1> HIDE DEF rest
<1>7. \A j \in 1 .. n : from[j] \in 1 .. n /\ cache'[j] = cache[from[j]]
  <2> TAKE j \in 1 .. n
  <2>1. from[j] = (IF j = n THEN i ELSE IF j < i THEN j ELSE j + 1)
    OBVIOUS
  <2>0. n \in Nat /\ i \in 1 .. n /\ j \in 1 .. n
    BY <1>3
  <2> HIDE DEF from, n
  <2>2. CASE j = n
    BY <1>5, <2>0, <2>1, <2>2
  <2>3. CASE j # n
    <3>1. j \in 1 .. n - 1
      BY <2>0, <2>3
    <3>2. cache'[j] = IF j < i THEN cache[j] ELSE cache[j + 1]
      BY <1>4, <1>5, <3>1
    <3> QED
      BY <2>0, <2>1, <2>3, <3>1, <3>2
  <2> QED
    BY <2>2, <2>3
<1>8. \A j, k \in 1 .. n : from[j] = from[k] => j = k
  <2> SUFFICES ASSUME NEW j \in 1 .. n, NEW k \in 1 .. n, from[j] = from[k]
               PROVE  j = k
    OBVIOUS
  <2>1. from[j] = (IF j = n THEN i ELSE IF j < i THEN j ELSE j + 1)
    OBVIOUS
  <2>2. from[k] = (IF k = n THEN i ELSE IF k < i THEN k ELSE k + 1)
    OBVIOUS
  <2> HIDE DEF from, n
  <2>3. j \in Int /\ k \in Int /\ i \in Int /\ n \in Int /\ i <= n /\ j <= n /\ k <= n
    BY <1>3 DEF n
  <2>4. CASE j = n /\ k # n
    <3>1. i = (IF k < i THEN k ELSE k + 1)
      BY <2>1, <2>2, <2>4
    <3> QED
      BY <2>3, <3>1
  <2>5. CASE j # n /\ k = n
    <3>1. i = (IF j < i THEN j ELSE j + 1)
      BY <2>1, <2>2, <2>5
    <3> QED
      BY <2>3, <3>1
  <2>6. CASE j # n /\ k # n
    <3>1. (IF j < i THEN j ELSE j + 1) = (IF k < i THEN k ELSE k + 1)
      BY <2>1, <2>2, <2>6
    <3> QED
      BY <2>3, <3>1
  <2> QED
    BY <2>4, <2>5, <2>6
<1>9. ASSUME NEW k \in 1 .. n
      PROVE  \E j \in 1 .. n : cache'[j] = cache[k]
  <2>1. CASE k = i
    BY <1>3, <1>5, <2>1
  <2>2. CASE k < i
    <3>1. k \in 1 .. n - 1 /\ k \in 1 .. n
      BY <1>3, <2>2
    <3>2. cache'[k] = cache[k]
      BY <1>4, <1>5, <2>2, <3>1
    <3> QED
      BY <3>1, <3>2
  <2>3. CASE k > i
    <3>1. k - 1 \in 1 .. n - 1 /\ k - 1 \in 1 .. n /\ ~(k - 1 < i) /\ (k - 1) + 1 = k
      BY <1>3, <2>3
    <3>2. cache'[k - 1] = cache[k]
      BY <1>4, <1>5, <3>1
    <3> QED
      BY <3>1, <3>2
  <2> QED
    BY <1>3, <2>1, <2>2, <2>3
<1>10. /\ object' = object /\ lease' = lease /\ cleaning' = cleaning
       /\ protected' \in Objects \cup {None}
  BY <1>1, <1>2, <1>3 DEF AllCached, clientVars
<1> HIDE DEF from, n
<1>11. DOMAIN cache = 1 .. n
  BY <1>3 DEF n
<1>12. /\ \A j \in DOMAIN cache' : from[j] \in DOMAIN cache /\ cache'[j] = cache[from[j]]
       /\ \A j, k \in DOMAIN cache' : from[j] = from[k] => j = k
       /\ \A k \in DOMAIN cache :
            cache[k] \in cleaning' \/ \E j \in DOMAIN cache' : cache'[j] = cache[k]
  BY <1>6, <1>7, <1>8, <1>9, <1>11
<1> QED
  BY <1>5, <1>10, <1>12, CacheMoves

LEMMA EvictInv ==
  ASSUME CacheInv, ClientsInv', Evict
  PROVE  CacheInv'
<1>1. CacheTypeOK
  BY DEF CacheInv
<1>2. PICK i \in DOMAIN cache :
        /\ cache' = RemoveAt(cache, i)
        /\ cleaning' = cleaning \cup {cache[i]}
  BY DEF Evict
<1>3. /\ Len(cache) \in Nat
      /\ DOMAIN cache = 1 .. Len(cache)
      /\ \A j \in 1 .. Len(cache) : cache[j] \in Objects
      /\ i \in 1 .. Len(cache)
  BY <1>1, CachedAt
<1> DEFINE n == Len(cache)
           from == [j \in 1 .. n - 1 |-> IF j < i THEN j ELSE j + 1]
<1>4. /\ cache' \in Seq(Objects)
      /\ Len(cache') = n - 1
      /\ \A j \in 1 .. n - 1 : cache'[j] = IF j < i THEN cache[j] ELSE cache[j + 1]
  BY <1>1, <1>2, <1>3, RemoveAtIs DEF CacheTypeOK
<1>5. DOMAIN cache' = 1 .. n - 1
  BY <1>4, LenProperties
<1>6. \A j \in 1 .. n - 1 : from[j] \in 1 .. n /\ cache'[j] = cache[from[j]]
  BY <1>3, <1>4
<1>7. \A j, k \in 1 .. n - 1 : from[j] = from[k] => j = k
  BY <1>3
<1>8. ASSUME NEW k \in 1 .. n
      PROVE  cache[k] \in cleaning' \/ \E j \in 1 .. n - 1 : cache'[j] = cache[k]
  <2>1. CASE k = i
    BY <1>2, <2>1
  <2>2. CASE k < i
    <3>1. k \in 1 .. n - 1
      BY <1>3, <2>2
    <3> QED
      BY <1>4, <2>2, <3>1
  <2>3. CASE k > i
    <3>1. k - 1 \in 1 .. n - 1 /\ ~(k - 1 < i) /\ (k - 1) + 1 = k
      BY <1>3, <2>3
    <3>2. cache'[k - 1] = cache[k]
      BY <1>4, <3>1
    <3> QED
      BY <3>1, <3>2
  <2> QED
    BY <1>3, <2>1, <2>2, <2>3
<1>9. /\ object' = object /\ lease' = lease
      /\ protected' \in Objects \cup {None}
      /\ cleaning \subseteq cleaning'
      /\ \A o \in cleaning' : o \in cleaning \/ \E j \in DOMAIN cache : cache[j] = o
  BY <1>1, <1>2, <1>3 DEF Evict, clientVars, CacheTypeOK
<1> HIDE DEF from, n
<1>10. DOMAIN cache = 1 .. n
  BY <1>3 DEF n
<1>11. /\ \A j \in DOMAIN cache' : from[j] \in DOMAIN cache /\ cache'[j] = cache[from[j]]
       /\ \A j, k \in DOMAIN cache' : from[j] = from[k] => j = k
       /\ \A k \in DOMAIN cache :
            cache[k] \in cleaning' \/ \E j \in DOMAIN cache' : cache'[j] = cache[k]
  BY <1>5, <1>6, <1>7, <1>8, <1>10
<1> QED
  BY <1>4, <1>9, <1>11, CacheMoves

LEMMA EvictDoneInv ==
  ASSUME CacheInv, ClientsInv', EvictDone
  PROVE  CacheInv'
<1> DEFINE from == [i \in DOMAIN cache |-> i]
<1>1. CacheTypeOK
  BY DEF CacheInv
<1>2. /\ object' = object /\ lease' = lease /\ cache' = cache
      /\ cleaning' = cleaning /\ protected' = None
  BY DEF EvictDone, clientVars
<1>3. \A i \in DOMAIN cache : from[i] = i
  OBVIOUS
<1>4. cache \in Seq(Objects)
  BY <1>1 DEF CacheTypeOK
<1> HIDE DEF from
<1> QED
  BY <1>2, <1>3, <1>4, CacheMoves

LEMMA DisposeInv ==
  ASSUME CacheInv, ClientsInv', Dispose
  PROVE  CacheInv'
<1>1. CacheTypeOK
  BY DEF CacheInv
<1>2. /\ object' = object /\ lease' = lease /\ protected' = protected
      /\ cache' = <<>>
      /\ cleaning' = cleaning \cup ToSet(cache)
  BY DEF Dispose, clientVars
<1>3. cache' \in Seq(Objects) /\ DOMAIN cache' = {}
  <2>1. cache' \in Seq(Objects) /\ Len(cache') = 0
    BY <1>2, EmptySeq
  <2>2. DOMAIN cache' = 1 .. 0
    BY <2>1, LenProperties
  <2> QED
    BY <2>1, <2>2
<1>4. /\ \A i \in DOMAIN cache : cache[i] \in ToSet(cache)
      /\ \A o \in ToSet(cache) : \E i \in DOMAIN cache : cache[i] = o
  BY <1>1, CachedAt DEF ToSet
<1>5. /\ cleaning \subseteq cleaning'
      /\ \A o \in cleaning' : o \in cleaning \/ \E i \in DOMAIN cache : cache[i] = o
      /\ \A i \in DOMAIN cache : cache[i] \in cleaning'
      /\ protected' \in Objects \cup {None}
  BY <1>1, <1>2, <1>4 DEF CacheTypeOK
<1> DEFINE from == [i \in {} |-> i]
<1> HIDE DEF from
<1> QED
  BY <1>2, <1>3, <1>5, CacheMoves

-----------------------------------------------------------------------------
\* all() makes the one collection of its scope, with a lease.
LEMMA AllNewInv ==
  ASSUME CacheInv, ClientsInv', NEW s \in Scopes, AllNew(s)
  PROVE  CacheInv'
<1>1. /\ CacheTypeOK /\ LiveIsLeased
      /\ CachedAreMade /\ CleaningAreMade /\ OneCachedPerScope /\ LiveIsCached
  BY DEF CacheInv
<1> DEFINE o == CHOOSE p \in Objects : ~Made(p)
           new == [scope |-> s, status |-> IF Lazy THEN "idle" ELSE "loading", subscribers |-> 0]
           n == Len(cache)
<1>2. o \in Objects /\ ~Made(o)
  BY DEF AllNew
<1>3. /\ Acquire(o, ConnectionOf[s])
      /\ object' = [object EXCEPT ![o] = new]
      /\ cache' = Append(cache, o)
      /\ protected' = o
      /\ cleaning' = cleaning
      /\ \A i \in DOMAIN cache : object[cache[i]].scope # s
  BY DEF AllNew
<1>4. /\ new \in Records
      /\ new.scope = s
      /\ new.status # "not made"
  BY DEF Records, Statuses
<1> HIDE DEF o, new
<1>5. object'[o] = new /\ \A p \in Objects \ {o} : object'[p] = object[p]
  BY <1>1, <1>2, <1>3 DEF CacheTypeOK
<1>6. /\ n \in Nat
      /\ DOMAIN cache = 1 .. n
      /\ \A i \in 1 .. n : cache[i] \in Objects \ {o}
  BY <1>1, <1>2, CachedAt DEF CachedAreMade
<1>7. /\ cache' \in Seq(Objects)
      /\ DOMAIN cache' = 1 .. n + 1
      /\ \A i \in 1 .. n : cache'[i] = cache[i]
      /\ cache'[n + 1] = o
  <2>1. cache \in Seq(Objects)
    BY <1>1 DEF CacheTypeOK
  <2>2. /\ cache' \in Seq(Objects)
        /\ Len(cache') = n + 1
        /\ \A i \in 1 .. n : cache'[i] = cache[i]
        /\ cache'[n + 1] = o
    BY <1>2, <1>3, <2>1, AppendProperties
  <2> QED
    BY <2>2, LenProperties
<1> HIDE DEF n
<1>8. PICK c \in Clients : lease' = [lease EXCEPT ![o] = c]
  BY <1>3 DEF Acquire
<1>9. /\ lease'[o] # None
      /\ \A p \in Objects \ {o} : lease'[p] = lease[p]
  <2>1. lease \in [Holders -> Clients \cup {None}] /\ o \in Holders
    BY <1>2, CollectionCacheAssumption DEF CacheInv, ClientsInv, ClientsTypeOK
  <2>2. \A p \in Objects : p \in Holders
    BY CollectionCacheAssumption
  <2> QED
    BY <1>8, <2>1, <2>2, SharedClientsAssumption
<1>10. CacheTypeOK'
  <2>1. object' \in [Objects -> Records]
    BY <1>1, <1>3, <1>4 DEF CacheTypeOK
  <2> QED
    BY <1>1, <1>2, <1>3, <1>7, <2>1 DEF CacheTypeOK
<1>11. \A p \in Objects \ {o} : Live(p)' => Live(p)
  BY <1>5 DEF Live, Status
<1>12. LiveIsLeased'
  <2> SUFFICES ASSUME NEW p \in Objects, Live(p)'
               PROVE  lease'[p] # None
    BY DEF LiveIsLeased, Live, Status
  <2>1. CASE p = o
    BY <1>9, <2>1
  <2>2. CASE p # o
    BY <1>1, <1>9, <1>11, <2>2 DEF LiveIsLeased
  <2> QED
    BY <2>1, <2>2
<1>13. CachedAreMade'
  <2> SUFFICES ASSUME NEW i \in DOMAIN cache'
               PROVE  object'[cache'[i]].status # "not made"
    BY DEF CachedAreMade, Made
  <2>1. CASE i = n + 1
    BY <1>4, <1>5, <1>7, <2>1
  <2>2. CASE i # n + 1
    <3>1. i \in 1 .. n
      BY <1>6, <1>7, <2>2
    <3>2. object'[cache'[i]] = object[cache[i]]
      BY <1>5, <1>6, <1>7, <3>1
    <3> QED
      BY <1>1, <1>6, <3>1, <3>2 DEF CachedAreMade, Made
  <2> QED
    BY <2>1, <2>2
<1>14. CleaningAreMade'
  <2>1. \A p \in cleaning' : p \in Objects \ {o} /\ Made(p)
    BY <1>1, <1>2, <1>3 DEF CleaningAreMade, CacheTypeOK
  <2> QED
    BY <1>5, <2>1 DEF CleaningAreMade, Made
<1>15. OneCachedPerScope'
  <2>1. object'[cache'[n + 1]].scope = s
    BY <1>4, <1>5, <1>7
  <2>2. \A i \in 1 .. n : object'[cache'[i]].scope = object[cache[i]].scope
    BY <1>5, <1>6, <1>7
  <2>3. \A i \in 1 .. n : object'[cache'[i]].scope # s
    BY <1>3, <1>6, <2>2
  <2>4. \A i, j \in 1 .. n :
          object'[cache'[i]].scope = object'[cache'[j]].scope => i = j
    BY <1>1, <1>6, <2>2 DEF OneCachedPerScope
  <2>5. \A i \in DOMAIN cache' : i \in 1 .. n \/ i = n + 1
    BY <1>6, <1>7
  <2> QED
    BY <2>1, <2>3, <2>4, <2>5 DEF OneCachedPerScope
<1>16. LiveIsCached'
  <2> SUFFICES ASSUME NEW p \in Objects, Live(p)'
               PROVE  p \in cleaning' \/ \E i \in DOMAIN cache' : cache'[i] = p
    BY DEF LiveIsCached, Live, Status
  <2>1. CASE p = o
    <3>1. n + 1 \in DOMAIN cache'
      BY <1>6, <1>7
    <3> QED
      BY <1>7, <2>1, <3>1
  <2>2. CASE p # o
    <3>1. p \in cleaning \/ \E i \in DOMAIN cache : cache[i] = p
      BY <1>1, <1>11, <2>2 DEF LiveIsCached
    <3>2. \A i \in DOMAIN cache : i \in DOMAIN cache' /\ cache'[i] = cache[i]
      BY <1>6, <1>7
    <3> QED
      BY <1>3, <3>1, <3>2
  <2> QED
    BY <2>1, <2>2
<1> QED
  BY <1>10, <1>12, <1>13, <1>15, <1>16, <1>14 DEF CacheInv

-----------------------------------------------------------------------------
\* The records that the life of a collection goes through.
LEMMA StatusSet ==
  ASSUME CacheTypeOK, NEW o \in Objects, NEW st \in Statuses
  PROVE  /\ [object[o] EXCEPT !.status = st] \in Records
         /\ [object[o] EXCEPT !.status = st].scope = object[o].scope
         /\ [object[o] EXCEPT !.status = st].status = st
         /\ [object EXCEPT ![o].status = st]
              = [object EXCEPT ![o] = [object[o] EXCEPT !.status = st]]
<1>1. object[o] \in Records
  BY DEF CacheTypeOK
<1>2. [object[o] EXCEPT !.status = st] \in Records
  BY <1>1 DEF Records
<1>3. /\ [object[o] EXCEPT !.status = st].scope = object[o].scope
      /\ [object[o] EXCEPT !.status = st].status = st
  BY <1>1 DEF Records
<1> QED
  BY <1>2, <1>3

\* Releasing the lease of one holder leaves the others theirs.
LEMMA ReleaseIsOwn ==
  ASSUME ClientsInv, NEW h \in Holders, Release(h)
  PROVE  \A i \in Holders \ {h} : lease'[i] = lease[i]
<1>1. lease \in [Holders -> Clients \cup {None}]
  BY DEF ClientsInv, ClientsTypeOK
<1>2. lease' = [lease EXCEPT ![h] = None]
  BY DEF Release
<1> QED
  BY <1>1, <1>2

LEMMA LosesLease ==
  ASSUME ClientsInv, NEW o \in Objects, Release(o) \/ UNCHANGED clientVars
  PROVE  \A p \in Objects \ {o} : lease'[p] = lease[p]
<1>1. \A p \in Objects : p \in Holders
  BY CollectionCacheAssumption
<1>2. CASE Release(o)
  BY <1>1, <1>2, ReleaseIsOwn
<1>3. CASE UNCHANGED clientVars
  BY <1>3 DEF clientVars
<1> QED
  BY <1>2, <1>3

LEMMA CleanUpInv ==
  ASSUME CacheInv, ClientsInv', NEW o \in Objects, CleanUp(o)
  PROVE  CacheInv'
<1>1. CacheTypeOK /\ ClientsInv
  BY DEF CacheInv
<1> DEFINE new == [object[o] EXCEPT !.status = "cleaned-up"]
<1>2. /\ object' = [object EXCEPT ![o].status = "cleaned-up"]
      /\ cleaning' = cleaning \ {o}
      /\ cache' = cache /\ protected' = protected
      /\ Release(o) \/ UNCHANGED clientVars
  BY DEF CleanUp, SetStatus
<1>3. "cleaned-up" \in Statuses
  BY DEF Statuses
<1>4. /\ new \in Records /\ new.scope = object[o].scope /\ new.status = "cleaned-up"
      /\ object' = [object EXCEPT ![o] = new]
  BY <1>1, <1>2, <1>3, StatusSet
<1> HIDE DEF new
<1>5. \A p \in Objects \ {o} : lease'[p] = lease[p]
  BY <1>1, <1>2, LosesLease
<1>6. cleaning' \subseteq cleaning /\ cleaning \ {o} \subseteq cleaning'
  BY <1>2
<1>7. new.status # "not made" /\ new.status \notin {"idle", "loading", "stalled", "ready"}
  BY <1>4
<1> QED
  BY <1>2, <1>4, <1>5, <1>6, <1>7, OneObjectMoves

LEMMA CollectInv ==
  ASSUME CacheInv, ClientsInv', NEW o \in Objects, Collect(o)
  PROVE  CacheInv'
<1>1. CacheTypeOK /\ ClientsInv
  BY DEF CacheInv
<1> DEFINE new == [object[o] EXCEPT !.status = "cleaned-up"]
<1>2. /\ object' = [object EXCEPT ![o].status = "cleaned-up"]
      /\ cleaning' = cleaning /\ cache' = cache /\ protected' = protected
      /\ Release(o) \/ UNCHANGED clientVars
  BY DEF Collect, SetStatus
<1>3. "cleaned-up" \in Statuses
  BY DEF Statuses
<1>4. /\ new \in Records /\ new.scope = object[o].scope /\ new.status = "cleaned-up"
      /\ object' = [object EXCEPT ![o] = new]
  BY <1>1, <1>2, <1>3, StatusSet
<1> HIDE DEF new
<1>5. \A p \in Objects \ {o} : lease'[p] = lease[p]
  BY <1>1, <1>2, LosesLease
<1>6. cleaning' \subseteq cleaning /\ cleaning \ {o} \subseteq cleaning'
  BY <1>2
<1>7. new.status # "not made" /\ new.status \notin {"idle", "loading", "stalled", "ready"}
  BY <1>4
<1> QED
  BY <1>2, <1>4, <1>5, <1>6, <1>7, OneObjectMoves

LEMMA LoadedInv ==
  ASSUME CacheInv, ClientsInv', NEW o \in Objects, Loaded(o) \/ LoadFails(o)
  PROVE  CacheInv'
<1>1. CacheTypeOK
  BY DEF CacheInv
<1>2. PICK st \in {"ready", "stalled"} : object' = [object EXCEPT ![o].status = st]
  BY DEF Loaded, LoadFails, SetStatus
<1> DEFINE new == [object[o] EXCEPT !.status = st]
<1>3. /\ cleaning' = cleaning /\ cache' = cache /\ protected' = protected
      /\ lease' = lease
      /\ Live(o)
  BY DEF Loaded, LoadFails, Loading, Live, Status, clientVars
<1>4. st \in Statuses
  BY DEF Statuses
<1>5. /\ new \in Records /\ new.scope = object[o].scope /\ new.status = st
      /\ object' = [object EXCEPT ![o] = new]
  BY <1>1, <1>2, <1>4, StatusSet
<1> HIDE DEF new
<1>6. cleaning' \subseteq cleaning /\ cleaning \ {o} \subseteq cleaning'
  BY <1>3
<1>7. new.status # "not made"
  BY <1>5
<1> QED
  BY <1>3, <1>5, <1>6, <1>7, OneObjectMoves

LEMMA UnsubscribeInv ==
  ASSUME CacheInv, ClientsInv', NEW o \in Objects, Unsubscribe(o)
  PROVE  CacheInv'
<1>1. CacheTypeOK
  BY DEF CacheInv
<1> DEFINE n == object[o].subscribers - 1
           new == [object[o] EXCEPT !.subscribers = n]
<1>2. /\ object' = [object EXCEPT ![o].subscribers = @ - 1]
      /\ cleaning' = cleaning /\ cache' = cache /\ protected' = protected
      /\ lease' = lease
      /\ object[o].subscribers > 0
  BY DEF Unsubscribe, clientVars
<1>3. object[o] \in Records
  BY <1>1 DEF CacheTypeOK
<1>4. n \in Nat
  BY <1>1, <1>2, ObjectIs
<1>5. object' = [object EXCEPT ![o] = new]
  BY <1>2
<1> HIDE DEF n
<1>6. new \in Records /\ new.scope = object[o].scope /\ new.status = object[o].status
  BY <1>3, <1>4 DEF Records
<1> HIDE DEF new
<1> QED
  BY <1>2, <1>5, <1>6, OneObjectMoves DEF Made, Live, Status

\* A collection that is subscribed to syncs.  Had it been cleaned up before,
\* its lease would be gone: here Restarts must be FALSE.
LEMMA SubscribeInv ==
  ASSUME CacheInv, ClientsInv', NEW o \in Objects, Subscribe(o), ~Restarts
  PROVE  CacheInv'
<1>1. CacheTypeOK
  BY DEF CacheInv
<1> DEFINE n == object[o].subscribers + 1
           st == IF Used(o) THEN object[o].status ELSE "loading"
           new == [object[o] EXCEPT !.subscribers = n, !.status = st]
<1>2. object[o] \in Records /\ object[o].status \in Statuses
  BY <1>1, ObjectIs DEF CacheTypeOK
<1>3. /\ object' = [object EXCEPT ![o] = new]
      /\ cleaning' = cleaning /\ cache' = cache /\ protected' = protected
      /\ lease' = lease
      /\ Made(o) /\ Status(o) # "cleaned-up"
  BY DEF Subscribe, clientVars
<1>4. Live(o)
  BY <1>2, <1>3 DEF Live, Made, Status, Statuses
<1>5. n \in Nat
  BY <1>1, ObjectIs
<1>6. st \in {"loading", "stalled", "ready"} /\ st \in Statuses /\ st # "not made"
  BY DEF Used, Loading, Status, Statuses
<1> HIDE DEF n, st
<1>7. new \in Records /\ new.scope = object[o].scope /\ new.status = st
  BY <1>2, <1>5, <1>6 DEF Records
<1> HIDE DEF new
<1> QED
  BY <1>3, <1>4, <1>6, <1>7, OneObjectMoves

\* A call has a lease of its own.
LEMMA CallInv ==
  ASSUME CacheInv, ClientsInv', NEW call \in Calls,
         Release(call) \/ \E k \in Connections : Acquire(call, k),
         UNCHANGED <<object, cache, protected, cleaning>>
  PROVE  CacheInv'
<1>1. lease \in [Holders -> Clients \cup {None}]
  BY DEF CacheInv, ClientsInv, ClientsTypeOK
<1>2. PICK c : lease' = [lease EXCEPT ![call] = c]
  BY DEF Release, Acquire
<1>3. \A o \in Objects : o \in Holders /\ o # call
  BY CollectionCacheAssumption
<1>4. \A o \in Objects : lease'[o] = lease[o]
  BY <1>1, <1>2, <1>3
<1>5. \A o \in Objects : Live(o)' <=> Live(o)
  BY DEF Live, Status
<1>6. LiveIsLeased'
  BY <1>4, <1>5 DEF CacheInv, LiveIsLeased
<1>7. CacheTypeOK' /\ CachedAreMade' /\ CleaningAreMade' /\ OneCachedPerScope'
  BY DEF CacheInv, CacheTypeOK, CachedAreMade, CleaningAreMade, OneCachedPerScope, Made
<1>8. LiveIsCached'
  BY <1>5 DEF CacheInv, LiveIsCached, Live, Status
<1> QED
  BY <1>6, <1>7, <1>8 DEF CacheInv

LEMMA CacheStep ==
  ASSUME ~Restarts, CacheInv, [Next]_vars
  PROVE  CacheInv'
<1>1. ClientsInv'
  BY StepOfClients, StepInv DEF CacheInv
<1>2. ASSUME NEW s \in Scopes, AllCached(s) PROVE CacheInv'
  BY <1>1, <1>2, AllCachedInv
<1>3. ASSUME NEW s \in Scopes, AllNew(s) PROVE CacheInv'
  BY <1>1, <1>3, AllNewInv
<1>4. ASSUME NEW s \in Scopes, NEW call \in Calls, StartCall(call, s) PROVE CacheInv'
  <2>1. ConnectionOf[s] \in Connections
    BY CollectionCacheAssumption
  <2> QED
    BY <1>1, <1>4, <2>1, CallInv DEF StartCall
<1>5. ASSUME NEW call \in Calls, EndCall(call) PROVE CacheInv'
  BY <1>1, <1>5, CallInv DEF EndCall
<1>6. CASE Evict
  BY <1>1, <1>6, EvictInv
<1>7. CASE EvictDone
  BY <1>1, <1>7, EvictDoneInv
<1>8. CASE Dispose
  BY <1>1, <1>8, DisposeInv
<1>9. ASSUME NEW o \in Objects, CleanUp(o) PROVE CacheInv'
  BY <1>1, <1>9, CleanUpInv
<1>10. ASSUME NEW o \in Objects, Subscribe(o) PROVE CacheInv'
  BY <1>1, <1>10, SubscribeInv
<1>11. ASSUME NEW o \in Objects, Unsubscribe(o) PROVE CacheInv'
  BY <1>1, <1>11, UnsubscribeInv
<1>12. ASSUME NEW o \in Objects, Loaded(o) \/ LoadFails(o) PROVE CacheInv'
  BY <1>1, <1>12, LoadedInv
<1>13. ASSUME NEW o \in Objects, Collect(o) PROVE CacheInv'
  BY <1>1, <1>13, CollectInv
<1>14. CASE UNCHANGED vars
  <2>1. UNCHANGED <<object, cache, protected, cleaning, lease>>
    BY <1>14 DEF vars, clientVars
  <2>2. \A o \in Objects : Live(o)' <=> Live(o)
    BY <2>1 DEF Live, Status
  <2>3. LiveIsLeased'
    BY <2>1, <2>2 DEF CacheInv, LiveIsLeased
  <2>4. CacheTypeOK' /\ CachedAreMade' /\ CleaningAreMade' /\ OneCachedPerScope'
    BY <2>1 DEF CacheInv, CacheTypeOK, CachedAreMade, CleaningAreMade, OneCachedPerScope, Made
  <2>5. LiveIsCached'
    BY <2>1, <2>2 DEF CacheInv, LiveIsCached, Live, Status
  <2> QED
    BY <1>1, <2>3, <2>4, <2>5 DEF CacheInv
<1> QED
  BY <1>2, <1>3, <1>4, <1>5, <1>6, <1>7, <1>8, <1>9, <1>10, <1>11, <1>12, <1>13, <1>14 DEF Next

-----------------------------------------------------------------------------
\* As long as no collection is used again after it was cleaned up, a collection
\* keeps its lease until it is cleaned up, and is cached until it is evicted or
\* disposed, beside no other of its scope (all, evictInactive, dispose).
THEOREM CacheInvariance ==
  ASSUME ~Restarts
  PROVE  Spec => []CacheInv
<1>1. Init => CacheInv
  BY CacheInit
<1>2. CacheInv /\ [Next]_vars => CacheInv'
  BY CacheStep
<1> QED
  BY <1>1, <1>2, PTL DEF Spec

LEMMA LeasedIsOpen == CacheInv => UsedIsOpen
<1> SUFFICES ASSUME CacheInv, NEW o \in Objects, Used(o)
             PROVE  lease[o] # None /\ state[lease[o]] = "open"
  BY DEF UsedIsOpen
<1>1. lease[o] # None
  BY DEF CacheInv, LiveIsLeased, Live, Used, Loading
<1>2. o \in Holders /\ lease[o] \in Clients
  BY <1>1, CollectionCacheAssumption DEF CacheInv, ClientsInv, ClientsTypeOK
<1>3. HoldersOf(lease[o]) # {}
  BY <1>2 DEF HoldersOf
<1> QED
  BY <1>1, <1>2, <1>3 DEF CacheInv, ClientsInv, OpenIffLeased

LEMMA CachedIsOne == CacheInv => OneLivePerScope
<1> SUFFICES ASSUME CacheInv, NEW o \in Objects, NEW p \in Objects,
                    Used(o), Used(p), object[o].scope = object[p].scope,
                    o \notin cleaning, p \notin cleaning
             PROVE  o = p
  BY DEF OneLivePerScope
<1>1. Live(o) /\ Live(p)
  BY DEF Live, Used, Loading
<1>2. PICK i \in DOMAIN cache : cache[i] = o
  BY <1>1 DEF CacheInv, LiveIsCached
<1>3. PICK j \in DOMAIN cache : cache[j] = p
  BY <1>1 DEF CacheInv, LiveIsCached
<1>4. i = j
  BY <1>2, <1>3 DEF CacheInv, OneCachedPerScope
<1> QED
  BY <1>2, <1>3, <1>4

\* Nobody closes the client under a collection that syncs: not an eviction, a
\* dispose, the garbage collection of another collection, nor an API call that
\* ends (Lease.release).
THEOREM UsedIsOpenHolds ==
  ASSUME ~Restarts
  PROVE  Spec => []UsedIsOpen
BY CacheInvariance, LeasedIsOpen, PTL

\* all() never makes a second collection beside one of its scope that syncs and
\* is not being disposed.
THEOREM OneLivePerScopeHolds ==
  ASSUME ~Restarts
  PROVE  Spec => []OneLivePerScope
BY CacheInvariance, CachedIsOne, PTL
=============================================================================
