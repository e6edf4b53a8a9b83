-------------------------- MODULE CollectionCache ---------------------------
(***************************************************************************)
(* The cache of collections of a collection type, each with a lease of a   *)
(* shared client:                                                          *)
(*   packages/tanstack-db/src/collection-type.ts        all, callApi,      *)
(*                                                      dispose            *)
(*   packages/tanstack-db/src/collection-type-cache.ts  touch, eviction    *)
(*   packages/tanstack-db/src/collection.ts             the lease of a     *)
(*                                                      collection         *)
(* A collection is an object of @tanstack/db: it starts to sync when it is *)
(* first used, is collected when it has had no subscriber for a while, and *)
(* may be used by whoever still holds it.                                  *)
(***************************************************************************)
EXTENDS SharedClients, Sequences, SequencesExt

CONSTANTS Objects,      \* the collection objects that may be created
          Calls,        \* calls of API methods
          Scopes,       \* keys of the cache: path and scope
          ConnectionOf, \* scope |-> connection of its collection type
          MaxSize,      \* maxCachedCollections
          Lazy,         \* a collection is idle until it is first used
          Restarts,     \* a collection that was cleaned up may be used again
          MaxSubscribers

ASSUME CollectionCacheAssumption ==
  /\ Holders = Objects \cup Calls /\ Objects \cap Calls = {}
  /\ ConnectionOf \in [Scopes -> Connections]
  /\ MaxSize \in Nat \ {0} /\ MaxSubscribers \in Nat
  /\ Lazy \in BOOLEAN /\ Restarts \in BOOLEAN

VARIABLES object,     \* the objects: scope, status, subscribers
          cache,      \* the cached objects, least recently used first
          protected,  \* the object all() returns while it evicts, or None
          cleaning    \* objects whose cleanupCollection has not ended

vars == <<clientVars, object, cache, protected, cleaning>>

NotMade == [scope |-> None, status |-> "not made", subscribers |-> 0]
Made(o) == object[o].status # "not made"
Status(o) == object[o].status

\* The status of @tanstack/db is "loading" also after session.start() has
\* rejected: "stalled" tells these collections apart.
Loading(o) == Status(o) \in {"loading", "stalled"}
Used(o) == Loading(o) \/ Status(o) = "ready"
SetStatus(o, s) == object' = [object EXCEPT ![o].status = s]

\* Nothing runs between the steps of a loop or up to the first await.
Awaiting == \A o \in cleaning : Loading(o)
Quiet == protected = None /\ Awaiting

Init ==
  /\ ClientsInit
  /\ object = [o \in Objects |-> NotMade]
  /\ cache = <<>> /\ protected = None /\ cleaning = {}

-----------------------------------------------------------------------------
\* all(): the cached object becomes the most recently used one, or a new
\* object is made with a lease and cached.
AllCached(s) ==
  /\ Quiet
  /\ \E i \in DOMAIN cache :
       /\ object[cache[i]].scope = s
       /\ cache' = Append(RemoveAt(cache, i), cache[i])
       /\ protected' = cache[i]
  /\ UNCHANGED <<clientVars, object, cleaning>>

AllNew(s) ==
  /\ Quiet
  /\ \A i \in DOMAIN cache : object[cache[i]].scope # s
  /\ \E o \in Objects : ~Made(o)
  /\ LET o == CHOOSE p \in Objects : ~Made(p) IN
       /\ Acquire(o, ConnectionOf[s])
       /\ object' = [object EXCEPT ![o] =
            [scope |-> s, status |-> IF Lazy THEN "idle" ELSE "loading", subscribers |-> 0]]
       /\ cache' = Append(cache, o)
       /\ protected' = o
  /\ UNCHANGED cleaning

Evictable(o) == o # protected /\ object[o].subscribers = 0 /\ ~Loading(o)

\* Mutant of Evict: an evicted collection is forgotten and not cleaned up.
EvictForgetting ==
  /\ protected # None /\ Awaiting /\ Len(cache) > MaxSize
  /\ \E i \in DOMAIN cache :
       /\ Evictable(cache[i]) /\ \A j \in 1 .. i - 1 : ~Evictable(cache[j])
       /\ cache' = RemoveAt(cache, i)
  /\ UNCHANGED <<clientVars, object, protected, cleaning>>

\* evictInactive: one turn of its loop, and its end.
Evict ==
  /\ protected # None /\ Awaiting /\ Len(cache) > MaxSize
  /\ \E i \in DOMAIN cache :
       /\ Evictable(cache[i]) /\ \A j \in 1 .. i - 1 : ~Evictable(cache[j])
       /\ cache' = RemoveAt(cache, i)
       /\ cleaning' = cleaning \cup {cache[i]}
  /\ UNCHANGED <<clientVars, object, protected>>

EvictDone ==
  /\ protected # None /\ Awaiting
  /\ Len(cache) > MaxSize => \A i \in DOMAIN cache : ~Evictable(cache[i])
  /\ protected' = None
  /\ UNCHANGED <<clientVars, object, cache, cleaning>>

\* Mutant of CleanUp: a collection that is still loading is not waited for,
\* and its subscription to the client goes on after its lease.
CleanUpAtOnce(o) ==
  /\ o \in cleaning
  /\ cleaning' = cleaning \ {o}
  /\ IF lease[o] # None THEN Release(o) ELSE UNCHANGED clientVars
  /\ UNCHANGED <<object, cache, protected>>

\* Mutant of CleanUp: the sync function of the collection keeps its lease.
CleanUpKeepingLease(o) ==
  /\ o \in cleaning /\ ~Loading(o)
  /\ cleaning' = cleaning \ {o}
  /\ SetStatus(o, "cleaned-up")
  /\ UNCHANGED <<clientVars, cache, protected>>

\* cleanupCollection, from its last await: the collection's sync function has
\* a cleanup, which returns the lease, once it has been started.
CleanUp(o) ==
  /\ o \in cleaning /\ ~Loading(o)
  /\ cleaning' = cleaning \ {o}
  /\ SetStatus(o, "cleaned-up")
  /\ IF Status(o) = "ready" /\ lease[o] # None THEN Release(o) ELSE UNCHANGED clientVars
  /\ UNCHANGED <<cache, protected>>

\* dispose(): the cache is emptied and every entry cleaned up.
Dispose ==
  /\ Quiet /\ cache # <<>>
  /\ cache' = <<>>
  /\ cleaning' = cleaning \cup ToSet(cache)
  /\ UNCHANGED <<clientVars, object, protected>>

-----------------------------------------------------------------------------
(***************************************************************************)
(* The life of a collection, as @tanstack/db runs it.                      *)
(***************************************************************************)
Subscribe(o) ==
  /\ Quiet /\ Made(o) /\ object[o].subscribers < MaxSubscribers
  /\ Status(o) = "cleaned-up" => Restarts
  /\ object' = [object EXCEPT ![o].subscribers = @ + 1,
                              ![o].status = IF Used(o) THEN @ ELSE "loading"]
  /\ UNCHANGED <<clientVars, cache, protected, cleaning>>

Unsubscribe(o) ==
  /\ Quiet /\ object[o].subscribers > 0
  /\ object' = [object EXCEPT ![o].subscribers = @ - 1]
  /\ UNCHANGED <<clientVars, cache, protected, cleaning>>

\* The session is synchronized and the collection marked as ready: after its
\* first load or, when that failed, after a later reconnection.
Loaded(o) ==
  /\ Quiet /\ Loading(o)
  /\ SetStatus(o, "ready")
  /\ UNCHANGED <<clientVars, cache, protected, cleaning>>

\* session.start() rejects: a request is refused or timed out, the socket lost
\* or never opened.  Nobody awaits it, and the collection goes on loading.
LoadFails(o) ==
  /\ Quiet /\ Status(o) = "loading"
  /\ SetStatus(o, "stalled")
  /\ UNCHANGED <<clientVars, cache, protected, cleaning>>

LoadEnds(o) == Status(o) = "loading" /\ (Loaded(o) \/ LoadFails(o))

\* The garbage collection timer of a collection without subscribers.
Collect(o) ==
  /\ Quiet /\ Used(o) /\ object[o].subscribers = 0
  /\ SetStatus(o, "cleaned-up")
  /\ IF lease[o] # None THEN Release(o) ELSE UNCHANGED clientVars
  /\ UNCHANGED <<cache, protected, cleaning>>

\* callApi: a lease for the time of the call, however it ends.
StartCall(call, s) ==
  /\ Quiet /\ Acquire(call, ConnectionOf[s])
  /\ UNCHANGED <<object, cache, protected, cleaning>>

EndCall(call) ==
  /\ Quiet /\ Release(call)
  /\ UNCHANGED <<object, cache, protected, cleaning>>

Next ==
  \/ \E s \in Scopes : AllCached(s) \/ AllNew(s) \/ \E call \in Calls : StartCall(call, s)
  \/ Evict \/ EvictDone \/ Dispose
  \/ \E o \in Objects : CleanUp(o) \/ Subscribe(o) \/ Unsubscribe(o) \/ Collect(o)
                      \/ Loaded(o) \/ LoadFails(o)
  \/ \E call \in Calls : EndCall(call)

Spec == Init /\ [][Next]_vars

\* A microtask that can run does.  A first load ends, in one way or the other,
\* because its requests time out, also when other tasks come in between again
\* and again, because the event loop serves them in turn.  Nothing is assumed of
\* a load that has failed: no reconnection need come.
FairSpec ==
  Spec /\ WF_vars(Evict) /\ WF_vars(EvictDone)
       /\ \A o \in Objects : WF_vars(CleanUp(o)) /\ SF_vars(LoadEnds(o))

-----------------------------------------------------------------------------
\* Nobody closes the client under a collection that syncs: evictions, dispose,
\* garbage collection and API calls on the same connection leave it open.
UsedIsOpen ==
  \A o \in Objects : Used(o) => lease[o] # None /\ state[lease[o]] = "open"

\* A scope has one live collection: all() never makes a second one beside a
\* collection that syncs, unless that one is being disposed.
OneLivePerScope ==
  \A o, p \in Objects :
    Used(o) /\ Used(p) /\ object[o].scope = object[p].scope /\ o # p =>
      o \in cleaning \/ p \in cleaning

\* A collection that is evicted or disposed gives its lease back, so that the
\* client of a disposed type does not stay connected, unless its first load has
\* failed: cleanupCollection then awaits preload() (collection-type-cache.ts:42-47)
\* until a reconnection lets the session synchronize, which may never be.
DisposedIsReleased ==
  \A o \in Objects : o \in cleaning ~> lease[o] = None \/ Status(o) = "stalled"
=============================================================================
