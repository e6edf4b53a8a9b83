--------------------------- MODULE SharedClients ----------------------------
(***************************************************************************)
(* Clients shared by their connection options, with a count of leases      *)
(* (packages/tanstack-db/src/client-shared.ts).  A holder is whoever keeps *)
(* a lease: a collection or a call of an API method.                       *)
(***************************************************************************)
EXTENDS Integers, FiniteSets

CONSTANTS Holders,      \* who may hold a lease
          Connections,  \* keys of sharedClients: url, clientId and options
          Clients,      \* the clients that createClient may return
          None

ASSUME SharedClientsAssumption ==
  /\ IsFiniteSet(Holders)
  /\ None \notin Clients

VARIABLES shared,       \* sharedClients: connection |-> client or None
          refs,         \* client |-> number of leases
          state,        \* client |-> new, open or closed
          lease         \* holder |-> client of its lease or None

clientVars == <<shared, refs, state, lease>>

ClientsInit ==
  /\ shared = [k \in Connections |-> None]
  /\ refs = [c \in Clients |-> 0]
  /\ state = [c \in Clients |-> "new"]
  /\ lease = [h \in Holders |-> None]

\* The entry of the connection, or a new one.
EntryFor(k, c) == IF shared[k] # None THEN c = shared[k] ELSE state[c] = "new"

\* acquireSharedClient
Acquire(h, k) ==
  /\ lease[h] = None
  /\ \E c \in Clients :
       /\ EntryFor(k, c)
       /\ shared' = [shared EXCEPT ![k] = c]
       /\ state' = [state EXCEPT ![c] = "open"]
       /\ refs' = [refs EXCEPT ![c] = @ + 1]
       /\ lease' = [lease EXCEPT ![h] = c]

\* Mutant of Release: the entry is closed and forgotten while leases remain.
ReleaseEarly(h) ==
  /\ lease[h] # None
  /\ refs' = [refs EXCEPT ![lease[h]] = @ - 1]
  /\ shared' = [k \in Connections |-> IF shared[k] = lease[h] THEN None ELSE shared[k]]
  /\ state' = [state EXCEPT ![lease[h]] = "closed"]
  /\ lease' = [lease EXCEPT ![h] = None]

\* Mutant of Release: the closed client stays the entry of its connection.
ReleaseKeepingEntry(h) ==
  /\ lease[h] # None
  /\ refs' = [refs EXCEPT ![lease[h]] = @ - 1]
  /\ state' = IF refs[lease[h]] = 1 THEN [state EXCEPT ![lease[h]] = "closed"] ELSE state
  /\ lease' = [lease EXCEPT ![h] = None]
  /\ UNCHANGED shared

\* release, the first time: the last lease closes the client and forgets it.
Release(h) ==
  /\ lease[h] # None
  /\ refs' = [refs EXCEPT ![lease[h]] = @ - 1]
  /\ LET last == refs[lease[h]] = 1 /\ \E k \in Connections : shared[k] = lease[h] IN
     /\ shared' = IF last
                  THEN [k \in Connections |-> IF shared[k] = lease[h] THEN None ELSE shared[k]]
                  ELSE shared
     /\ state' = IF last THEN [state EXCEPT ![lease[h]] = "closed"] ELSE state
  /\ lease' = [lease EXCEPT ![h] = None]

ClientsNext ==
  \E h \in Holders : Release(h) \/ \E k \in Connections : Acquire(h, k)

ClientsSpec == ClientsInit /\ [][ClientsNext]_clientVars

-----------------------------------------------------------------------------
HoldersOf(c) == {h \in Holders : lease[h] = c}

ClientsTypeOK ==
  /\ shared \in [Connections -> Clients \cup {None}]
  /\ refs \in [Clients -> Nat]
  /\ state \in [Clients -> {"new", "open", "closed"}]
  /\ lease \in [Holders -> Clients \cup {None}]

\* The count of a client is the number of its leases that were not released.
RefsCountLeases == \A c \in Clients : refs[c] = Cardinality(HoldersOf(c))

\* An entry is open and belongs to one connection.
EntriesAreOpen ==
  /\ \A c \in Clients : state[c] = "open" <=> \E k \in Connections : shared[k] = c
  /\ \A j, k \in Connections : shared[j] = shared[k] /\ shared[j] # None => j = k

\* A client is open exactly while somebody holds a lease of it: it is closed
\* under nobody, and does not outlive its last lease.
OpenIffLeased == \A c \in Clients : state[c] = "open" <=> HoldersOf(c) # {}

ClientsInv == ClientsTypeOK /\ RefsCountLeases /\ EntriesAreOpen /\ OpenIffLeased

\* A closed client is never opened or leased again.
ClosedStaysClosed ==
  [][\A c \in Clients : state[c] = "closed" =>
       state'[c] = "closed" /\ \A h \in Holders : lease'[h] # c]_clientVars
=============================================================================
