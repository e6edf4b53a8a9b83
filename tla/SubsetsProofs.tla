---------------------------- MODULE SubsetsProofs ----------------------------
(***************************************************************************)
(* Proofs about Subsets, for any rows, subsets, live queries, batches,     *)
(* page size and number of faults: the two levels of reference counts, and *)
(* the rows of the subsets, which are the rows of the shard.               *)
(***************************************************************************)
EXTENDS Subsets, ChangeLogProofs, SequenceTheorems, TLAPS

-----------------------------------------------------------------------------
(***************************************************************************)
(* The tracker.                                                            *)
(***************************************************************************)
Content == Values \cup {Gone}
Subset == [keys : SUBSET Keys, loaded : BOOLEAN, refs : Nat]

\* The subsets that hold a key.
Holding(t, k) == {id \in DOMAIN t.subsets : k \in t.subsets[id].keys}

\* A tracker whose reference counts of keys are right.
Trackers ==
  {t \in [subsets : UNION {[S -> Subset] : S \in SUBSET Ids}, keyRefs : [Keys -> Nat]] :
     /\ IsFiniteSet(DOMAIN t.subsets)
     /\ \A k \in Keys : t.keyRefs[k] = Cardinality(Holding(t, k))}

RefsOf(t, id) == IF id \in DOMAIN t.subsets THEN t.subsets[id].refs ELSE 0

LEMMA TrackerIs ==
  ASSUME NEW t \in Trackers
  PROVE  /\ DOMAIN t.subsets \in SUBSET Ids /\ IsFiniteSet(DOMAIN t.subsets)
         /\ t.subsets \in [DOMAIN t.subsets -> Subset]
         /\ t.keyRefs \in [Keys -> Nat]
         /\ t = [subsets |-> t.subsets, keyRefs |-> t.keyRefs]
         /\ \A k \in Keys : t.keyRefs[k] = Cardinality(Holding(t, k))
         /\ \A id : RefsOf(t, id) \in Nat
<1>1. /\ t.subsets \in UNION {[S -> Subset] : S \in SUBSET Ids}
      /\ t.keyRefs \in [Keys -> Nat]
      /\ t = [subsets |-> t.subsets, keyRefs |-> t.keyRefs]
      /\ IsFiniteSet(DOMAIN t.subsets)
      /\ \A k \in Keys : t.keyRefs[k] = Cardinality(Holding(t, k))
  BY DEF Trackers
<1>2. PICK S \in SUBSET Ids : t.subsets \in [S -> Subset]
  BY <1>1
<1>3. DOMAIN t.subsets = S
  BY <1>2
<1>4. \A id \in S : t.subsets[id].refs \in Nat
  BY <1>2 DEF Subset
<1> QED
  BY <1>1, <1>2, <1>3, <1>4 DEF RefsOf

LEMMA TrackerMade ==
  ASSUME NEW S \in SUBSET Ids, IsFiniteSet(S), NEW f \in [S -> Subset],
         NEW n \in [Keys -> Nat],
         \A k \in Keys : n[k] = Cardinality({id \in S : k \in f[id].keys})
  PROVE  [subsets |-> f, keyRefs |-> n] \in Trackers
<1> DEFINE t == [subsets |-> f, keyRefs |-> n]
<1>1. t.subsets = f /\ t.keyRefs = n /\ DOMAIN f = S
  OBVIOUS
<1>2. f \in UNION {[T -> Subset] : T \in SUBSET Ids}
  OBVIOUS
<1>3. t \in [subsets : UNION {[T -> Subset] : T \in SUBSET Ids}, keyRefs : [Keys -> Nat]]
  BY <1>2
<1>4. \A k \in Keys : Holding(t, k) = {id \in S : k \in f[id].keys}
  BY <1>1 DEF Holding
<1> HIDE DEF t
<1>5. t \in Trackers
  BY <1>1, <1>3, <1>4 DEF Trackers
<1> QED
  BY <1>5 DEF t

LEMMA SubsetIs ==
  ASSUME NEW t \in Trackers, NEW id \in DOMAIN t.subsets
  PROVE  /\ id \in Ids
         /\ t.subsets[id].keys \in SUBSET Keys
         /\ t.subsets[id].loaded \in BOOLEAN
         /\ t.subsets[id].refs \in Nat
         /\ t.subsets[id] = [keys |-> t.subsets[id].keys, loaded |-> t.subsets[id].loaded,
                             refs |-> t.subsets[id].refs]
         /\ RefsOf(t, id) = t.subsets[id].refs
BY TrackerIs DEF Subset, RefsOf

LEMMA HoldingIs ==
  ASSUME NEW t \in Trackers, NEW k \in Keys
  PROVE  /\ Holding(t, k) \in SUBSET (DOMAIN t.subsets) /\ IsFiniteSet(Holding(t, k))
         /\ Cardinality(Holding(t, k)) \in Nat
         /\ t.keyRefs[k] = Cardinality(Holding(t, k))
         /\ t.keyRefs[k] > 0 <=> \E id \in DOMAIN t.subsets : k \in t.subsets[id].keys
<1>1. /\ Holding(t, k) \in SUBSET (DOMAIN t.subsets) /\ IsFiniteSet(DOMAIN t.subsets)
      /\ t.keyRefs[k] = Cardinality(Holding(t, k))
  BY TrackerIs DEF Holding
<1>2. IsFiniteSet(Holding(t, k)) /\ Cardinality(Holding(t, k)) \in Nat
  BY <1>1, FS_Subset, FS_CardinalityType
<1>3. Cardinality(Holding(t, k)) = 0 <=> Holding(t, k) = {}
  BY <1>2, FS_EmptySet
<1>4. Holding(t, k) # {} <=> \E id \in DOMAIN t.subsets : k \in t.subsets[id].keys
  BY DEF Holding
<1> QED
  BY <1>1, <1>2, <1>3, <1>4

LEMMA MaxOfTwo ==
  ASSUME NEW n \in Int
  PROVE  Max({0, n}) = IF n > 0 THEN n ELSE 0
<1> DEFINE m == IF n > 0 THEN n ELSE 0
<1>1. m \in {0, n} /\ \A y \in {0, n} : m >= y
  OBVIOUS
<1>2. \A x \in {0, n} : (\A y \in {0, n} : x >= y) => x = m
  OBVIOUS
<1> HIDE DEF m
<1>3. Max({0, n}) = m
  BY <1>1, <1>2 DEF Max
<1> QED
  BY <1>3 DEF m

\* retain: one reference more, and an empty subset if there was none.
RetainOk(t, u, id) ==
  /\ u \in Trackers /\ u.keyRefs = t.keyRefs
  /\ DOMAIN u.subsets = DOMAIN t.subsets \cup {id}
  /\ RefsOf(u, id) = RefsOf(t, id) + 1
  /\ \A x \in DOMAIN t.subsets : u.subsets[x].keys = t.subsets[x].keys
                                 /\ u.subsets[x].loaded = t.subsets[x].loaded
  /\ id \notin DOMAIN t.subsets =>
       u.subsets[id] = [keys |-> {}, loaded |-> FALSE, refs |-> 1]
  /\ \A x \in DOMAIN t.subsets \ {id} : u.subsets[x] = t.subsets[x]

LEMMA RetainIs ==
  ASSUME NEW t \in Trackers, NEW id \in Ids
  PROVE  RetainOk(t, Retain(t, id), id)
<1> USE DEF RetainOk
<1> DEFINE S == DOMAIN t.subsets \cup {id}
           f == [x \in S |->
                   IF x # id THEN t.subsets[x]
                   ELSE IF id \in DOMAIN t.subsets
                   THEN [t.subsets[id] EXCEPT !.refs = @ + 1]
                   ELSE [keys |-> {}, loaded |-> FALSE, refs |-> 1]]
           u == Retain(t, id)
<1>1. /\ DOMAIN t.subsets \in SUBSET Ids /\ IsFiniteSet(DOMAIN t.subsets)
      /\ t.subsets \in [DOMAIN t.subsets -> Subset] /\ t.keyRefs \in [Keys -> Nat]
      /\ t = [subsets |-> t.subsets, keyRefs |-> t.keyRefs]
  BY TrackerIs
<1>2. u = [subsets |-> f, keyRefs |-> t.keyRefs]
  <2>1. CASE id \in DOMAIN t.subsets
    <3>1. u = [subsets |-> [t.subsets EXCEPT ![id].refs = @ + 1], keyRefs |-> t.keyRefs]
      BY <1>1, <2>1 DEF Retain
    <3>2. [t.subsets EXCEPT ![id].refs = @ + 1] = f
      BY <1>1, <2>1
    <3> QED
      BY <3>1, <3>2
  <2>2. CASE id \notin DOMAIN t.subsets
    <3>1. u = [subsets |-> Put(t.subsets, id, [keys |-> {}, loaded |-> FALSE, refs |-> 1]),
               keyRefs |-> t.keyRefs]
      BY <1>1, <2>2 DEF Retain
    <3>2. Put(t.subsets, id, [keys |-> {}, loaded |-> FALSE, refs |-> 1]) = f
      BY <1>1, <2>2 DEF Put
    <3> QED
      BY <3>1, <3>2
  <2> QED
    BY <2>1, <2>2
<1>3. /\ f \in [S -> Subset]
      /\ id \in DOMAIN t.subsets => /\ f[id].keys = t.subsets[id].keys
                                    /\ f[id].loaded = t.subsets[id].loaded
                                    /\ f[id].refs = t.subsets[id].refs + 1
      /\ id \notin DOMAIN t.subsets => f[id] = [keys |-> {}, loaded |-> FALSE, refs |-> 1]
      /\ \A x \in DOMAIN t.subsets \ {id} : f[x] = t.subsets[x]
  <2>1. \A x \in DOMAIN t.subsets : t.subsets[x] \in Subset
    BY <1>1
  <2>2. \A x \in DOMAIN t.subsets \ {id} : f[x] = t.subsets[x]
    OBVIOUS
  <2>3. ASSUME id \in DOMAIN t.subsets
        PROVE  /\ f[id] \in Subset
               /\ f[id].keys = t.subsets[id].keys
               /\ f[id].loaded = t.subsets[id].loaded
               /\ f[id].refs = t.subsets[id].refs + 1
    <3>1. f[id] = [t.subsets[id] EXCEPT !.refs = @ + 1]
      BY <2>3
    <3>2. t.subsets[id] \in Subset
      BY <2>1, <2>3
    <3> HIDE DEF f
    <3> QED
      BY <3>1, <3>2 DEF Subset
  <2>4. ASSUME id \notin DOMAIN t.subsets
        PROVE  f[id] \in Subset /\ f[id] = [keys |-> {}, loaded |-> FALSE, refs |-> 1]
    <3>1. f[id] = [keys |-> {}, loaded |-> FALSE, refs |-> 1]
      BY <2>4
    <3> HIDE DEF f
    <3> QED
      BY <3>1 DEF Subset
  <2>5. \A x \in S : f[x] \in Subset
    BY <2>1, <2>2, <2>3, <2>4
  <2>6. f \in [S -> Subset]
    BY <2>5
  <2> QED
    BY <2>2, <2>3, <2>4, <2>6
<1>4. S \in SUBSET Ids /\ IsFiniteSet(S)
  BY <1>1, FS_AddElement
<1> HIDE DEF f
<1>5. \A k \in Keys : {x \in S : k \in f[x].keys} = Holding(t, k)
  BY <1>3 DEF Holding
<1>6. u \in Trackers
  <2>1. \A k \in Keys : t.keyRefs[k] = Cardinality({x \in S : k \in f[x].keys})
    BY <1>5, TrackerIs
  <2>2. [subsets |-> f, keyRefs |-> t.keyRefs] \in Trackers
    BY <1>1, <1>3, <1>4, <2>1, TrackerMade
  <2> QED
    BY <1>2, <2>2
<1>7. u.subsets = f /\ u.keyRefs = t.keyRefs /\ DOMAIN f = S
  BY <1>2, <1>3
<1> HIDE DEF u
<1> QED
  BY <1>3, <1>6, <1>7 DEF u, RefsOf

LEMMA ReleasedKeys ==
  ASSUME NEW t \in Trackers, NEW id \in DOMAIN t.subsets
  PROVE  LET n == ReleaseKeys(t.keyRefs, t.subsets[id].keys) IN
         /\ n \in [Keys -> Nat]
         /\ \A k \in Keys : n[k] = Cardinality(Holding(t, k) \ {id})
<1> DEFINE n == ReleaseKeys(t.keyRefs, t.subsets[id].keys)
<1>1. ASSUME NEW k \in Keys
      PROVE  n[k] = Cardinality(Holding(t, k) \ {id}) /\ n[k] \in Nat
  <2>1. /\ IsFiniteSet(Holding(t, k)) /\ t.keyRefs[k] = Cardinality(Holding(t, k))
        /\ Cardinality(Holding(t, k)) \in Nat
    BY HoldingIs
  <2>2. IsFiniteSet(Holding(t, k) \ {id})
    BY <2>1, FS_RemoveElement
  <2>3. Cardinality(Holding(t, k) \ {id}) \in Nat
    BY <2>2, FS_CardinalityType
  <2>4. CASE k \in t.subsets[id].keys
    <3>1. id \in Holding(t, k)
      BY <2>4 DEF Holding
    <3>2. Cardinality(Holding(t, k) \ {id}) = Cardinality(Holding(t, k)) - 1
      BY <2>1, <3>1, FS_RemoveElement
    <3>3. n[k] = Max({0, t.keyRefs[k] - 1})
      BY <2>4 DEF ReleaseKeys
    <3>4. t.keyRefs[k] - 1 \in Int
      BY <2>1
    <3>5. n[k] = IF t.keyRefs[k] - 1 > 0 THEN t.keyRefs[k] - 1 ELSE 0
      BY <3>3, <3>4, MaxOfTwo
    <3> QED
      BY <2>1, <2>3, <3>2, <3>5
  <2>5. CASE k \notin t.subsets[id].keys
    <3>1. Holding(t, k) \ {id} = Holding(t, k)
      BY <2>5 DEF Holding
    <3>2. n[k] = t.keyRefs[k]
      BY <2>5 DEF ReleaseKeys
    <3> QED
      BY <2>1, <3>1, <3>2
  <2> QED
    BY <2>4, <2>5
<1>2. n = [k \in Keys |-> n[k]]
  BY DEF ReleaseKeys
<1> QED
  BY <1>1, <1>2

\* The subsets of u are those of t, as far as live queries see it.
SameSubsets(t, u) ==
  /\ DOMAIN u.subsets = DOMAIN t.subsets
  /\ \A x \in DOMAIN t.subsets : u.subsets[x].refs = t.subsets[x].refs
                                 /\ u.subsets[x].loaded = t.subsets[x].loaded

\* replace: the subset holds these keys, and is loaded.
ReplaceOk(t, u, id, keys) ==
  /\ u \in Trackers
  /\ DOMAIN u.subsets = DOMAIN t.subsets \cup {id}
  /\ \A x : RefsOf(u, x) = RefsOf(t, x)
  /\ u.subsets[id].keys = keys /\ u.subsets[id].loaded
  /\ \A x \in DOMAIN t.subsets \ {id} : u.subsets[x] = t.subsets[x]

LEMMA ReplaceIs ==
  ASSUME NEW t \in Trackers, NEW id \in Ids, NEW keys \in SUBSET Keys
  PROVE  ReplaceOk(t, Replace(t, id, keys), id, keys)
<1> USE DEF ReplaceOk
<1> DEFINE S == DOMAIN t.subsets \cup {id}
           old == IF id \in DOMAIN t.subsets THEN t.subsets[id]
                  ELSE [keys |-> {}, refs |-> 0]
           released == ReleaseKeys(t.keyRefs, old.keys)
           r == [keys |-> keys, loaded |-> TRUE, refs |-> old.refs]
           f == Put(t.subsets, id, r)
           n == [k \in Keys |-> IF k \in keys THEN released[k] + 1 ELSE released[k]]
           u == Replace(t, id, keys)
<1>1. /\ DOMAIN t.subsets \in SUBSET Ids /\ IsFiniteSet(DOMAIN t.subsets)
      /\ t.subsets \in [DOMAIN t.subsets -> Subset] /\ t.keyRefs \in [Keys -> Nat]
  BY TrackerIs
<1>2. u = [subsets |-> f, keyRefs |-> n]
  BY Zenon DEF Replace
<1>3. DOMAIN f = S /\ f[id] = r /\ \A x \in DOMAIN t.subsets \ {id} : f[x] = t.subsets[x]
  <2>1. f = [x \in DOMAIN t.subsets \cup {id} |-> IF x = id THEN r ELSE t.subsets[x]]
    BY Zenon DEF Put
  <2> HIDE DEF f, r, old
  <2> QED
    BY <2>1
<1>4. old.refs = RefsOf(t, id) /\ old.refs \in Nat
  BY SubsetIs DEF RefsOf
<1>5. \A k \in Keys : /\ released[k] = Cardinality(Holding(t, k) \ {id})
                      /\ released[k] \in Nat
                      /\ IsFiniteSet(Holding(t, k) \ {id})
  <2> SUFFICES ASSUME NEW k \in Keys
               PROVE  /\ released[k] = Cardinality(Holding(t, k) \ {id})
                      /\ released[k] \in Nat
                      /\ IsFiniteSet(Holding(t, k) \ {id})
    OBVIOUS
  <2>1. IsFiniteSet(Holding(t, k) \ {id})
    BY HoldingIs, FS_RemoveElement
  <2>2. Cardinality(Holding(t, k) \ {id}) \in Nat
    BY <2>1, FS_CardinalityType
  <2>3. CASE id \in DOMAIN t.subsets
    <3>1. released = ReleaseKeys(t.keyRefs, t.subsets[id].keys)
      BY <2>3
    <3>2. released[k] = Cardinality(Holding(t, k) \ {id})
      BY <2>3, <3>1, ReleasedKeys
    <3> QED
      BY <2>1, <2>2, <3>2
  <2>4. CASE id \notin DOMAIN t.subsets
    <3>1. old.keys = {}
      BY <2>4
    <3> HIDE DEF old
    <3>2. released[k] = t.keyRefs[k]
      BY <3>1 DEF ReleaseKeys
    <3>3. Holding(t, k) \ {id} = Holding(t, k)
      BY <2>4 DEF Holding
    <3>4. t.keyRefs[k] = Cardinality(Holding(t, k))
      BY HoldingIs
    <3> QED
      BY <2>1, <2>2, <3>2, <3>3, <3>4
  <2> QED
    BY <2>3, <2>4
<1> HIDE DEF f, old, released
<1>6. f \in [S -> Subset]
  <2>1. r \in Subset
    BY <1>4 DEF Subset
  <2>2. \A x \in S : f[x] \in Subset
    BY <1>1, <1>3, <2>1
  <2>3. f = [x \in S |-> f[x]]
    BY <1>3 DEF f, Put
  <2> QED
    BY <2>2, <2>3
<1>7. n \in [Keys -> Nat]
  <2>1. \A k \in Keys : released[k] \in Nat
    BY <1>5
  <2> QED
    BY <2>1
<1>8. ASSUME NEW k \in Keys
      PROVE  n[k] = Cardinality({x \in S : k \in f[x].keys})
  <2>1. CASE k \in keys
    <3>1. {x \in S : k \in f[x].keys} = (Holding(t, k) \ {id}) \cup {id}
      BY <1>3, <2>1 DEF Holding
    <3>2. Cardinality((Holding(t, k) \ {id}) \cup {id}) = Cardinality(Holding(t, k) \ {id}) + 1
      BY <1>5, FS_AddElement
    <3> QED
      BY <1>5, <2>1, <3>1, <3>2
  <2>2. CASE k \notin keys
    <3>1. {x \in S : k \in f[x].keys} = Holding(t, k) \ {id}
      BY <1>3, <2>2 DEF Holding
    <3> QED
      BY <1>5, <2>2, <3>1
  <2> QED
    BY <2>1, <2>2
<1>9. S \in SUBSET Ids /\ IsFiniteSet(S)
  BY <1>1, FS_AddElement
<1> HIDE DEF n
<1>10. u \in Trackers
  <2>1. [subsets |-> f, keyRefs |-> n] \in Trackers
    BY <1>6, <1>7, <1>8, <1>9, TrackerMade
  <2> QED
    BY <1>2, <2>1
<1>11. u.subsets = f
  BY <1>2
<1> HIDE DEF u
<1>12. \A x : RefsOf(u, x) = RefsOf(t, x)
  BY <1>3, <1>4, <1>11 DEF RefsOf
<1>13. u.subsets[id].keys = keys /\ u.subsets[id].loaded
  BY <1>3, <1>11
<1> QED
  BY <1>3, <1>10, <1>11, <1>12, <1>13 DEF u

\* expire: a subset in use stays.
ExpireOk(t, u, id) ==
  LET out == id \in DOMAIN t.subsets /\ RefsOf(t, id) = 0
  IN
  /\ u \in Trackers
  /\ ~out => u = t
  /\ DOMAIN u.subsets = IF out THEN DOMAIN t.subsets \ {id} ELSE DOMAIN t.subsets
  /\ \A x : RefsOf(u, x) = RefsOf(t, x)
  /\ \A x \in DOMAIN u.subsets : u.subsets[x] = t.subsets[x]

LEMMA ExpireIs ==
  ASSUME NEW t \in Trackers, NEW id \in Ids
  PROVE  ExpireOk(t, Expire(t, id), id)
<1> USE DEF ExpireOk
<1> DEFINE u == Expire(t, id)
           out == id \in DOMAIN t.subsets /\ RefsOf(t, id) = 0
<1>0. id \in DOMAIN t.subsets =>
        t.subsets[id].refs \in Nat /\ RefsOf(t, id) = t.subsets[id].refs
  <2> SUFFICES ASSUME id \in DOMAIN t.subsets
               PROVE  t.subsets[id].refs \in Nat /\ RefsOf(t, id) = t.subsets[id].refs
    OBVIOUS
  <2> QED
    BY SubsetIs
<1>1. CASE ~out
  <2>1. id \in DOMAIN t.subsets => t.subsets[id].refs > 0
    BY <1>0, <1>1
  <2>2. u = t
    BY <2>1 DEF Expire
  <2> HIDE DEF u, out
  <2> QED
    BY <1>1, <2>2 DEF u, out
<1>2. CASE out
  <2> DEFINE S == DOMAIN t.subsets \ {id}
             f == Restrict(t.subsets, S)
             n == ReleaseKeys(t.keyRefs, t.subsets[id].keys)
  <2>1. /\ DOMAIN t.subsets \in SUBSET Ids /\ IsFiniteSet(DOMAIN t.subsets)
        /\ t.subsets \in [DOMAIN t.subsets -> Subset] /\ t.keyRefs \in [Keys -> Nat]
    BY TrackerIs
  <2>2. ~(t.subsets[id].refs > 0) /\ id \in DOMAIN t.subsets
    BY <1>0, <1>2
  <2>3. u = [subsets |-> f, keyRefs |-> n]
    BY <2>2 DEF Expire
  <2>4. /\ f \in [S -> Subset] /\ DOMAIN f = S
        /\ \A x \in S : f[x] = t.subsets[x]
    BY <2>1 DEF Restrict
  <2>5. n \in [Keys -> Nat] /\ \A k \in Keys : n[k] = Cardinality(Holding(t, k) \ {id})
    BY <2>2, ReleasedKeys
  <2> HIDE DEF f, n
  <2>6. \A k \in Keys : {x \in S : k \in f[x].keys} = Holding(t, k) \ {id}
    BY <2>4 DEF Holding
  <2>7. S \in SUBSET Ids /\ IsFiniteSet(S)
    BY <2>1, FS_RemoveElement
  <2>8. \A k \in Keys : n[k] = Cardinality({x \in S : k \in f[x].keys})
    BY <2>5, <2>6
  <2>9. u \in Trackers
    <3>1. [subsets |-> f, keyRefs |-> n] \in Trackers
      BY <2>4, <2>5, <2>7, <2>8, TrackerMade
    <3> QED
      BY <2>3, <3>1
  <2>10. u.subsets = f
    BY <2>3
  <2> HIDE DEF u
  <2>11. \A x : RefsOf(u, x) = RefsOf(t, x)
    BY <1>2, <2>4, <2>10 DEF RefsOf
  <2> QED
    BY <1>2, <2>4, <2>9, <2>10, <2>11 DEF u
<1> QED
  BY <1>1, <1>2

OneLess(n) == IF n > 0 THEN n - 1 ELSE 0

\* release: one reference less, and no subset without references unless retained.
ReleaseOk(t, u, id, retain) ==
  /\ u \in Trackers
  /\ DOMAIN u.subsets = IF ~retain /\ OneLess(RefsOf(t, id)) = 0
                        THEN DOMAIN t.subsets \ {id} ELSE DOMAIN t.subsets
  /\ RefsOf(u, id) = OneLess(RefsOf(t, id)) /\ \A x : x # id => RefsOf(u, x) = RefsOf(t, x)
  /\ \A x \in DOMAIN u.subsets : u.subsets[x].keys = t.subsets[x].keys
                                 /\ u.subsets[x].loaded = t.subsets[x].loaded
  /\ retain => u.keyRefs = t.keyRefs

LEMMA ReleaseIs ==
  ASSUME NEW t \in Trackers, NEW id \in Ids, NEW retain \in BOOLEAN
  PROVE  ReleaseOk(t, Release(t, id, retain), id, retain)
<1> USE DEF ReleaseOk
<1> DEFINE u == Release(t, id, retain)
           left == OneLess(RefsOf(t, id))
<1>1. /\ DOMAIN t.subsets \in SUBSET Ids /\ IsFiniteSet(DOMAIN t.subsets)
      /\ t.subsets \in [DOMAIN t.subsets -> Subset] /\ t.keyRefs \in [Keys -> Nat]
      /\ t = [subsets |-> t.subsets, keyRefs |-> t.keyRefs]
      /\ \A k \in Keys : t.keyRefs[k] = Cardinality(Holding(t, k))
  BY TrackerIs
<1>2. CASE id \notin DOMAIN t.subsets
  <2>1. u = t /\ RefsOf(t, id) = 0 /\ left = 0 /\ DOMAIN t.subsets \ {id} = DOMAIN t.subsets
    BY <1>2 DEF Release, RefsOf, OneLess
  <2> HIDE DEF u, left
  <2> QED
    BY <2>1 DEF u, left
<1>3. CASE id \in DOMAIN t.subsets
  <2> DEFINE f == [t.subsets EXCEPT ![id].refs = Max({0, @ - 1})]
             v == [subsets |-> f, keyRefs |-> t.keyRefs]
  <2>1. t.subsets[id] \in Subset /\ RefsOf(t, id) = t.subsets[id].refs
        /\ t.subsets[id].refs \in Nat
    <3>1. t.subsets[id] \in Subset
      BY <1>1, <1>3
    <3>2. RefsOf(t, id) = t.subsets[id].refs /\ t.subsets[id].refs \in Nat
      BY <1>3, SubsetIs
    <3> QED
      BY <3>1, <3>2
  <2>2. Max({0, t.subsets[id].refs - 1}) = left /\ left \in Nat
    <3>1. t.subsets[id].refs - 1 \in Int
      BY <2>1
    <3>2. Max({0, t.subsets[id].refs - 1}) =
            IF t.subsets[id].refs - 1 > 0 THEN t.subsets[id].refs - 1 ELSE 0
      BY <3>1, MaxOfTwo
    <3> QED
      BY <2>1, <3>2 DEF OneLess
  <2> HIDE DEF left
  <2>3. /\ DOMAIN f = DOMAIN t.subsets
        /\ f[id] = [t.subsets[id] EXCEPT !.refs = left]
        /\ \A x \in DOMAIN t.subsets \ {id} : f[x] = t.subsets[x]
        /\ f = [x \in DOMAIN t.subsets |-> f[x]]
    BY <1>1, <1>3, <2>2
  <2>4. [t EXCEPT !.subsets[id].refs = Max({0, @ - 1})] = v
    BY <1>1
  <2> HIDE DEF f
  <2>5. f[id] \in Subset /\ f[id].refs = left /\ f[id].keys = t.subsets[id].keys
        /\ f[id].loaded = t.subsets[id].loaded
    BY <2>1, <2>2, <2>3 DEF Subset
  <2>6. f \in [DOMAIN t.subsets -> Subset]
    <3>1. \A x \in DOMAIN t.subsets : f[x] \in Subset
      BY <1>1, <2>3, <2>5
    <3> QED
      BY <2>3, <3>1
  <2>7. \A k \in Keys : {x \in DOMAIN t.subsets : k \in f[x].keys} = Holding(t, k)
    BY <2>3, <2>5 DEF Holding
  <2>8. v \in Trackers
    <3>1. \A k \in Keys : t.keyRefs[k] = Cardinality({x \in DOMAIN t.subsets : k \in f[x].keys})
      BY <1>1, <2>7
    <3> QED
      BY <1>1, <2>6, <3>1, TrackerMade
  <2>9. v.subsets = f
    OBVIOUS
  <2> HIDE DEF v
  <2>10. /\ RefsOf(v, id) = left /\ \A x : x # id => RefsOf(v, x) = RefsOf(t, x)
         /\ DOMAIN v.subsets = DOMAIN t.subsets
         /\ \A x \in DOMAIN v.subsets : v.subsets[x].keys = t.subsets[x].keys
                                        /\ v.subsets[x].loaded = t.subsets[x].loaded
    BY <1>3, <2>3, <2>5, <2>9 DEF RefsOf
  <2>11. u = IF retain THEN v ELSE Expire(v, id)
    BY <1>3, <2>4 DEF Release
  <2>12. CASE retain
    <3>1. u = v /\ v.keyRefs = t.keyRefs
      BY <2>11, <2>12 DEF v
    <3> QED
      BY <2>8, <2>10, <2>12, <3>1 DEF left
  <2>13. CASE ~retain
    <3> DEFINE w == Expire(v, id)
    <3>1. /\ w \in Trackers
          /\ DOMAIN w.subsets = IF id \in DOMAIN v.subsets /\ RefsOf(v, id) = 0
                                THEN DOMAIN v.subsets \ {id} ELSE DOMAIN v.subsets
          /\ \A x : RefsOf(w, x) = RefsOf(v, x)
          /\ \A x \in DOMAIN w.subsets : w.subsets[x] = v.subsets[x]
      BY <2>8, ExpireIs DEF ExpireOk
    <3>2. u = w
      BY <2>11, <2>13
    <3> HIDE DEF w, u
    <3>3. DOMAIN u.subsets = IF ~retain /\ left = 0 THEN DOMAIN t.subsets \ {id}
                             ELSE DOMAIN t.subsets
      BY <1>3, <2>10, <2>13, <3>1, <3>2
    <3>4. RefsOf(u, id) = left /\ \A x : x # id => RefsOf(u, x) = RefsOf(t, x)
      BY <2>10, <3>1, <3>2
    <3>5. \A x \in DOMAIN u.subsets : u.subsets[x].keys = t.subsets[x].keys
                                      /\ u.subsets[x].loaded = t.subsets[x].loaded
      <4> SUFFICES ASSUME NEW x \in DOMAIN u.subsets
                   PROVE  u.subsets[x].keys = t.subsets[x].keys
                          /\ u.subsets[x].loaded = t.subsets[x].loaded
        OBVIOUS
      <4>1. x \in DOMAIN v.subsets /\ u.subsets[x] = v.subsets[x]
        BY <3>1, <3>2
      <4> QED
        BY <2>10, <4>1
    <3> QED
      BY <2>13, <3>1, <3>2, <3>3, <3>4, <3>5 DEF u, left
  <2> QED
    BY <2>12, <2>13
<1> QED
  BY <1>2, <1>3

\* reconcileRow: the row belongs to the subsets that take it.
Takes(t, id, value) == t.subsets[id].loaded => value \in Accepts[id]

LEMMA ReconcileIs ==
  ASSUME NEW t \in Trackers, NEW k \in Keys, NEW value \in Content
  PROVE  LET u == ReconcileRow(t, k, value) IN
         /\ u \in Trackers /\ SameSubsets(t, u)
         /\ \A x \in DOMAIN t.subsets :
              u.subsets[x].keys = IF Takes(t, x, value) THEN t.subsets[x].keys \cup {k}
                                  ELSE t.subsets[x].keys \ {k}
<1> DEFINE S == DOMAIN t.subsets
           matching == {id \in S : t.subsets[id].loaded => value \in Accepts[id]}
           had == {id \in S : k \in t.subsets[id].keys}
           f == [id \in S |-> [t.subsets[id] EXCEPT !.keys =
                                 IF id \in matching THEN @ \cup {k} ELSE @ \ {k}]]
           n == [t.keyRefs EXCEPT ![k] = @ + Cardinality(matching \ had)
                                           - Cardinality(had \ matching)]
           u == ReconcileRow(t, k, value)
<1>1. /\ S \in SUBSET Ids /\ IsFiniteSet(S)
      /\ t.subsets \in [S -> Subset] /\ t.keyRefs \in [Keys -> Nat]
      /\ \A j \in Keys : t.keyRefs[j] = Cardinality(Holding(t, j))
  BY TrackerIs
<1>2. u = [subsets |-> f, keyRefs |-> n]
  BY Zenon DEF ReconcileRow
<1>3. DOMAIN f = S
  OBVIOUS
<1>4. ASSUME NEW x \in S
      PROVE  /\ f[x] \in Subset
             /\ f[x].refs = t.subsets[x].refs /\ f[x].loaded = t.subsets[x].loaded
             /\ f[x].keys = IF x \in matching THEN t.subsets[x].keys \cup {k}
                            ELSE t.subsets[x].keys \ {k}
  <2> DEFINE held_x == IF x \in matching THEN t.subsets[x].keys \cup {k}
                       ELSE t.subsets[x].keys \ {k}
  <2>1. t.subsets[x] \in Subset
    BY <1>1
  <2>2. f[x] = [t.subsets[x] EXCEPT !.keys = held_x]
    OBVIOUS
  <2>3. held_x \in SUBSET Keys
    BY <2>1 DEF Subset
  <2> HIDE DEF f, held_x
  <2>4. f[x] \in Subset /\ f[x].refs = t.subsets[x].refs
        /\ f[x].loaded = t.subsets[x].loaded /\ f[x].keys = held_x
    BY <2>1, <2>2, <2>3 DEF Subset
  <2> QED
    BY <2>4 DEF held_x
<1>5. matching \in SUBSET S /\ had = Holding(t, k)
  BY DEF Holding
<1>6. \A x \in S : x \in matching <=> Takes(t, x, value)
  BY DEF Takes
<1> HIDE DEF matching, had, f
<1>7. f \in [S -> Subset]
  <2>1. f = [x \in S |-> f[x]]
    BY DEF f
  <2> QED
    BY <1>4, <2>1
<1>8. t.keyRefs[k] + Cardinality(matching \ had) - Cardinality(had \ matching)
        = Cardinality(matching)
      /\ Cardinality(matching) \in Nat
  <2>1. IsFiniteSet(matching) /\ IsFiniteSet(had)
    BY <1>1, <1>5, FS_Subset, HoldingIs
  <2>2. t.keyRefs[k] = Cardinality(had)
    BY <1>1, <1>5
  <2>3. Cardinality(matching \ had) = Cardinality(matching) - Cardinality(matching \cap had)
    BY <2>1, FS_Difference
  <2>4. Cardinality(had \ matching) = Cardinality(had) - Cardinality(had \cap matching)
    BY <2>1, FS_Difference
  <2>5. matching \cap had = had \cap matching
    OBVIOUS
  <2>6. IsFiniteSet(matching \cap had)
    BY <2>1, FS_Subset
  <2>7. /\ Cardinality(matching) \in Nat /\ Cardinality(had) \in Nat
        /\ Cardinality(matching \cap had) \in Nat
    BY <2>1, <2>6, FS_CardinalityType
  <2>8. Cardinality(had \ matching) = Cardinality(had) - Cardinality(matching \cap had)
    BY <2>4, <2>5
  <2> DEFINE a == Cardinality(matching)
             b == Cardinality(had)
             c == Cardinality(matching \cap had)
             d == Cardinality(matching \ had)
             e == Cardinality(had \ matching)
  <2>9. a \in Nat /\ b \in Nat /\ c \in Nat /\ d = a - c /\ e = b - c /\ t.keyRefs[k] = b
    BY <2>2, <2>3, <2>7, <2>8
  <2> HIDE DEF a, b, c, d, e
  <2>10. t.keyRefs[k] + d - e = a /\ a \in Nat
    BY <2>9
  <2> QED
    BY <2>10 DEF a, d, e
<1>9. /\ n[k] = Cardinality(matching)
      /\ \A j \in Keys \ {k} : n[j] = t.keyRefs[j]
      /\ n \in [Keys -> Nat]
  BY <1>1, <1>8
<1> HIDE DEF n
<1>10. ASSUME NEW j \in Keys
       PROVE  n[j] = Cardinality({x \in S : j \in f[x].keys})
  <2>1. CASE j = k
    <3>1. {x \in S : j \in f[x].keys} = matching
      BY <1>4, <1>5, <2>1
    <3> QED
      BY <1>9, <2>1, <3>1
  <2>2. CASE j # k
    <3>1. \A x \in S : j \in f[x].keys <=> j \in t.subsets[x].keys
      BY <1>4, <2>2
    <3>2. {x \in S : j \in f[x].keys} = Holding(t, j)
      BY <3>1 DEF Holding
    <3> QED
      BY <1>1, <1>9, <2>2, <3>2
  <2> QED
    BY <2>1, <2>2
<1>11. u \in Trackers
  <2>1. [subsets |-> f, keyRefs |-> n] \in Trackers
    BY <1>1, <1>7, <1>9, <1>10, TrackerMade
  <2> QED
    BY <1>2, <2>1
<1>12. u.subsets = f
  BY <1>2
<1> HIDE DEF u
<1>13. SameSubsets(t, u)
  BY <1>3, <1>4, <1>12 DEF SameSubsets
<1>14. \A x \in S : u.subsets[x].keys = IF Takes(t, x, value) THEN t.subsets[x].keys \cup {k}
                                        ELSE t.subsets[x].keys \ {k}
  BY <1>4, <1>6, <1>12
<1> QED
  BY <1>11, <1>13, <1>14 DEF u

\* deleteKey: no subset holds it.
LEMMA DeleteKeyIs ==
  ASSUME NEW t \in Trackers, NEW k \in Keys
  PROVE  LET u == DeleteKey(t, k) IN
         /\ u \in Trackers /\ SameSubsets(t, u)
         /\ \A x \in DOMAIN t.subsets : u.subsets[x].keys = t.subsets[x].keys \ {k}
<1> DEFINE S == DOMAIN t.subsets
           f == [id \in S |-> [t.subsets[id] EXCEPT !.keys = @ \ {k}]]
           n == [t.keyRefs EXCEPT ![k] = 0]
           u == DeleteKey(t, k)
<1>1. /\ S \in SUBSET Ids /\ IsFiniteSet(S)
      /\ t.subsets \in [S -> Subset] /\ t.keyRefs \in [Keys -> Nat]
      /\ \A j \in Keys : t.keyRefs[j] = Cardinality(Holding(t, j))
  BY TrackerIs
<1>2. u = [subsets |-> f, keyRefs |-> n]
  BY Zenon DEF DeleteKey
<1>3. DOMAIN f = S
  OBVIOUS
<1>4. ASSUME NEW x \in S
      PROVE  /\ f[x] \in Subset
             /\ f[x].refs = t.subsets[x].refs /\ f[x].loaded = t.subsets[x].loaded
             /\ f[x].keys = t.subsets[x].keys \ {k}
  <2>1. t.subsets[x] \in Subset
    BY <1>1
  <2>2. f[x] = [t.subsets[x] EXCEPT !.keys = t.subsets[x].keys \ {k}]
    OBVIOUS
  <2> HIDE DEF f
  <2> QED
    BY <2>1, <2>2 DEF Subset
<1>5. /\ n[k] = 0 /\ \A j \in Keys \ {k} : n[j] = t.keyRefs[j]
      /\ n \in [Keys -> Nat]
  BY <1>1
<1> HIDE DEF f, n
<1>6. f \in [S -> Subset]
  <2>1. f = [x \in S |-> f[x]]
    BY DEF f
  <2> QED
    BY <1>4, <2>1
<1>7. ASSUME NEW j \in Keys
      PROVE  n[j] = Cardinality({x \in S : j \in f[x].keys})
  <2>1. CASE j = k
    <3>1. {x \in S : j \in f[x].keys} = {}
      BY <1>4, <2>1
    <3>2. Cardinality({x \in S : j \in f[x].keys}) = 0
      BY <3>1, FS_EmptySet
    <3> QED
      BY <1>5, <2>1, <3>2
  <2>2. CASE j # k
    <3>1. \A x \in S : j \in f[x].keys <=> j \in t.subsets[x].keys
      BY <1>4, <2>2
    <3>2. {x \in S : j \in f[x].keys} = Holding(t, j)
      BY <3>1 DEF Holding
    <3> QED
      BY <1>1, <1>5, <2>2, <3>2
  <2> QED
    BY <2>1, <2>2
<1>8. u \in Trackers
  <2>1. [subsets |-> f, keyRefs |-> n] \in Trackers
    BY <1>1, <1>5, <1>6, <1>7, TrackerMade
  <2> QED
    BY <1>2, <2>1
<1>9. u.subsets = f
  BY <1>2
<1> HIDE DEF u
<1>10. SameSubsets(t, u)
  BY <1>3, <1>4, <1>9 DEF SameSubsets
<1>11. \A x \in S : u.subsets[x].keys = t.subsets[x].keys \ {k}
  BY <1>4, <1>9
<1> QED
  BY <1>8, <1>10, <1>11 DEF u

-----------------------------------------------------------------------------
(***************************************************************************)
(* Orders.  f gives each member of S a number of its own.                  *)
(***************************************************************************)
Below(S, f, c) == {d \in S : f[d] <= f[c]}

LEMMA Ranks ==
  ASSUME NEW S, IsFiniteSet(S), NEW f \in [S -> Nat],
         \A c, d \in S : f[c] = f[d] => c = d
  PROVE  LET n == Cardinality(S) IN
         /\ n \in Nat
         /\ \A c \in S : Cardinality(Below(S, f, c)) \in 1..n
         /\ \A c, d \in S : f[c] < f[d] =>
              Cardinality(Below(S, f, c)) < Cardinality(Below(S, f, d))
         /\ \A c, d \in S :
              Cardinality(Below(S, f, c)) = Cardinality(Below(S, f, d)) => c = d
         /\ \A i \in 1..n : \E c \in S : Cardinality(Below(S, f, c)) = i
<1> DEFINE n == Cardinality(S)
           rank == [c \in S |-> Cardinality(Below(S, f, c))]
<1>1. n \in Nat
  BY FS_CardinalityType
<1>2. \A c \in S : /\ IsFiniteSet(Below(S, f, c))
                   /\ Cardinality(Below(S, f, c)) \in 1..n
  <2> TAKE c \in S
  <2>1. Below(S, f, c) \in SUBSET S /\ c \in Below(S, f, c)
    BY DEF Below
  <2>2. IsFiniteSet(Below(S, f, c)) /\ Cardinality(Below(S, f, c)) <= n
    BY <2>1, FS_Subset
  <2>3. Cardinality(Below(S, f, c)) \in Nat /\ Cardinality(Below(S, f, c)) # 0
    BY <2>1, <2>2, FS_CardinalityType, FS_EmptySet
  <2> QED
    BY <1>1, <2>2, <2>3
<1>3. ASSUME NEW c \in S, NEW d \in S, f[c] < f[d]
      PROVE  Cardinality(Below(S, f, c)) < Cardinality(Below(S, f, d))
  <2>0. \A e \in S : f[e] \in Nat
    OBVIOUS
  <2>1. Below(S, f, c) \in SUBSET Below(S, f, d)
    BY <1>3, <2>0 DEF Below
  <2>2. d \in Below(S, f, d) /\ d \notin Below(S, f, c)
    BY <1>3, <2>0 DEF Below
  <2>3. IsFiniteSet(Below(S, f, d))
    BY <1>2
  <2>4. Cardinality(Below(S, f, c)) <= Cardinality(Below(S, f, d))
        /\ (Cardinality(Below(S, f, c)) = Cardinality(Below(S, f, d))
              => Below(S, f, c) = Below(S, f, d))
    BY <2>1, <2>3, FS_Subset
  <2>5. Cardinality(Below(S, f, c)) # Cardinality(Below(S, f, d))
    BY <2>2, <2>4
  <2>6. Cardinality(Below(S, f, c)) \in Nat /\ Cardinality(Below(S, f, d)) \in Nat
    BY <1>1, <1>2
  <2> QED
    BY <2>4, <2>5, <2>6
<1>4. ASSUME NEW c \in S, NEW d \in S, rank[c] = rank[d]
      PROVE  c = d
  <2>0. f[c] \in Nat /\ f[d] \in Nat /\ rank[c] \in Nat
    BY <1>1, <1>2
  <2>1. ~(f[c] < f[d]) /\ ~(f[d] < f[c])
    BY <1>3, <1>4, <2>0
  <2>2. f[c] = f[d]
    BY <2>0, <2>1
  <2> QED
    BY <2>2
<1>5. rank \in [S -> 1..n]
  BY <1>2
<1>6. rank \in Injection(S, 1..n)
  BY <1>4, <1>5 DEF Injection, IsInjective
<1>7. IsFiniteSet(1..n) /\ Cardinality(1..n) = n
  BY <1>1, FS_Interval
<1>8. rank \in Surjection(S, 1..n)
  BY <1>6, <1>7, FS_Injection
<1>9. \A i \in 1..n : \E c \in S : rank[c] = i
  BY <1>8 DEF Surjection
<1> QED
  BY <1>1, <1>2, <1>3, <1>4, <1>9

\* The updates in their order.
LEMMA OrderIs ==
  ASSUME NEW U, Numbered(U)
  PROVE  LET n == Cardinality(U)
             s == InOrder(U)
         IN  /\ n \in Nat /\ s \in [1..n -> U]
             /\ \A i, j \in 1..n : s[i].seq < s[j].seq <=> i < j
             /\ \A c \in U : \E i \in 1..n : s[i] = c
<1> DEFINE n == Cardinality(U)
           f == [c \in U |-> c.seq]
           rank(c) == Cardinality(Below(U, f, c))
           s == InOrder(U)
<1>1. /\ IsFiniteSet(U) /\ f \in [U -> Nat]
      /\ \A c, d \in U : f[c] = f[d] => c = d
      /\ \A c \in U : f[c] = c.seq
  BY DEF Numbered
<1>2. \A c \in U : {d \in U : d.seq <= c.seq} = Below(U, f, c)
  BY DEF Below
<1> HIDE DEF f
<1>3. /\ n \in Nat
      /\ \A c \in U : rank(c) \in 1..n
      /\ \A c, d \in U : f[c] < f[d] => rank(c) < rank(d)
      /\ \A c, d \in U : rank(c) = rank(d) => c = d
      /\ \A i \in 1..n : \E c \in U : rank(c) = i
  BY <1>1, Ranks
<1> HIDE DEF rank
<1>4. ASSUME NEW i \in 1..n
      PROVE  s[i] \in U /\ rank(s[i]) = i
  <2>1. s[i] = CHOOSE c \in U : Cardinality({d \in U : d.seq <= c.seq}) = i
    BY Zenon DEF InOrder
  <2>2. PICK c \in U : rank(c) = i
    BY <1>3
  <2>3. \E e \in U : Cardinality({d \in U : d.seq <= e.seq}) = i
    BY <1>2, <2>2 DEF rank
  <2>4. s[i] \in U /\ Cardinality({d \in U : d.seq <= s[i].seq}) = i
    BY <2>1, <2>3, Zenon
  <2> QED
    BY <1>2, <2>4 DEF rank
<1>5. s = [i \in 1..n |-> s[i]]
  <2> DEFINE at(i) == CHOOSE c \in U : Cardinality({d \in U : d.seq <= c.seq}) = i
  <2>1. s = [i \in 1..n |-> at(i)]
    BY Zenon DEF InOrder
  <2> HIDE DEF s, at, n
  <2> QED
    BY <2>1
<1>6. s \in [1..n -> U]
  BY <1>4, <1>5
<1>7. ASSUME NEW c \in U
      PROVE  \E i \in 1..n : s[i] = c
  <2>1. rank(c) \in 1..n
    BY <1>3
  <2>2. s[rank(c)] \in U /\ rank(s[rank(c)]) = rank(c)
    BY <1>4, <2>1
  <2>3. s[rank(c)] = c
    BY <1>3, <2>2
  <2> QED
    BY <2>1, <2>3
<1>8. ASSUME NEW i \in 1..n, NEW j \in 1..n
      PROVE  s[i].seq < s[j].seq <=> i < j
  <2>1. s[i] \in U /\ s[j] \in U /\ rank(s[i]) = i /\ rank(s[j]) = j
    BY <1>4
  <2>2. f[s[i]] = s[i].seq /\ f[s[j]] = s[j].seq /\ f[s[i]] \in Nat /\ f[s[j]] \in Nat
    BY <1>1, <2>1
  <2>3. f[s[i]] < f[s[j]] => i < j
    BY <1>3, <2>1
  <2>4. f[s[j]] < f[s[i]] => j < i
    BY <1>3, <2>1
  <2>5. f[s[i]] = f[s[j]] => i = j
    BY <1>1, <2>1
  <2>6. i \in Nat /\ j \in Nat
    BY <1>3
  <2> QED
    BY <2>2, <2>3, <2>4, <2>5, <2>6
<1> HIDE DEF s, n
<1>9. n \in Nat
  BY <1>3
<1> QED
  BY <1>6, <1>7, <1>8, <1>9 DEF s, n

\* Broadcasts in the order of their watermarks.
LEMMA SortedIs ==
  ASSUME NEW B, IsFiniteSet(B), \A b \in B : b.watermark \in Nat,
         \A b, d \in B : b.watermark = d.watermark => b = d
  PROVE  /\ Cardinality(B) \in Nat
         /\ Sorted(B) \in [1..Cardinality(B) -> B]
<1> DEFINE n == Cardinality(B)
           f == [b \in B |-> b.watermark]
           s == Sorted(B)
<1>1. /\ f \in [B -> Nat]
      /\ \A c, d \in B : f[c] = f[d] => c = d
  OBVIOUS
<1>2. \A c \in B : {d \in B : d.watermark <= c.watermark} = Below(B, f, c)
  BY DEF Below
<1> HIDE DEF f
<1>3. n \in Nat /\ \A i \in 1..n : \E c \in B : Cardinality(Below(B, f, c)) = i
  BY <1>1, Ranks
<1>4. ASSUME NEW i \in 1..n
      PROVE  s[i] \in B
  <2>1. s[i] = CHOOSE b \in B : Cardinality({d \in B : d.watermark <= b.watermark}) = i
    BY Zenon DEF Sorted
  <2>2. \E b \in B : Cardinality({d \in B : d.watermark <= b.watermark}) = i
    BY <1>2, <1>3
  <2> QED
    BY <2>1, <2>2, Zenon
<1>5. s = [i \in 1..n |-> s[i]]
  <2> DEFINE at(i) == CHOOSE b \in B : Cardinality({d \in B : d.watermark <= b.watermark}) = i
  <2>1. s = [i \in 1..n |-> at(i)]
    BY Zenon DEF Sorted
  <2> HIDE DEF s, at, n
  <2> QED
    BY <2>1
<1>6. s \in [1..n -> B]
  BY <1>4, <1>5
<1> QED
  BY <1>3, <1>6

-----------------------------------------------------------------------------
(***************************************************************************)
(* Updates that are applied to the rows and to the tracker.                *)
(***************************************************************************)
Views == [tracker : Trackers, local : [Keys -> Content], cursor : Nat]

LEMMA ViewIs ==
  ASSUME NEW v \in Views
  PROVE  /\ v.tracker \in Trackers /\ v.local \in [Keys -> Content] /\ v.cursor \in Nat
         /\ v = [tracker |-> v.tracker, local |-> v.local, cursor |-> v.cursor]
BY DEF Views

\* As far as a row is concerned, the view w is the view v.
SameRow(v, w, k) ==
  /\ w.local[k] = v.local[k]
  /\ \A x \in DOMAIN v.tracker.subsets :
       k \in w.tracker.subsets[x].keys <=> k \in v.tracker.subsets[x].keys

\* The view w has this content of a row for every loaded subset that takes it.
HasRow(w, k, value) ==
  \A x \in DOMAIN w.tracker.subsets :
    w.tracker.subsets[x].loaded /\ value \in Accepts[x] =>
      w.local[k] = value /\ k \in w.tracker.subsets[x].keys

LEMMA AcceptsValues ==
  ASSUME NEW x \in Ids
  PROVE  Accepts[x] \in SUBSET Values /\ Gone \notin Accepts[x]
BY SubsetsAssumption

\* The view w is v after one update.
UpdateOk(had, v, w, u) ==
  /\ w \in Views /\ w.cursor = v.cursor
  /\ SameSubsets(v.tracker, w.tracker)
  /\ \A k \in Keys \ {u.key} : SameRow(v, w, k)
  /\ HasRow(w, u.key, u.value)
  /\ \/ w.local[u.key] = u.value
     \/ had[u.key] = Gone /\ w.local[u.key] = v.local[u.key]

LEMMA ApplyUpdateIs ==
  ASSUME NEW had, NEW v \in Views, NEW u \in Entry
  PROVE  UpdateOk(had, v, ApplyUpdate(had, v, u), u)
<1> DEFINE w == ApplyUpdate(had, v, u)
           t == IF u.value = Gone THEN DeleteKey(v.tracker, u.key)
                ELSE ReconcileRow(v.tracker, u.key, u.value)
           row == IF had[u.key] # Gone \/ t.keyRefs[u.key] > 0
                  THEN u.value ELSE v.local[u.key]
           l == [v.local EXCEPT ![u.key] = row]
<1>1. /\ v.tracker \in Trackers /\ v.local \in [Keys -> Content] /\ v.cursor \in Nat
      /\ v = [tracker |-> v.tracker, local |-> v.local, cursor |-> v.cursor]
  BY ViewIs
<1>2. u.key \in Keys /\ u.value \in Content
  BY DEF Entry, Content
<1>3. w = [tracker |-> t, local |-> l, cursor |-> v.cursor]
  <2> HIDE DEF t
  <2>1. w = [v EXCEPT !.tracker = t, !.local[u.key] = row]
    BY Zenon DEF ApplyUpdate, t
  <2> QED
    BY <1>1, <2>1
<1>4. /\ t \in Trackers /\ SameSubsets(v.tracker, t)
      /\ \A x \in DOMAIN v.tracker.subsets :
           t.subsets[x].keys =
             IF u.value # Gone /\ Takes(v.tracker, x, u.value)
             THEN v.tracker.subsets[x].keys \cup {u.key}
             ELSE v.tracker.subsets[x].keys \ {u.key}
  <2>1. CASE u.value = Gone
    <3>1. t = DeleteKey(v.tracker, u.key)
      BY <2>1
    <3> HIDE DEF t
    <3> QED
      BY <1>1, <1>2, <2>1, <3>1, DeleteKeyIs
  <2>2. CASE u.value # Gone
    <3> DEFINE key == u.key
               value == u.value
               old == v.tracker
    <3>1. t = ReconcileRow(old, key, value)
      BY <2>2
    <3>2. key \in Keys /\ value \in Content /\ old \in Trackers
      BY <1>1, <1>2
    <3> HIDE DEF t, key, value, old
    <3>3. /\ t \in Trackers /\ SameSubsets(old, t)
          /\ \A x \in DOMAIN old.subsets :
               t.subsets[x].keys = IF Takes(old, x, value) THEN old.subsets[x].keys \cup {key}
                                   ELSE old.subsets[x].keys \ {key}
      <4>1. t \in Trackers
        BY <3>1, <3>2, ReconcileIs
      <4>2. SameSubsets(old, t)
        BY <3>1, <3>2, ReconcileIs
      <4>3. \A x \in DOMAIN old.subsets :
              t.subsets[x].keys = IF Takes(old, x, value) THEN old.subsets[x].keys \cup {key}
                                  ELSE old.subsets[x].keys \ {key}
        <5>1. \A x \in DOMAIN old.subsets :
                ReconcileRow(old, key, value).subsets[x].keys =
                  IF Takes(old, x, value) THEN old.subsets[x].keys \cup {key}
                  ELSE old.subsets[x].keys \ {key}
          BY <3>2, ReconcileIs, Zenon
        <5> QED
          BY <3>1, <5>1, Zenon
      <4> QED
        BY <4>1, <4>2, <4>3
    <3>4. t \in Trackers /\ SameSubsets(v.tracker, t)
      BY <3>3 DEF old
    <3>5. \A x \in DOMAIN v.tracker.subsets :
            t.subsets[x].keys = IF Takes(v.tracker, x, u.value)
                                THEN v.tracker.subsets[x].keys \cup {u.key}
                                ELSE v.tracker.subsets[x].keys \ {u.key}
      BY <3>3, Zenon DEF key, value, old
    <3> QED
      BY <2>2, <3>4, <3>5
  <2> QED
    BY <2>1, <2>2
<1> HIDE DEF t
<1>5. l \in [Keys -> Content] /\ l[u.key] = row /\ \A k \in Keys \ {u.key} : l[k] = v.local[k]
  <2>1. row \in Content
    BY <1>1, <1>2
  <2> HIDE DEF row
  <2> QED
    BY <1>1, <1>2, <2>1
<1> HIDE DEF l
<1>6. w \in Views /\ w.cursor = v.cursor /\ w.tracker = t /\ w.local = l
  BY <1>1, <1>3, <1>4, <1>5 DEF Views
<1> HIDE DEF w
<1>7. \A k \in Keys \ {u.key} : SameRow(v, w, k)
  BY <1>4, <1>5, <1>6 DEF SameRow
<1>8. HasRow(w, u.key, u.value)
  <2> SUFFICES ASSUME NEW x \in DOMAIN t.subsets, t.subsets[x].loaded, u.value \in Accepts[x]
               PROVE  l[u.key] = u.value /\ u.key \in t.subsets[x].keys
    BY <1>6, Zenon DEF HasRow
  <2>1. x \in Ids /\ x \in DOMAIN v.tracker.subsets
    BY <1>4, TrackerIs DEF SameSubsets
  <2>2. u.value # Gone
    BY <2>1, AcceptsValues
  <2>3. Takes(v.tracker, x, u.value)
    BY DEF Takes
  <2>4. u.key \in t.subsets[x].keys
    BY <1>4, <2>1, <2>2, <2>3
  <2>5. t.keyRefs[u.key] > 0
    BY <1>2, <1>4, <2>4, HoldingIs
  <2> QED
    BY <1>5, <2>4, <2>5
<1>9. \/ w.local[u.key] = u.value
      \/ had[u.key] = Gone /\ w.local[u.key] = v.local[u.key]
  BY <1>5, <1>6
<1> QED
  BY <1>4, <1>6, <1>7, <1>8, <1>9 DEF UpdateOk, w

IsApply(t, view, s, n) ==
  t[0] = view /\ \A i \in 1..n : t[i] = ApplyUpdate(view.local, t[i - 1], s[i])
Applies(end, view, s, n) ==
  \E t \in [0..n -> Views] : IsApply(t, view, s, n) /\ t[n] = end

LEMMA ApplyTrace ==
  ASSUME NEW n \in Nat, NEW view \in Views, NEW U, NEW s \in [1..n -> Entry],
         InOrder(U) = s
  PROVE  Applies(ApplyUpdates(view, U), view, s, n)
<1> DEFINE step == [p \in Views \X (1..n) |-> ApplyUpdate(view.local, p[1], s[p[2]])]
<1>0. \A v \in Views, i \in 1..n : ApplyUpdate(view.local, v, s[i]) \in Views
  BY ApplyUpdateIs DEF UpdateOk
<1>1. step \in [Views \X (1..n) -> Views]
  BY <1>0
<1>2. \A v \in Views, i \in 1..n : step[<<v, i>>] = ApplyUpdate(view.local, v, s[i])
  OBVIOUS
<1> HIDE DEF step
<1>3. PICK it \in [SUBSET (1..n) -> Views] : IsFold(it, view, step, n)
  BY <1>1, FoldExists
<1> DEFINE D(f) == [e \in SUBSET (DOMAIN s) |->
                      IF e = {} THEN view
                      ELSE LET x == Max(e) IN ApplyUpdate(view.local, f[e \ {x}], s[x])]
           E(f) == [e \in SUBSET (1..n) |->
                      IF e = {} THEN view
                      ELSE ApplyUpdate(view.local, f[e \ {Max(e)}], s[Max(e)])]
           fold == CHOOSE f : f = D(f)
<1>4. ApplyUpdates(view, U) = fold[1..n]
  BY DEF ApplyUpdates, FoldLeft, MapThenFoldSet
<1>5. \A f : D(f) = E(f)
  BY Zenon
<1>6. it = E(it)
  <2>1. \A e \in SUBSET (1..n) : e # {} =>
          Max(e) \in 1..n /\ e \ {Max(e)} \in SUBSET (1..n)
    BY WithoutMax
  <2>2. ASSUME NEW e \in SUBSET (1..n)
        PROVE  it[e] = E(it)[e]
    <3>1. CASE e = {}
      BY <1>3, <3>1 DEF IsFold
    <3>2. CASE e # {}
      <4>1. it[e] = step[<<it[e \ {Max(e)}], Max(e)>>]
        BY <1>3, <3>2 DEF IsFold
      <4> QED
        BY <1>2, <1>3, <2>1, <4>1, <3>2
    <3> QED
      BY <3>1, <3>2
  <2> QED
    BY <1>3, <2>2
<1>7. fold = E(fold)
  <2> HIDE DEF D, E
  <2>1. \E f : f = D(f)
    BY <1>5, <1>6
  <2> QED
    BY <1>5, <2>1
<1> HIDE DEF fold
<1>8. fold[{}] = view
  <2>1. {} \in SUBSET (1..n)
    OBVIOUS
  <2> QED
    BY <1>7, <2>1
<1>9. ASSUME NEW e \in SUBSET (1..n), e # {}, fold[e \ {Max(e)}] \in Views
      PROVE  fold[e] = step[<<fold[e \ {Max(e)}], Max(e)>>]
  <2>1. Max(e) \in 1..n
    BY <1>9, WithoutMax
  <2>2. fold[e] = ApplyUpdate(view.local, fold[e \ {Max(e)}], s[Max(e)])
    BY <1>7, <1>9
  <2> QED
    BY <1>2, <1>9, <2>1, <2>2
<1>10. FoldsOn(fold, Views, view, step, n)
  BY <1>8, <1>9 DEF FoldsOn
<1>11. EndsTrace(fold[1..n], Views, view, step, n)
  BY <1>1, <1>10, FoldTrace
<1>13. PICK t \in [0..n -> Views] : IsTrace(t, view, step, n) /\ t[n] = fold[1..n]
  BY <1>11 DEF EndsTrace
<1>12. \A i \in 1..n : t[i - 1] \in Views
  OBVIOUS
<1>14. ASSUME NEW i \in 1..n
       PROVE  t[i] = ApplyUpdate(view.local, t[i - 1], s[i])
  <2>1. t[i] = step[<<t[i - 1], i>>]
    BY <1>13 DEF IsTrace
  <2> QED
    BY <1>2, <1>12, <2>1
<1>15. IsApply(t, view, s, n)
  BY <1>13, <1>14 DEF IsTrace, IsApply
<1> QED
  BY <1>4, <1>13, <1>15 DEF Applies

\* The rows and the tracker after updates that are numbered.
ApplyOk(view, w, U) ==
  /\ w \in Views /\ w.cursor = view.cursor
  /\ SameSubsets(view.tracker, w.tracker)
  /\ \A k \in Keys : (\A c \in U : c.key # k) => SameRow(view, w, k)
  /\ \A c \in U : (\A d \in U : d.key = c.key => d.seq <= c.seq) => HasRow(w, c.key, c.value)
  /\ \A c \in U : (\A d \in U : d.key = c.key => d = c) => w.local[c.key] \in {Gone, c.value}

LEMMA ApplyIs ==
  ASSUME NEW view \in Views, NEW U \in SUBSET Entry, Numbered(U)
  PROVE  ApplyOk(view, ApplyUpdates(view, U), U)
<1> DEFINE n == Cardinality(U)
           s == InOrder(U)
           end == ApplyUpdates(view, U)
<1>1. /\ n \in Nat /\ s \in [1..n -> U]
      /\ \A i, j \in 1..n : s[i].seq < s[j].seq <=> i < j
      /\ \A c \in U : \E i \in 1..n : s[i] = c
  BY OrderIs
<1> HIDE DEF n
<1>2. Applies(end, view, s, n)
  <2>1. s \in [1..n -> Entry]
    BY <1>1
  <2> HIDE DEF s
  <2>2. InOrder(U) = s
    BY DEF s
  <2> QED
    BY <1>1, <2>1, <2>2, ApplyTrace
<1> HIDE DEF s, end
<1>3. PICK t \in [0..n -> Views] : IsApply(t, view, s, n) /\ t[n] = end
  BY <1>2 DEF Applies
<1>4. /\ t[0] = view
      /\ \A i \in 1..n : t[i] = ApplyUpdate(view.local, t[i - 1], s[i])
  BY <1>3 DEF IsApply
<1> DEFINE Good(i) ==
             /\ t[i].cursor = view.cursor /\ SameSubsets(view.tracker, t[i].tracker)
             /\ \A k \in Keys : (\A j \in 1..i : s[j].key # k) => SameRow(view, t[i], k)
             /\ \A j \in 1..i : (\A m \in 1..i : s[m].key = s[j].key => m <= j)
                                  => HasRow(t[i], s[j].key, s[j].value)
             /\ \A j \in 1..i : (\A m \in 1..i : s[m].key = s[j].key => m = j)
                                  => t[i].local[s[j].key] \in {Gone, s[j].value}
           bad == {i \in 0..n : ~Good(i)}
<1>5. Good(0)
  <2>1. SameSubsets(view.tracker, view.tracker) /\ \A k \in Keys : SameRow(view, view, k)
    BY DEF SameSubsets, SameRow
  <2> QED
    BY <1>4, <2>1
<1>6. ASSUME NEW i \in 1..n, Good(i - 1)
      PROVE  Good(i)
  <2> DEFINE v == t[i - 1]
             w == t[i]
             u == s[i]
  <2>1. /\ v \in Views /\ u \in Entry /\ i - 1 \in 0..n
        /\ u.key \in Keys
    BY <1>1, <1>3 DEF Entry
  <2>2. w = ApplyUpdate(view.local, v, u)
    BY <1>4
  <2> DEFINE had == view.local
  <2> HIDE DEF v, w, u
  <2>3. /\ w.cursor = v.cursor /\ SameSubsets(v.tracker, w.tracker)
        /\ \A k \in Keys \ {u.key} : SameRow(v, w, k)
        /\ HasRow(w, u.key, u.value)
        /\ \/ w.local[u.key] = u.value
           \/ view.local[u.key] = Gone /\ w.local[u.key] = v.local[u.key]
    <3>1. UpdateOk(had, v, w, u)
      BY <2>1, <2>2, ApplyUpdateIs DEF had
    <3> QED
      BY <3>1 DEF UpdateOk, had
  <2>4. /\ v.cursor = view.cursor /\ SameSubsets(view.tracker, v.tracker)
        /\ \A k \in Keys : (\A j \in 1..(i - 1) : s[j].key # k) => SameRow(view, v, k)
        /\ \A j \in 1..(i - 1) : (\A m \in 1..(i - 1) : s[m].key = s[j].key => m <= j)
                                   => HasRow(v, s[j].key, s[j].value)
        /\ \A j \in 1..(i - 1) : (\A m \in 1..(i - 1) : s[m].key = s[j].key => m = j)
                                   => v.local[s[j].key] \in {Gone, s[j].value}
    BY <1>6 DEF v
  <2>5. w.cursor = view.cursor /\ SameSubsets(view.tracker, w.tracker)
    BY <2>3, <2>4 DEF SameSubsets
  <2>6. ASSUME NEW k \in Keys, \A j \in 1..i : s[j].key # k
        PROVE  SameRow(view, w, k)
    <3>1. k # u.key /\ \A j \in 1..(i - 1) : s[j].key # k
      BY <1>1, <2>6 DEF u
    <3>2. SameRow(view, v, k) /\ SameRow(v, w, k)
      BY <2>3, <2>4, <3>1
    <3> QED
      BY <2>4, <3>2 DEF SameRow, SameSubsets
  <2>7. ASSUME NEW j \in 1..i, \A m \in 1..i : s[m].key = s[j].key => m <= j
        PROVE  HasRow(w, s[j].key, s[j].value)
    <3>1. CASE j = i
      BY <2>3, <3>1 DEF u
    <3>2. CASE j # i
      <4> DEFINE k == s[j].key
                 value == s[j].value
      <4>1. j \in 1..(i - 1) /\ i \in 1..i /\ j \in 1..n /\ ~(i <= j)
        BY <1>1, <3>2
      <4>2. k # u.key
        BY <2>7, <4>1 DEF u
      <4>3. HasRow(v, k, value)
        <5>1. \A m \in 1..(i - 1) : m \in 1..i
          BY <1>1
        <5> QED
          BY <2>4, <2>7, <4>1, <5>1
      <4>4. k \in Keys
        BY <1>1, <4>1 DEF Entry
      <4>5. SameRow(v, w, k)
        BY <2>3, <4>2, <4>4
      <4> HIDE DEF k, value
      <4>6. HasRow(w, k, value)
        BY <2>3, <4>3, <4>5 DEF HasRow, SameRow, SameSubsets
      <4> QED
        BY <4>6 DEF k, value
    <3> QED
      BY <3>1, <3>2
  <2>8. ASSUME NEW j \in 1..i, \A m \in 1..i : s[m].key = s[j].key => m = j
        PROVE  w.local[s[j].key] \in {Gone, s[j].value}
    <3>1. CASE j = i
      <4>1. \A m \in 1..(i - 1) : s[m].key # u.key
        <5> SUFFICES ASSUME NEW m \in 1..(i - 1), s[m].key = u.key PROVE FALSE
          OBVIOUS
        <5>1. m \in 1..i /\ m # i
          BY <1>1
        <5> QED
          BY <2>8, <3>1, <5>1 DEF u
      <4>2. SameRow(view, v, u.key)
        BY <2>1, <2>4, <4>1
      <4>3. w.local[u.key] \in {Gone, u.value}
        BY <2>3, <4>2 DEF SameRow
      <4> QED
        BY <3>1, <4>3 DEF u
    <3>2. CASE j # i
      <4> DEFINE k == s[j].key
      <4>1. j \in 1..(i - 1) /\ i \in 1..i /\ j \in 1..n
        BY <1>1, <3>2
      <4>2. k # u.key
        BY <2>8, <3>2, <4>1 DEF u
      <4>3. v.local[k] \in {Gone, s[j].value}
        <5>1. \A m \in 1..(i - 1) : m \in 1..i
          BY <1>1
        <5> QED
          BY <2>4, <2>8, <4>1, <5>1
      <4>4. k \in Keys
        BY <1>1, <4>1 DEF Entry
      <4> QED
        BY <2>3, <4>2, <4>3, <4>4 DEF SameRow
    <3> QED
      BY <3>1, <3>2
  <2> QED
    BY <2>5, <2>6, <2>7, <2>8 DEF w
<1> HIDE DEF Good
<1>7. Good(n)
  <2> SUFFICES ASSUME bad # {} PROVE FALSE
    BY <1>1
  <2>1. bad \in SUBSET Nat
    BY <1>1
  <2>2. PICK i \in bad : \A j \in bad : i <= j
    BY <2>1, LeastNumber
  <2>3. i # 0
    BY <1>5, <2>2
  <2>4. i \in 1..n /\ i - 1 \in 0..n /\ i - 1 \notin bad
    BY <1>1, <2>2, <2>3
  <2>5. Good(i - 1)
    BY <2>4
  <2> QED
    BY <1>6, <2>2, <2>4, <2>5
<1>8. /\ end \in Views /\ end.cursor = view.cursor /\ SameSubsets(view.tracker, end.tracker)
      /\ \A k \in Keys : (\A j \in 1..n : s[j].key # k) => SameRow(view, end, k)
      /\ \A j \in 1..n : (\A m \in 1..n : s[m].key = s[j].key => m <= j)
                           => HasRow(end, s[j].key, s[j].value)
      /\ \A j \in 1..n : (\A m \in 1..n : s[m].key = s[j].key => m = j)
                           => end.local[s[j].key] \in {Gone, s[j].value}
  BY <1>1, <1>3, <1>7 DEF Good
<1>9. ASSUME NEW k \in Keys, \A c \in U : c.key # k
      PROVE  SameRow(view, end, k)
  BY <1>1, <1>8, <1>9
<1>10. ASSUME NEW c \in U, \A d \in U : d.key = c.key => d.seq <= c.seq
       PROVE  HasRow(end, c.key, c.value)
  <2>1. PICK j \in 1..n : s[j] = c
    BY <1>1
  <2>2. ASSUME NEW m \in 1..n, s[m].key = s[j].key
        PROVE  m <= j
    <3>1. s[m] \in U /\ s[m].seq <= s[j].seq
      BY <1>1, <1>10, <2>1, <2>2
    <3>2. s[m].seq \in Nat /\ s[j].seq \in Nat
      BY <1>1, <2>1, <3>1 DEF Numbered
    <3>3. ~(s[j].seq < s[m].seq)
      BY <3>1, <3>2
    <3>4. ~(j < m)
      BY <1>1, <3>3
    <3> QED
      BY <1>1, <3>4
  <2> QED
    BY <1>8, <2>1, <2>2
<1>11. ASSUME NEW c \in U, \A d \in U : d.key = c.key => d = c
       PROVE  end.local[c.key] \in {Gone, c.value}
  <2>1. PICK j \in 1..n : s[j] = c
    BY <1>1
  <2>2. ASSUME NEW m \in 1..n, s[m].key = s[j].key
        PROVE  m = j
    <3>1. s[m] = s[j]
      BY <1>1, <1>11, <2>1, <2>2
    <3>2. s[m].seq \in Nat /\ ~(s[m].seq < s[m].seq)
      BY <1>1 DEF Numbered
    <3>3. ~(m < j) /\ ~(j < m)
      BY <1>1, <3>1, <3>2
    <3> QED
      BY <1>1, <3>3
  <2> QED
    BY <1>8, <2>1, <2>2
<1> QED
  BY <1>8, <1>9, <1>10, <1>11 DEF ApplyOk, end

\* A broadcast: numbered updates, sent at a watermark.
BroadcastOk(b) ==
  b.updates \in SUBSET Entry /\ Numbered(b.updates) /\ b.watermark \in Nat

LEMMA BroadcastIs ==
  ASSUME NEW v \in Views, NEW b, BroadcastOk(b)
  PROVE  LET w == ApplyBroadcast(v, b) IN
         /\ w \in Views /\ SameSubsets(v.tracker, w.tracker)
         /\ b.watermark <= v.cursor => w = v
         /\ ~(b.watermark <= v.cursor) =>
              LET U == {c \in b.updates : c.seq > v.cursor} IN
              \E x \in Views : ApplyOk(v, x, U) /\ w = [x EXCEPT !.cursor = b.watermark]
<1> DEFINE U == {c \in b.updates : c.seq > v.cursor}
           x == ApplyUpdates(v, U)
           w == ApplyBroadcast(v, b)
<1>1. U \in SUBSET Entry /\ Numbered(U) /\ b.watermark \in Nat /\ v.cursor \in Nat
  BY NumberedSubset, ViewIs DEF BroadcastOk
<1>2. ApplyOk(v, x, U)
  BY <1>1, ApplyIs
<1>3. w = IF b.watermark <= v.cursor THEN v ELSE [x EXCEPT !.cursor = b.watermark]
  BY Zenon DEF ApplyBroadcast
<1> HIDE DEF x, w, U
<1>4. x \in Views /\ SameSubsets(v.tracker, x.tracker)
  BY <1>2 DEF ApplyOk
<1>5. /\ [x EXCEPT !.cursor = b.watermark] \in Views
      /\ [x EXCEPT !.cursor = b.watermark].tracker = x.tracker
  BY <1>1, <1>4 DEF Views
<1>6. SameSubsets(v.tracker, v.tracker)
  BY DEF SameSubsets
<1>7. CASE b.watermark <= v.cursor
  BY <1>3, <1>6, <1>7 DEF w
<1>8. CASE ~(b.watermark <= v.cursor)
  <2>1. w = [x EXCEPT !.cursor = b.watermark]
    BY <1>3, <1>8
  <2>2. w \in Views /\ SameSubsets(v.tracker, w.tracker)
    BY <1>4, <1>5, <2>1
  <2> QED
    BY <1>2, <1>4, <1>8, <2>1, <2>2 DEF w, U
<1> QED
  BY <1>7, <1>8

IsFlush(t, view, s, n) ==
  t[0] = view /\ \A i \in 1..n : t[i] = ApplyBroadcast(t[i - 1], s[i])
Flushes(end, view, s, n) ==
  \E t \in [0..n -> Views] : IsFlush(t, view, s, n) /\ t[n] = end
Flushed(view, B) == FoldLeft(ApplyBroadcast, view, Sorted(B))

LEMMA FlushTrace ==
  ASSUME NEW n \in Nat, NEW view \in Views, NEW B, \A b \in B : BroadcastOk(b),
         NEW s \in [1..n -> B], Sorted(B) = s
  PROVE  Flushes(Flushed(view, B), view, s, n)
<1> DEFINE step == [p \in Views \X (1..n) |-> ApplyBroadcast(p[1], s[p[2]])]
<1>0. \A v \in Views, i \in 1..n : ApplyBroadcast(v, s[i]) \in Views
  BY BroadcastIs
<1>1. step \in [Views \X (1..n) -> Views]
  BY <1>0
<1>2. \A v \in Views, i \in 1..n : step[<<v, i>>] = ApplyBroadcast(v, s[i])
  OBVIOUS
<1> HIDE DEF step
<1>3. PICK it \in [SUBSET (1..n) -> Views] : IsFold(it, view, step, n)
  BY <1>1, FoldExists
<1> DEFINE D(f) == [e \in SUBSET (DOMAIN s) |->
                      IF e = {} THEN view
                      ELSE LET x == Max(e) IN ApplyBroadcast(f[e \ {x}], s[x])]
           E(f) == [e \in SUBSET (1..n) |->
                      IF e = {} THEN view
                      ELSE ApplyBroadcast(f[e \ {Max(e)}], s[Max(e)])]
           fold == CHOOSE f : f = D(f)
<1>4. Flushed(view, B) = fold[1..n]
  BY DEF Flushed, FoldLeft, MapThenFoldSet
<1>5. \A f : D(f) = E(f)
  BY Zenon
<1>6. it = E(it)
  <2>1. \A e \in SUBSET (1..n) : e # {} =>
          Max(e) \in 1..n /\ e \ {Max(e)} \in SUBSET (1..n)
    BY WithoutMax
  <2>2. ASSUME NEW e \in SUBSET (1..n)
        PROVE  it[e] = E(it)[e]
    <3>1. CASE e = {}
      BY <1>3, <3>1 DEF IsFold
    <3>2. CASE e # {}
      <4>1. it[e] = step[<<it[e \ {Max(e)}], Max(e)>>]
        BY <1>3, <3>2 DEF IsFold
      <4> QED
        BY <1>2, <1>3, <2>1, <4>1, <3>2
    <3> QED
      BY <3>1, <3>2
  <2> QED
    BY <1>3, <2>2
<1>7. fold = E(fold)
  <2> HIDE DEF D, E
  <2>1. \E f : f = D(f)
    BY <1>5, <1>6
  <2> QED
    BY <1>5, <2>1
<1> HIDE DEF fold
<1>8. fold[{}] = view
  <2>1. {} \in SUBSET (1..n)
    OBVIOUS
  <2> QED
    BY <1>7, <2>1
<1>9. ASSUME NEW e \in SUBSET (1..n), e # {}, fold[e \ {Max(e)}] \in Views
      PROVE  fold[e] = step[<<fold[e \ {Max(e)}], Max(e)>>]
  <2>1. Max(e) \in 1..n
    BY <1>9, WithoutMax
  <2>2. fold[e] = ApplyBroadcast(fold[e \ {Max(e)}], s[Max(e)])
    BY <1>7, <1>9
  <2> QED
    BY <1>2, <1>9, <2>1, <2>2
<1>10. FoldsOn(fold, Views, view, step, n)
  BY <1>8, <1>9 DEF FoldsOn
<1>11. EndsTrace(fold[1..n], Views, view, step, n)
  BY <1>1, <1>10, FoldTrace
<1>13. PICK t \in [0..n -> Views] : IsTrace(t, view, step, n) /\ t[n] = fold[1..n]
  BY <1>11 DEF EndsTrace
<1>12. \A i \in 1..n : t[i - 1] \in Views
  OBVIOUS
<1>14. ASSUME NEW i \in 1..n
       PROVE  t[i] = ApplyBroadcast(t[i - 1], s[i])
  <2>1. t[i] = step[<<t[i - 1], i>>]
    BY <1>13 DEF IsTrace
  <2> QED
    BY <1>2, <1>12, <2>1
<1>15. IsFlush(t, view, s, n)
  BY <1>13, <1>14 DEF IsTrace, IsFlush
<1> QED
  BY <1>4, <1>13, <1>15 DEF Flushes

\* flush; broadcasts that are not newer than the cursor change nothing.
LEMMA FlushIs ==
  ASSUME NEW view \in Views, NEW B, IsFiniteSet(B), \A b \in B : BroadcastOk(b),
         \A b, d \in B : b.watermark = d.watermark => b = d
  PROVE  LET w == Flushed(view, B) IN
         /\ w \in Views /\ SameSubsets(view.tracker, w.tracker)
         /\ (\A b \in B : b.watermark <= view.cursor) => w = view
<1> DEFINE n == Cardinality(B)
           s == Sorted(B)
           end == Flushed(view, B)
           stale == \A b \in B : b.watermark <= view.cursor
<1>1. n \in Nat /\ s \in [1..n -> B]
  BY SortedIs DEF BroadcastOk
<1> HIDE DEF n, s
<1>2. Flushes(end, view, s, n)
  <2>1. Sorted(B) = s
    BY DEF s
  <2> QED
    BY <1>1, <2>1, FlushTrace
<1> HIDE DEF end
<1>3. PICK t \in [0..n -> Views] : IsFlush(t, view, s, n) /\ t[n] = end
  BY <1>2 DEF Flushes
<1>4. t[0] = view /\ \A i \in 1..n : t[i] = ApplyBroadcast(t[i - 1], s[i])
  BY <1>3 DEF IsFlush
<1> DEFINE Good(i) == SameSubsets(view.tracker, t[i].tracker) /\ (stale => t[i] = view)
           bad == {i \in 0..n : ~Good(i)}
<1>5. Good(0)
  BY <1>4 DEF SameSubsets
<1>6. ASSUME NEW i \in 1..n, Good(i - 1)
      PROVE  Good(i)
  <2>1. t[i - 1] \in Views /\ s[i] \in B /\ BroadcastOk(s[i])
    BY <1>1, <1>3
  <2>2. /\ SameSubsets(t[i - 1].tracker, t[i].tracker)
        /\ s[i].watermark <= t[i - 1].cursor => t[i] = t[i - 1]
    BY <1>4, <2>1, BroadcastIs
  <2>3. SameSubsets(view.tracker, t[i].tracker)
    BY <1>6, <2>2 DEF SameSubsets
  <2>4. stale => t[i] = view
    BY <1>6, <2>1, <2>2
  <2> QED
    BY <2>3, <2>4
<1> HIDE DEF Good
<1>7. Good(n)
  <2> SUFFICES ASSUME bad # {} PROVE FALSE
    BY <1>1
  <2>1. bad \in SUBSET Nat
    BY <1>1
  <2>2. PICK i \in bad : \A j \in bad : i <= j
    BY <2>1, LeastNumber
  <2>3. i # 0
    BY <1>5, <2>2
  <2>4. i \in 1..n /\ i - 1 \in 0..n /\ i - 1 \notin bad
    BY <1>1, <2>2, <2>3
  <2>5. Good(i - 1)
    BY <2>4
  <2> QED
    BY <1>6, <2>2, <2>4, <2>5
<1> QED
  BY <1>1, <1>3, <1>7 DEF Good, end

-----------------------------------------------------------------------------
(***************************************************************************)
(* Reads that reject.                                                      *)
(***************************************************************************)
LEMMA SetToSeqIs ==
  ASSUME NEW F, IsFiniteSet(F)
  PROVE  LET n == Cardinality(F)
             s == SetToSeq(F)
         IN  /\ n \in Nat /\ s \in [1..n -> F]
             /\ \A i, j \in 1..n : s[i] = s[j] => i = j
             /\ \A h \in F : \E i \in 1..n : s[i] = h
<1> DEFINE n == Cardinality(F)
           s == SetToSeq(F)
<1>1. n \in Nat /\ ExistsBijection(1..n, F)
  BY FS_CardinalityType
<1>2. IsFiniteSet(1..n) /\ Cardinality(1..n) = n
  BY <1>1, FS_Interval
<1>3. PICK f : f \in Bijection(1..n, F)
  BY <1>1 DEF ExistsBijection
<1>4. f \in [1..n -> F] /\ IsInjective(f)
  BY <1>3 DEF Bijection, Injection, Surjection, IsInjective
<1>5. s = CHOOSE g \in [1..n -> F] : IsInjective(g)
  BY Zenon DEF SetToSeq
<1> HIDE DEF s, n
<1>6. s \in [1..n -> F] /\ IsInjective(s)
  BY <1>4, <1>5, Zenon
<1>7. s \in Injection(1..n, F)
  BY <1>6 DEF Injection
<1>8. n = Cardinality(F)
  BY DEF n
<1>9. s \in Surjection(1..n, F)
  BY <1>2, <1>7, <1>8, FS_Injection
<1>10. \A h \in F : \E i \in 1..n : s[i] = h
  BY <1>9 DEF Surjection
<1>11. \A i, j \in 1..n : s[i] = s[j] => i = j
  BY <1>6 DEF IsInjective
<1> QED
  BY <1>1, <1>6, <1>10, <1>11 DEF n, s

Rejected(t, F) == FoldLeft(LAMBDA u, h : Release(u, call[h], FALSE), t, SetToSeq(F))
IsReject(tr, t, s, n) ==
  tr[0] = t /\ \A i \in 1..n : tr[i] = Release(tr[i - 1], call[s[i]], FALSE)
Rejects(end, t, s, n) ==
  \E tr \in [0..n -> Trackers] : IsReject(tr, t, s, n) /\ tr[n] = end

LEMMA RejectTrace ==
  ASSUME NEW n \in Nat, NEW t \in Trackers, NEW F, \A h \in F : call[h] \in Ids,
         NEW s \in [1..n -> F], SetToSeq(F) = s
  PROVE  Rejects(Rejected(t, F), t, s, n)
<1> DEFINE step == [p \in Trackers \X (1..n) |-> Release(p[1], call[s[p[2]]], FALSE)]
<1>0. ASSUME NEW v \in Trackers, NEW i \in 1..n
      PROVE  Release(v, call[s[i]], FALSE) \in Trackers
  <2>1. call[s[i]] \in Ids
    OBVIOUS
  <2>2. ReleaseOk(v, Release(v, call[s[i]], FALSE), call[s[i]], FALSE)
    BY <2>1, ReleaseIs
  <2> QED
    BY <2>2 DEF ReleaseOk
<1>1. step \in [Trackers \X (1..n) -> Trackers]
  BY <1>0
<1>2. \A v \in Trackers, i \in 1..n : step[<<v, i>>] = Release(v, call[s[i]], FALSE)
  OBVIOUS
<1> HIDE DEF step
<1>3. PICK it \in [SUBSET (1..n) -> Trackers] : IsFold(it, t, step, n)
  BY <1>1, FoldExists
<1> DEFINE D(f) == [e \in SUBSET (DOMAIN s) |->
                      IF e = {} THEN t
                      ELSE LET x == Max(e) IN Release(f[e \ {x}], call[s[x]], FALSE)]
           E(f) == [e \in SUBSET (1..n) |->
                      IF e = {} THEN t
                      ELSE Release(f[e \ {Max(e)}], call[s[Max(e)]], FALSE)]
           fold == CHOOSE f : f = D(f)
<1>4. Rejected(t, F) = fold[1..n]
  BY DEF Rejected, FoldLeft, MapThenFoldSet
<1>5. \A f : D(f) = E(f)
  BY Zenon
<1>6. it = E(it)
  <2>1. \A e \in SUBSET (1..n) : e # {} =>
          Max(e) \in 1..n /\ e \ {Max(e)} \in SUBSET (1..n)
    BY WithoutMax
  <2>2. ASSUME NEW e \in SUBSET (1..n)
        PROVE  it[e] = E(it)[e]
    <3>1. CASE e = {}
      BY <1>3, <3>1 DEF IsFold
    <3>2. CASE e # {}
      <4>1. it[e] = step[<<it[e \ {Max(e)}], Max(e)>>]
        BY <1>3, <3>2 DEF IsFold
      <4> QED
        BY <1>2, <1>3, <2>1, <4>1, <3>2
    <3> QED
      BY <3>1, <3>2
  <2> QED
    BY <1>3, <2>2
<1>7. fold = E(fold)
  <2> HIDE DEF D, E
  <2>1. \E f : f = D(f)
    BY <1>5, <1>6
  <2> QED
    BY <1>5, <2>1
<1> HIDE DEF fold
<1>8. fold[{}] = t
  <2>1. {} \in SUBSET (1..n)
    OBVIOUS
  <2> QED
    BY <1>7, <2>1
<1>9. ASSUME NEW e \in SUBSET (1..n), e # {}, fold[e \ {Max(e)}] \in Trackers
      PROVE  fold[e] = step[<<fold[e \ {Max(e)}], Max(e)>>]
  <2>1. Max(e) \in 1..n
    BY <1>9, WithoutMax
  <2>2. fold[e] = Release(fold[e \ {Max(e)}], call[s[Max(e)]], FALSE)
    BY <1>7, <1>9
  <2> QED
    BY <1>2, <1>9, <2>1, <2>2
<1>10. FoldsOn(fold, Trackers, t, step, n)
  BY <1>8, <1>9 DEF FoldsOn
<1>11. EndsTrace(fold[1..n], Trackers, t, step, n)
  BY <1>1, <1>10, FoldTrace
<1>13. PICK tr \in [0..n -> Trackers] : IsTrace(tr, t, step, n) /\ tr[n] = fold[1..n]
  BY <1>11 DEF EndsTrace
<1>12. \A i \in 1..n : tr[i - 1] \in Trackers
  OBVIOUS
<1>14. ASSUME NEW i \in 1..n
       PROVE  tr[i] = Release(tr[i - 1], call[s[i]], FALSE)
  <2>1. tr[i] = step[<<tr[i - 1], i>>]
    BY <1>13 DEF IsTrace
  <2> QED
    BY <1>2, <1>12, <2>1
<1>15. IsReject(tr, t, s, n)
  BY <1>13, <1>14 DEF IsTrace, IsReject
<1> QED
  BY <1>4, <1>13, <1>15 DEF Rejects

\* The live queries that hold a subset.
HoldersOf(id) == {h \in Holders : held[h] = id}

LEMMA HoldersFinite ==
  ASSUME NEW H \in SUBSET Holders
  PROVE  IsFiniteSet(H) /\ Cardinality(H) \in Nat
BY SubsetsAssumption, FS_Subset, FS_CardinalityType

\* The references of those that fail are given back, and what is left
\* without references is dropped.
RejectOk(t, w, F) ==
  /\ w \in Trackers
  /\ DOMAIN w.subsets \subseteq DOMAIN t.subsets
  /\ \A x \in DOMAIN w.subsets : /\ w.subsets[x].keys = t.subsets[x].keys
                                 /\ w.subsets[x].loaded = t.subsets[x].loaded
                                 /\ RefsOf(w, x) = 0 => RefsOf(t, x) = 0

LEMMA RejectIs ==
  ASSUME NEW t \in Trackers, NEW F \in SUBSET Holders, \A h \in F : call[h] \in Ids
  PROVE  /\ RejectOk(t, Rejected(t, F), F)
         /\ (\A h \in F : held[h] = call[h])
            /\ (\A id \in Ids : Cardinality(HoldersOf(id)) = RefsOf(t, id))
              => \A id \in Ids : Cardinality(HoldersOf(id) \ F) = RefsOf(Rejected(t, F), id)
<1> DEFINE n == Cardinality(F)
           s == SetToSeq(F)
           end == Rejected(t, F)
           counted == /\ \A h \in F : held[h] = call[h]
                      /\ \A id \in Ids : Cardinality(HoldersOf(id)) = RefsOf(t, id)
<1>0. IsFiniteSet(F)
  BY HoldersFinite
<1>1. /\ n \in Nat /\ s \in [1..n -> F]
      /\ \A i, j \in 1..n : s[i] = s[j] => i = j
      /\ \A h \in F : \E i \in 1..n : s[i] = h
  BY <1>0, SetToSeqIs
<1> HIDE DEF n, s
<1>2. Rejects(end, t, s, n)
  <2>1. SetToSeq(F) = s
    BY DEF s
  <2> QED
    BY <1>1, <2>1, RejectTrace
<1> HIDE DEF end
<1>3. PICK tr \in [0..n -> Trackers] : IsReject(tr, t, s, n) /\ tr[n] = end
  BY <1>2 DEF Rejects
<1>4. tr[0] = t /\ \A i \in 1..n : tr[i] = Release(tr[i - 1], call[s[i]], FALSE)
  BY <1>3 DEF IsReject
<1> DEFINE left(id, i) == {h \in HoldersOf(id) : \A j \in 1..i : s[j] # h}
           Good(i) == /\ RejectOk(t, tr[i], F)
                      /\ counted => \A id \in Ids : Cardinality(left(id, i)) = RefsOf(tr[i], id)
           bad == {i \in 0..n : ~Good(i)}
<1>5. Good(0)
  <2>1. RejectOk(t, t, F)
    BY DEF RejectOk
  <2>2. \A id : left(id, 0) = HoldersOf(id)
    OBVIOUS
  <2> QED
    BY <1>4, <2>1, <2>2
<1>6. ASSUME NEW i \in 1..n, Good(i - 1)
      PROVE  Good(i)
  <2> DEFINE v == tr[i - 1]
             w == tr[i]
             x == call[s[i]]
             rest == OneLess(RefsOf(v, x))
  <2>1. v \in Trackers /\ w \in Trackers /\ s[i] \in F /\ x \in Ids /\ i \in Nat
    BY <1>1, <1>3
  <2>2. w = Release(v, x, FALSE)
    BY <1>4
  <2>3. RejectOk(t, v, F)
    BY <1>6
  <2>4. counted => \A id \in Ids : Cardinality(left(id, i - 1)) = RefsOf(v, id)
    BY <1>6
  <2> HIDE DEF v, w, x, counted, left
  <2>5. /\ DOMAIN w.subsets = IF rest = 0 THEN DOMAIN v.subsets \ {x} ELSE DOMAIN v.subsets
        /\ RefsOf(w, x) = rest
        /\ \A y : y # x => RefsOf(w, y) = RefsOf(v, y)
        /\ \A y \in DOMAIN w.subsets : w.subsets[y].keys = v.subsets[y].keys
                                       /\ w.subsets[y].loaded = v.subsets[y].loaded
    <3>1. ReleaseOk(v, w, x, FALSE)
      BY <2>1, <2>2, ReleaseIs
    <3> QED
      BY <3>1 DEF ReleaseOk
  <2> HIDE DEF rest
  <2>6. RejectOk(t, w, F)
    <3>1. DOMAIN w.subsets \subseteq DOMAIN v.subsets
      BY <2>5
    <3>2. ASSUME NEW y \in DOMAIN w.subsets, RefsOf(w, y) = 0
          PROVE  RefsOf(v, y) = 0
      BY <2>5, <3>2
    <3> QED
      BY <2>1, <2>3, <2>5, <3>1, <3>2 DEF RejectOk
  <2>7. ASSUME counted, NEW id \in Ids
        PROVE  Cardinality(left(id, i)) = RefsOf(w, id)
    <3>1. left(id, i) = left(id, i - 1) \ {s[i]}
      <4>1. \A j \in 1..i : j = i \/ j \in 1..(i - 1)
        BY <2>1
      <4>2. i \in 1..i /\ \A j \in 1..(i - 1) : j \in 1..i
        BY <2>1
      <4> QED
        BY <4>1, <4>2 DEF left
    <3>2. IsFiniteSet(left(id, i - 1)) /\ Cardinality(left(id, i - 1)) \in Nat
      BY HoldersFinite DEF left, HoldersOf
    <3>3. Cardinality(left(id, i - 1)) = RefsOf(v, id)
      BY <2>4, <2>7
    <3>4. CASE id = x
      <4>1. s[i] \in left(id, i - 1)
        <5>1. held[s[i]] = id /\ s[i] \in Holders
          BY <2>1, <2>7, <3>4 DEF counted, x
        <5>2. \A j \in 1..(i - 1) : s[j] # s[i]
          BY <1>1, <2>1
        <5> QED
          BY <5>1, <5>2 DEF left, HoldersOf
      <4>2. Cardinality(left(id, i)) = Cardinality(left(id, i - 1)) - 1
        <5> DEFINE some == left(id, i - 1)
        <5> HIDE DEF some
        <5>1. Cardinality(some \ {s[i]}) = Cardinality(some) - 1
          BY <3>2, <4>1, FS_RemoveElement DEF some
        <5> QED
          BY <3>1, <5>1 DEF some
      <4>3. Cardinality(left(id, i - 1)) # 0
        BY <3>2, <4>1, FS_EmptySet
      <4> QED
        BY <2>5, <3>2, <3>3, <3>4, <4>2, <4>3 DEF rest, OneLess
    <3>5. CASE id # x
      <4>1. s[i] \notin left(id, i - 1)
        BY <2>1, <2>7, <3>5 DEF left, HoldersOf, counted, x
      <4>2. left(id, i) = left(id, i - 1)
        BY <3>1, <4>1
      <4> QED
        BY <2>5, <3>3, <3>5, <4>2
    <3> QED
      BY <3>4, <3>5
  <2> QED
    BY <2>6, <2>7 DEF w
<1> HIDE DEF Good, counted
<1>7. Good(n)
  <2> SUFFICES ASSUME bad # {} PROVE FALSE
    BY <1>1
  <2>1. bad \in SUBSET Nat
    BY <1>1
  <2>2. PICK i \in bad : \A j \in bad : i <= j
    BY <2>1, LeastNumber
  <2>3. i # 0
    BY <1>5, <2>2
  <2>4. i \in 1..n /\ i - 1 \in 0..n /\ i - 1 \notin bad
    BY <1>1, <2>2, <2>3
  <2>5. Good(i - 1)
    BY <2>4
  <2> QED
    BY <1>6, <2>2, <2>4, <2>5
<1>8. \A id : left(id, n) = HoldersOf(id) \ F
  <2> SUFFICES ASSUME NEW id, NEW h \in HoldersOf(id)
               PROVE  (\A j \in 1..n : s[j] # h) <=> h \notin F
    BY DEF left
  <2> QED
    BY <1>1
<1>9. RejectOk(t, end, F) /\ (counted => \A id \in Ids : Cardinality(HoldersOf(id) \ F) = RefsOf(end, id))
  BY <1>3, <1>7, <1>8 DEF Good
<1> QED
  BY <1>9 DEF counted, end

-----------------------------------------------------------------------------
(***************************************************************************)
(* Sequences.                                                              *)
(***************************************************************************)
Once(s) == \A i, j \in DOMAIN s : s[i] = s[j] => i = j

LEMMA SeqIs ==
  ASSUME NEW S, NEW s \in Seq(S)
  PROVE  /\ Len(s) \in Nat /\ DOMAIN s = 1..Len(s) /\ s \in [1..Len(s) -> S]
         /\ Range(s) \in SUBSET S
         /\ s = <<>> <=> Range(s) = {}
         /\ \A i \in DOMAIN s : s[i] \in Range(s)
<1>1. Len(s) \in Nat /\ DOMAIN s = 1..Len(s) /\ s \in [1..Len(s) -> S]
  BY LenProperties
<1>2. s = <<>> <=> Len(s) = 0
  BY <1>1, EmptySeq
<1>3. Len(s) # 0 => 1 \in DOMAIN s
  BY <1>1
<1>4. Len(s) = 0 => DOMAIN s = {}
  BY <1>1
<1> QED
  BY <1>1, <1>2, <1>3, <1>4 DEF Range

LEMMA AppendIs ==
  ASSUME NEW S, NEW s \in Seq(S), NEW e \in S
  PROVE  LET r == Append(s, e) IN
         /\ r \in Seq(S) /\ DOMAIN r = 1..(Len(s) + 1)
         /\ \A i \in DOMAIN s : r[i] = s[i]
         /\ r[Len(s) + 1] = e
         /\ Range(r) = Range(s) \cup {e}
         /\ Once(s) /\ e \notin Range(s) => Once(r)
<1> DEFINE r == Append(s, e)
<1>1. Len(s) \in Nat /\ DOMAIN s = 1..Len(s) /\ \A i \in DOMAIN s : s[i] \in Range(s)
  BY SeqIs
<1>2. /\ r \in Seq(S) /\ Len(r) = Len(s) + 1
      /\ \A i \in 1..Len(s) : r[i] = s[i]
      /\ r[Len(s) + 1] = e
  BY AppendProperties
<1>3. DOMAIN r = 1..(Len(s) + 1)
  BY <1>2, SeqIs
<1> HIDE DEF r
<1>4. \A i \in 1..(Len(s) + 1) : i \in 1..Len(s) \/ i = Len(s) + 1
  BY <1>1
<1>5. Len(s) + 1 \in 1..(Len(s) + 1) /\ \A i \in 1..Len(s) : i \in 1..(Len(s) + 1)
  BY <1>1
<1>6. Range(r) = Range(s) \cup {e}
  BY <1>1, <1>2, <1>3, <1>4, <1>5 DEF Range
<1>7. Once(s) /\ e \notin Range(s) => Once(r)
  BY <1>1, <1>2, <1>3, <1>4 DEF Once
<1> QED
  BY <1>1, <1>2, <1>3, <1>6, <1>7 DEF r

LEMMA TailIs ==
  ASSUME NEW S, NEW s \in Seq(S), s # <<>>
  PROVE  LET r == Tail(s) IN
         /\ r \in Seq(S) /\ DOMAIN r = 1..(Len(s) - 1) /\ Len(s) \in Nat
         /\ 1 \in DOMAIN s /\ Head(s) = s[1] /\ Head(s) \in Range(s)
         /\ \A i \in DOMAIN r : i + 1 \in DOMAIN s /\ r[i] = s[i + 1]
         /\ Range(s) = Range(r) \cup {Head(s)}
         /\ Once(s) => Once(r) /\ Head(s) \notin Range(r)
<1> DEFINE r == Tail(s)
<1>1. Len(s) \in Nat /\ DOMAIN s = 1..Len(s) /\ \A i \in DOMAIN s : s[i] \in Range(s)
  BY SeqIs
<1>2. Len(s) # 0
  BY EmptySeq
<1>3. /\ r \in Seq(S) /\ Len(r) = Len(s) - 1
      /\ \A i \in 1..Len(r) : r[i] = s[i + 1]
  BY HeadTailProperties
<1>4. DOMAIN r = 1..(Len(s) - 1)
  BY <1>3, SeqIs
<1>5. Head(s) = s[1]
  OBVIOUS
<1> HIDE DEF r
<1>6. 1 \in DOMAIN s
  BY <1>1, <1>2
<1>7. \A i \in DOMAIN r : i + 1 \in DOMAIN s /\ r[i] = s[i + 1] /\ i + 1 # 1
  BY <1>1, <1>3, <1>4
<1>8. \A i \in DOMAIN s : i = 1 \/ (i - 1 \in DOMAIN r /\ r[i - 1] = s[i])
  <2> TAKE i \in DOMAIN s
  <2>1. i = 1 \/ i - 1 \in 1..(Len(s) - 1)
    BY <1>1
  <2>2. i - 1 \in 1..(Len(s) - 1) => r[i - 1] = s[(i - 1) + 1]
    BY <1>3
  <2>3. (i - 1) + 1 = i
    BY <1>1
  <2> QED
    BY <1>4, <2>1, <2>2, <2>3
<1>9. Range(s) = Range(r) \cup {s[1]}
  BY <1>6, <1>7, <1>8 DEF Range
<1>10. ASSUME Once(s)
       PROVE  Once(r) /\ s[1] \notin Range(r)
  <2>1. \A i, j \in DOMAIN r : i + 1 = j + 1 => i = j
    BY <1>1, <1>4
  <2>2. Once(r)
    BY <1>7, <1>10, <2>1 DEF Once
  <2>3. s[1] \notin Range(r)
    BY <1>6, <1>7, <1>10 DEF Once, Range
  <2> QED
    BY <2>2, <2>3
<1> QED
  BY <1>1, <1>3, <1>4, <1>5, <1>6, <1>7, <1>9, <1>10 DEF r

LEMMA ConcatIs ==
  ASSUME NEW S, NEW s \in Seq(S), NEW t \in Seq(S)
  PROVE  /\ s \o t \in Seq(S)
         /\ Range(s \o t) = Range(s) \cup Range(t)
         /\ Once(s) /\ Once(t) /\ Range(s) \cap Range(t) = {} => Once(s \o t)
<1> DEFINE r == s \o t
           m == Len(s)
           n == Len(t)
<1>1. /\ m \in Nat /\ DOMAIN s = 1..m /\ n \in Nat /\ DOMAIN t = 1..n
      /\ (\A i \in DOMAIN s : s[i] \in Range(s)) /\ (\A i \in DOMAIN t : t[i] \in Range(t))
  BY SeqIs
<1>2. /\ r \in Seq(S) /\ Len(r) = m + n
      /\ \A i \in 1..(m + n) : r[i] = IF i <= m THEN s[i] ELSE t[i - m]
  BY ConcatProperties
<1>3. DOMAIN r = 1..(m + n)
  BY <1>2, SeqIs
<1> HIDE DEF r, m, n
<1>4. \A i \in 1..(m + n) : \/ i \in 1..m /\ r[i] = s[i]
                            \/ i - m \in 1..n /\ r[i] = t[i - m]
  BY <1>1, <1>2
<1>5. \A i \in 1..m : i \in 1..(m + n) /\ r[i] = s[i]
  BY <1>1, <1>2
<1>6. \A i \in 1..n : m + i \in 1..(m + n) /\ r[m + i] = t[i]
  <2> TAKE i \in 1..n
  <2>1. m + i \in 1..(m + n) /\ ~(m + i <= m) /\ (m + i) - m = i
    BY <1>1
  <2>2. r[m + i] = t[(m + i) - m]
    BY <1>2, <2>1
  <2> QED
    BY <2>1, <2>2
<1>7. Range(r) = Range(s) \cup Range(t)
  <2>1. ASSUME NEW x \in Range(r)
        PROVE  x \in Range(s) \cup Range(t)
    <3>1. PICK i \in 1..(m + n) : r[i] = x
      BY <1>3 DEF Range
    <3> QED
      BY <1>1, <1>4, <3>1
  <2>2. Range(s) \subseteq Range(r)
    BY <1>1, <1>3, <1>5 DEF Range
  <2>3. Range(t) \subseteq Range(r)
    BY <1>1, <1>3, <1>6 DEF Range
  <2> QED
    BY <2>1, <2>2, <2>3
<1>8. ASSUME Once(s), Once(t), Range(s) \cap Range(t) = {}
      PROVE  Once(r)
  <2> SUFFICES ASSUME NEW i \in 1..(m + n), NEW j \in 1..(m + n), r[i] = r[j]
               PROVE  i = j
    BY <1>3 DEF Once
  <2>1. CASE i \in 1..m /\ r[i] = s[i]
    <3>1. j \in 1..m /\ r[j] = s[j]
      BY <1>1, <1>4, <1>8, <2>1
    <3> QED
      BY <1>1, <1>8, <2>1, <3>1 DEF Once
  <2>2. CASE i - m \in 1..n /\ r[i] = t[i - m]
    <3>1. j - m \in 1..n /\ r[j] = t[j - m]
      BY <1>1, <1>4, <1>8, <2>2
    <3>2. i - m = j - m
      BY <1>1, <1>8, <2>2, <3>1 DEF Once
    <3> QED
      BY <1>1, <3>2
  <2> QED
    BY <1>4, <2>1, <2>2
<1> QED
  BY <1>2, <1>7, <1>8 DEF r

LEMMA RangeIs ==
  ASSUME NEW s
  PROVE  ToSet(s) = Range(s)
BY DEF ToSet, Range

-----------------------------------------------------------------------------
(***************************************************************************)
(* The log.                                                                *)
(***************************************************************************)
LogOk(L) ==
  /\ L \in SUBSET Entry /\ Numbered(L)
  /\ \A n \in 1..ReadWatermark(L) : \E c \in L : c.seq = n

LEMMA EntryIs ==
  ASSUME NEW c \in Entry
  PROVE  /\ c.seq \in Nat /\ 1 <= c.seq /\ c.seq <= MaxSequence
         /\ c.scope = Collection /\ c.key \in Keys /\ c.value \in Content
<1>1. MaxSequence \in Nat
  BY SubsetsAssumption
<1>2. c.seq \in 1..MaxSequence /\ c.scope = Collection /\ c.key \in Keys /\ c.value \in Content
  BY DEF Entry, Content
<1> QED
  BY <1>1, <1>2

LEMMA TopIs ==
  ASSUME NEW L \in SUBSET Entry
  PROVE  /\ ReadWatermark(L) \in Nat
         /\ \A c \in L : c.seq \in Nat /\ 1 <= c.seq /\ c.seq <= ReadWatermark(L)
         /\ \/ L = {} /\ ReadWatermark(L) = 0
            \/ \E c \in L : c.seq = ReadWatermark(L)
<1> DEFINE S == SeqNumbers(L)
<1>1. MaxSequence \in Nat
  BY SubsetsAssumption
<1>2. \A c \in L : c.seq \in Nat /\ 1 <= c.seq /\ c.seq <= MaxSequence
  BY EntryIs
<1>3. CASE L = {}
  BY <1>3 DEF ReadWatermark
<1>4. CASE L # {}
  <2>1. S \in SUBSET Nat /\ S # {} /\ \A n \in S : n <= MaxSequence
    BY <1>2, <1>4 DEF SeqNumbers
  <2>2. Max(S) \in S /\ \A n \in S : n <= Max(S)
    BY <1>1, <2>1, MaxIsGreatest
  <2>3. ReadWatermark(L) = Max(S)
    BY <1>4 DEF ReadWatermark
  <2>4. \A c \in L : c.seq \in S
    BY DEF SeqNumbers
  <2>5. PICK c \in L : c.seq = Max(S)
    BY <2>2 DEF SeqNumbers
  <2> HIDE DEF S
  <2> QED
    BY <1>2, <2>1, <2>2, <2>3, <2>4, <2>5
<1> QED
  BY <1>3, <1>4

\* The log M is L with later updates.
Grows(L, M, New) ==
  /\ LogOk(M) /\ M = L \cup New
  /\ ReadWatermark(L) < ReadWatermark(M) /\ New # {}
  /\ \A c \in New : c.seq > ReadWatermark(L)

Pushed(b) == {[seq |-> Watermark + i, scope |-> Collection,
               key |-> b[i].key, value |-> b[i].value] : i \in DOMAIN b}

LEMMA PushedIs ==
  ASSUME LogOk(log), NEW b \in Batches, Watermark + Len(b) <= MaxSequence
  PROVE  /\ Grows(log, log \cup Pushed(b), Pushed(b))
         /\ ReadWatermark(log \cup Pushed(b)) = Watermark + Len(b)
<1> DEFINE W == ReadWatermark(log)
           n == Len(b)
           New == Pushed(b)
           M == log \cup New
           Update == [key : Keys, value : Values \cup {Gone}]
<1>1. b \in Seq(Update) /\ b # <<>>
  BY SubsetsAssumption
<1> HIDE DEF Update
<1>2. n \in Nat /\ n # 0 /\ DOMAIN b = 1..n /\ \A i \in 1..n : b[i] \in Update
  BY <1>1, EmptySeq, LenProperties
<1>3. W \in Nat /\ W + n <= MaxSequence /\ MaxSequence \in Nat /\ Watermark = W
      /\ \A c \in log : c.seq \in Nat /\ c.seq <= W
  BY TopIs, SubsetsAssumption DEF Watermark, LogOk
<1> HIDE DEF n, W
<1> DEFINE e == [i \in 1..n |-> [seq |-> W + i, scope |-> Collection,
                                 key |-> b[i].key, value |-> b[i].value]]
<1>4. \A i \in 1..n : e[i] \in Entry /\ e[i].seq = W + i
  <2> TAKE i \in 1..n
  <2>1. W + i \in 1..MaxSequence
    BY <1>2, <1>3
  <2>2. b[i].key \in Keys /\ b[i].value \in Values \cup {Gone}
    BY <1>2 DEF Update
  <2> QED
    BY <2>1, <2>2 DEF Entry
<1>5. New = {e[i] : i \in 1..n}
  BY <1>2, <1>3 DEF Pushed
<1> HIDE DEF e, New
<1>6. \A c \in New : \E i \in 1..n : c = e[i] /\ c.seq = W + i /\ c \in Entry
  BY <1>4, <1>5
<1>7. \A i \in 1..n : e[i] \in New
  BY <1>5
<1>8. \A c \in New : c.seq \in Nat /\ c.seq > W /\ c.seq <= W + n
  BY <1>2, <1>3, <1>6
<1>9. \A c, d \in New : c.seq = d.seq => c = d
  BY <1>2, <1>3, <1>6
<1>10. IsFiniteSet(New)
  <2>1. IsFiniteSet(1..n)
    BY <1>2, FS_Interval
  <2>2. e \in Surjection(1..n, New)
    <3>1. e \in [1..n -> New]
      BY <1>5 DEF e
    <3> QED
      BY <1>5, <3>1 DEF Surjection
  <2> QED
    BY <2>1, <2>2, FS_Surjection
<1>11. M \in SUBSET Entry
  BY <1>6 DEF LogOk
<1>12. ReadWatermark(M) = W + n
  <2>1. /\ ReadWatermark(M) \in Nat
        /\ \A c \in M : c.seq <= ReadWatermark(M)
        /\ \/ M = {} /\ ReadWatermark(M) = 0
           \/ \E c \in M : c.seq = ReadWatermark(M)
    BY <1>11, TopIs
  <2>2. \A c \in M : c.seq <= W + n
    BY <1>2, <1>3, <1>8
  <2>3. n \in 1..n
    BY <1>2
  <2>4. e[n] \in M /\ e[n].seq = W + n
    BY <1>4, <1>7, <2>3
  <2> HIDE DEF M
  <2> QED
    BY <1>2, <1>3, <2>1, <2>2, <2>4
<1>13. Numbered(M)
  <2>1. IsFiniteSet(M)
    BY <1>10, FS_Union DEF LogOk, Numbered
  <2>2. \A c \in M : c.seq \in Nat
    BY <1>3, <1>8
  <2>3. \A c, d \in M : c.seq = d.seq => c = d
    <3>1. \A c, d \in log : c.seq = d.seq => c = d
      BY DEF LogOk, Numbered
    <3>2. \A c \in log, d \in New : c.seq # d.seq
      BY <1>3, <1>8
    <3> QED
      BY <1>9, <3>1, <3>2
  <2> HIDE DEF M
  <2> QED
    BY <2>1, <2>2, <2>3 DEF Numbered
<1>14. ASSUME NEW m \in 1..(W + n)
       PROVE  \E c \in M : c.seq = m
  <2>1. CASE m <= W
    <3>1. m \in 1..W
      BY <1>2, <1>3, <2>1
    <3> QED
      BY <3>1 DEF LogOk, W
  <2>2. CASE ~(m <= W)
    <3>1. m - W \in 1..n /\ W + (m - W) = m
      BY <1>2, <1>3, <2>2
    <3> QED
      BY <1>4, <1>7, <3>1
  <2> QED
    BY <2>1, <2>2
<1>15. LogOk(M)
  BY <1>11, <1>12, <1>13, <1>14 DEF LogOk
<1>16. New # {} /\ W < W + n /\ \A c \in New : c.seq > W
  <2>1. 1 \in 1..n
    BY <1>2
  <2> QED
    BY <1>2, <1>3, <1>7, <1>8, <2>1
<1> HIDE DEF M
<1>17. Grows(log, M, New)
  BY <1>12, <1>15, <1>16 DEF Grows, W, M
<1> QED
  BY <1>3, <1>12, <1>17 DEF M, New, n

-----------------------------------------------------------------------------
(***************************************************************************)
(* The inductive invariant.                                                *)
(***************************************************************************)
Askers == Holders \cup {Session}

\* A message answers a request.
Answers(m, who) ==
  \/ m.type = "rows" /\ m.holder = who
  \/ m.type \in {"reloaded", "history"} /\ who = Session

\* Those whose answer is on the wire.
Due(w) == {who \in Askers : \E i \in DOMAIN w : Answers(w[i], who)}

ReadOk(r) == DOMAIN r \in SUBSET Keys /\ r \in [DOMAIN r -> Values]

\* A page of the history, or word that it was pruned.
HistoryOk(L, a) ==
  \/ a.type = "resyncRequired" /\ a.watermark \in Nat
  \/ a.type = "changes" /\ a.updates \in SUBSET L /\ a.cursors[Collection] \in Nat

UpdatesOk(L, m) ==
  /\ m.type = "updates" /\ m.updates \in SUBSET L
  /\ m.watermark \in Nat /\ m.watermark <= ReadWatermark(L)

MessageOk(L, m) ==
  \/ UpdatesOk(L, m)
  \/ m.type = "rows" /\ m.holder \in Holders /\ ReadOk(m.rows)
  \/ m.type = "reloaded" /\ ReadOk(m.rows)
  \/ m.type = "history" /\ HistoryOk(L, m.answer)

\* The broadcasts on a wire and in a buffer.
Known(w, B) == {b \in Range(w) \cup B : b.type = "updates"}

MessagesOk(L, w, B) ==
  /\ w \in Seq(Range(w))
  /\ \A i \in DOMAIN w : MessageOk(L, w[i])
  /\ \A b \in B : UpdatesOk(L, b)
  /\ \A b, d \in Known(w, B) : b.watermark = d.watermark => b = d

\* Every request is in one place: with the shard, answered, or held back.
OnceDue(w) ==
  \A i, j \in DOMAIN w, who \in Askers :
    Answers(w[i], who) /\ Answers(w[j], who) => i = j

PlacesOk ==
  /\ asked \in Seq(Askers) /\ waiting \in Seq(Holders) /\ unsent \in Seq(Holders)
  /\ Once(asked) /\ Once(waiting) /\ Once(unsent) /\ OnceDue(wire)
  /\ Range(asked) \cap Due(wire) = {}
  /\ (Range(asked) \cup Due(wire)) \cap Range(waiting) = {}

\* Whoever has a request is in readSubset, or it is the session.
CallersOk ==
  /\ \A h \in Range(asked) \cup Due(wire) \cup Range(waiting) \cup Range(unsent) :
       h # Session => call[h] \in Ids
  /\ Session \in Range(asked) \cup Due(wire) => queue = "running"
  /\ \A i \in DOMAIN wire : wire[i].type = "reloaded" => reloading \in Ids

ConnOk ==
  /\ connected \in BOOLEAN
  /\ connected => unsent = <<>>
  /\ ~connected => /\ asked = <<>> /\ wire = <<>> /\ waiting = <<>>
                   /\ queue # "running" /\ state = "disconnected"
  /\ waiting # <<>> => queue = "running"
  /\ state = "synchronized" => queue = "settled"
  /\ queue # "running" => reloading = None

Types ==
  /\ View \in Views /\ base \in Nat /\ reloading \in Ids \cup {None}
  /\ queries \in SUBSET Ids
  /\ held \in [Holders -> Ids \cup {None}] /\ call \in [Holders -> Ids \cup {None}]
  /\ timers \in SUBSET Ids
  /\ buffered \in Seq(Range(buffered))

SubsetsInv ==
  /\ LogOk(log) /\ Types /\ MessagesOk(log, wire, Range(buffered))
  /\ PlacesOk /\ CallersOk /\ ConnOk

-----------------------------------------------------------------------------
(* What is on the wire.                                                    *)
LEMMA ChangesKept ==
  ASSUME LogOk(log)
  PROVE  Changes \in SUBSET log /\ Changes \in SUBSET Entry
BY DEF Changes, PruneChanges, LogOk

LEMMA HistoryIs ==
  ASSUME LogOk(log), cursor \in Nat,
         NEW from, from = [s \in {Collection} |-> cursor]
  PROVE  HistoryOk(log, ReadChanges(Changes, [s \in {Collection} |-> Watermark],
                                    from, ChangesLimit))
<1> DEFINE C == Changes
           latest == [s \in {Collection} |-> Watermark]
           stale == {s \in DOMAIN from : IsCursorStale(C, latest, s, from[s])}
           found == SelectChanges(C, from, ChangesLimit + 1)
           page == FirstRows(found, ChangesLimit)
           more == Cardinality(found) > ChangesLimit
           last(s) == IF InScope(page, s) = {} THEN from[s]
                      ELSE Max(SeqNumbers(InScope(page, s)))
           W == ReadWatermark(C)
           a == ReadChanges(C, latest, from, ChangesLimit)
<1>1. C \in SUBSET log /\ C \in SUBSET Entry /\ W \in Nat /\ from[Collection] = cursor
      /\ DOMAIN from = {Collection}
  BY ChangesKept, TopIs
<1>2. a = IF stale # {}
          THEN [type |-> "resyncRequired", collections |-> stale, watermark |-> W]
          ELSE [type |-> "changes", updates |-> page, watermark |-> W,
                hasMore |-> more,
                cursors |-> [s \in DOMAIN from |-> IF more THEN last(s) ELSE W]]
  BY Zenon DEF ReadChanges
<1>3. page \in SUBSET found /\ found \in SUBSET C
  BY DEF FirstRows, SelectChanges
<1> HIDE DEF page, found, stale, a, C, latest
<1>4. last(Collection) \in Nat
  <2> DEFINE part == InScope(page, Collection)
             S == SeqNumbers(part)
  <2>1. part \in SUBSET Entry
    BY <1>1, <1>3 DEF InScope
  <2> HIDE DEF part
  <2>2. CASE part = {}
    BY <1>1, <2>2 DEF part
  <2>3. CASE part # {}
    <3>1. MaxSequence \in Nat
      BY SubsetsAssumption
    <3>2. S \in SUBSET Nat /\ S # {} /\ \A x \in S : x <= MaxSequence
      BY <2>1, <2>3, EntryIs DEF SeqNumbers
    <3> HIDE DEF S
    <3>3. Max(S) \in Nat
      BY <3>1, <3>2, MaxIsGreatest
    <3> QED
      BY <2>3, <3>3 DEF S, part
  <2> QED
    BY <2>2, <2>3
<1> HIDE DEF last, W
<1>5. CASE stale # {}
  <2>1. a = [type |-> "resyncRequired", collections |-> stale, watermark |-> W]
    BY <1>2, <1>5
  <2>2. a.type = "resyncRequired" /\ a.watermark = W
    BY <2>1
  <2> QED
    BY <1>1, <2>2 DEF HistoryOk, a, C, latest
<1>6. CASE stale = {}
  <2>1. a = [type |-> "changes", updates |-> page, watermark |-> W,
             hasMore |-> more,
             cursors |-> [s \in DOMAIN from |-> IF more THEN last(s) ELSE W]]
    BY <1>2, <1>6
  <2>2. a.type = "changes" /\ a.updates = page
        /\ a.cursors[Collection] = IF more THEN last(Collection) ELSE W
    BY <1>1, <2>1
  <2>3. page \in SUBSET log
    BY <1>1, <1>3
  <2>4. a.cursors[Collection] \in Nat
    BY <1>1, <1>4, <2>2
  <2> QED
    BY <2>2, <2>3, <2>4 DEF HistoryOk, a, C, latest
<1> QED
  BY <1>5, <1>6

LEMMA ReadRowsIs ==
  ASSUME NEW id \in Ids
  PROVE  ReadOk(ReadRows(id))
<1> DEFINE all == RowsAt(Watermark)
           D == {k \in Keys : all[k] \in Accepts[id]}
           r == [k \in D |-> all[k]]
<1>1. ReadRows(id) = r
  BY DEF ReadRows
<1>2. \A k \in D : all[k] \in Values
  BY AcceptsValues
<1> HIDE DEF all
<1>3. DOMAIN r = D /\ r \in [D -> Values] /\ D \in SUBSET Keys
  BY <1>2
<1> QED
  BY <1>1, <1>3 DEF ReadOk

LEMMA SessionIs ==
  /\ Session \in Askers /\ Session \notin Holders /\ Holders \subseteq Askers
  /\ \A who \in Askers : who # Session => who \in Holders
  /\ None \notin Ids
BY SubsetsAssumption DEF Askers

LEMMA AnswerIs ==
  ASSUME SubsetsInv, NEW who \in Range(asked)
  PROVE  LET m == Answer(who) IN
         /\ MessageOk(log, m) /\ m.type # "updates"
         /\ \A x \in Askers : Answers(m, x) <=> x = who
         /\ m.type = "reloaded" => reloading \in Ids
<1> DEFINE m == Answer(who)
<1>1. who \in Askers /\ (who # Session => call[who] \in Ids) /\ reloading \in Ids \cup {None}
      /\ cursor \in Nat /\ LogOk(log)
  BY SeqIs, ViewIs DEF SubsetsInv, PlacesOk, CallersOk, Types, View
<1>2. CASE who # Session
  <2>1. m = [type |-> "rows", holder |-> who, rows |-> ReadRows(call[who])]
    BY <1>2 DEF Answer
  <2>2. ReadOk(ReadRows(call[who])) /\ who \in Holders
    BY <1>1, <1>2, ReadRowsIs, SessionIs
  <2>3. m.type = "rows" /\ m.holder = who /\ ReadOk(m.rows)
    BY <2>1, <2>2
  <2> HIDE DEF m
  <2>4. MessageOk(log, m)
    BY <2>2, <2>3 DEF MessageOk
  <2>5. \A x \in Askers : Answers(m, x) <=> x = who
    BY <2>3 DEF Answers
  <2> QED
    BY <2>3, <2>4, <2>5 DEF m
<1>3. CASE who = Session /\ reloading # None
  <2>1. m = [type |-> "reloaded", rows |-> ReadRows(reloading)]
    BY <1>3 DEF Answer
  <2>2. ReadOk(ReadRows(reloading)) /\ reloading \in Ids
    BY <1>1, <1>3, ReadRowsIs
  <2>3. m.type = "reloaded" /\ ReadOk(m.rows)
    BY <2>1, <2>2
  <2> HIDE DEF m
  <2>4. MessageOk(log, m)
    BY <2>3 DEF MessageOk
  <2>5. \A x \in Askers : Answers(m, x) <=> x = who
    BY <1>3, <2>3 DEF Answers
  <2> QED
    BY <2>2, <2>3, <2>4, <2>5 DEF m
<1>4. CASE who = Session /\ reloading = None
  <2> DEFINE a == ReadChanges(Changes, [s \in {Collection} |-> Watermark],
                              [s \in {Collection} |-> cursor], ChangesLimit)
  <2>1. m = [type |-> "history", answer |-> a]
    BY <1>4, Zenon DEF Answer
  <2>2. HistoryOk(log, a)
    BY <1>1, HistoryIs
  <2> HIDE DEF a
  <2>3. m.type = "history" /\ HistoryOk(log, m.answer)
    BY <2>1, <2>2
  <2> HIDE DEF m
  <2>4. MessageOk(log, m)
    BY <2>3 DEF MessageOk
  <2>5. \A x \in Askers : Answers(m, x) <=> x = who
    BY <1>4, <2>3 DEF Answers
  <2> QED
    BY <2>3, <2>4, <2>5 DEF m
<1> QED
  BY <1>2, <1>3, <1>4

LEMMA DueAppend ==
  ASSUME NEW S, NEW w \in Seq(S), NEW m \in S
  PROVE  /\ Due(Append(w, m)) = Due(w) \cup {who \in Askers : Answers(m, who)}
         /\ (OnceDue(w) /\ \A who \in Due(w) : ~Answers(m, who)) => OnceDue(Append(w, m))
<1> DEFINE r == Append(w, m)
<1>1. /\ Len(w) \in Nat /\ DOMAIN w = 1..Len(w) /\ DOMAIN r = 1..(Len(w) + 1)
      /\ \A i \in DOMAIN w : r[i] = w[i]
      /\ r[Len(w) + 1] = m
  BY SeqIs, AppendIs
<1> HIDE DEF r
<1>2. /\ \A i \in DOMAIN r : i \in DOMAIN w \/ i = Len(w) + 1
      /\ \A i \in DOMAIN w : i \in DOMAIN r
      /\ Len(w) + 1 \in DOMAIN r
  BY <1>1
<1>3. Due(r) = Due(w) \cup {who \in Askers : Answers(m, who)}
  BY <1>1, <1>2 DEF Due
<1>4. ASSUME OnceDue(w), \A who \in Due(w) : ~Answers(m, who)
      PROVE  OnceDue(r)
  <2> SUFFICES ASSUME NEW i \in DOMAIN r, NEW j \in DOMAIN r, NEW who \in Askers,
                      Answers(r[i], who), Answers(r[j], who)
               PROVE  i = j
    BY DEF OnceDue
  <2>1. ASSUME NEW x \in DOMAIN w, Answers(r[x], who)
        PROVE  ~Answers(m, who)
    BY <1>1, <1>4, <2>1 DEF Due
  <2>2. CASE i \in DOMAIN w /\ j \in DOMAIN w
    BY <1>1, <1>4, <2>2 DEF OnceDue
  <2>3. CASE i = Len(w) + 1 \/ j = Len(w) + 1
    BY <1>1, <1>2, <2>1, <2>3
  <2> QED
    BY <1>2, <2>2, <2>3
<1> QED
  BY <1>3, <1>4 DEF r

LEMMA DueTail ==
  ASSUME NEW S, NEW w \in Seq(S), w # <<>>, OnceDue(w)
  PROVE  /\ Due(w) = Due(Tail(w)) \cup {who \in Askers : Answers(Head(w), who)}
         /\ OnceDue(Tail(w))
         /\ \A who \in Due(Tail(w)) : ~Answers(Head(w), who)
<1> DEFINE r == Tail(w)
<1>1. /\ Len(w) \in Nat /\ DOMAIN w = 1..Len(w) /\ DOMAIN r = 1..(Len(w) - 1)
      /\ 1 \in DOMAIN w /\ Head(w) = w[1]
      /\ \A i \in DOMAIN r : i + 1 \in DOMAIN w /\ r[i] = w[i + 1]
  BY SeqIs, TailIs
<1> HIDE DEF r
<1>2. \A i \in DOMAIN w : i = 1 \/ (i - 1 \in DOMAIN r /\ r[i - 1] = w[i])
  <2> TAKE i \in DOMAIN w
  <2>1. i = 1 \/ i - 1 \in DOMAIN r
    BY <1>1
  <2>2. (i - 1) + 1 = i
    BY <1>1
  <2> QED
    BY <1>1, <2>1, <2>2
<1>3. Due(w) = Due(r) \cup {who \in Askers : Answers(w[1], who)}
  <2>1. ASSUME NEW who \in Due(w)
        PROVE  who \in Due(r) \/ Answers(w[1], who)
    <3>1. PICK i \in DOMAIN w : Answers(w[i], who)
      BY DEF Due
    <3> QED
      BY <1>2, <3>1 DEF Due
  <2>2. \A who \in Due(r) : who \in Due(w)
    BY <1>1 DEF Due
  <2>3. \A who \in Askers : Answers(w[1], who) => who \in Due(w)
    BY <1>1 DEF Due
  <2>4. Due(w) \subseteq Askers
    BY DEF Due
  <2> QED
    BY <2>1, <2>2, <2>3, <2>4
<1>4. OnceDue(r)
  <2> SUFFICES ASSUME NEW i \in DOMAIN r, NEW j \in DOMAIN r, NEW who \in Askers,
                      Answers(r[i], who), Answers(r[j], who)
               PROVE  i = j
    BY DEF OnceDue
  <2>1. i + 1 = j + 1
    BY <1>1 DEF OnceDue
  <2> QED
    BY <1>1, <2>1
<1>5. ASSUME NEW who \in Due(r), Answers(w[1], who)
      PROVE  FALSE
  <2>1. PICK i \in DOMAIN r : Answers(r[i], who) /\ who \in Askers
    BY DEF Due
  <2>2. i + 1 = 1
    BY <1>1, <1>5, <2>1 DEF OnceDue
  <2> QED
    BY <1>1, <2>2
<1> QED
  BY <1>1, <1>3, <1>4, <1>5 DEF r

LEMMA MessagesAppend ==
  ASSUME NEW L, NEW w, NEW B, MessagesOk(L, w, B), NEW m, MessageOk(L, m),
         m.type = "updates" => \A b \in Known(w, B) : b.watermark # m.watermark
  PROVE  MessagesOk(L, Append(w, m), B)
<1> DEFINE r == Append(w, m)
           S == Range(w) \cup {m}
<1>1. w \in Seq(S) /\ w \in Seq(Range(w))
  BY DEF MessagesOk
<1>2. /\ Len(w) \in Nat /\ DOMAIN w = 1..Len(w) /\ DOMAIN r = 1..(Len(w) + 1)
      /\ \A i \in DOMAIN w : r[i] = w[i]
      /\ r[Len(w) + 1] = m
      /\ Range(r) = S /\ r \in Seq(S)
  BY <1>1, SeqIs, AppendIs
<1> HIDE DEF r
<1>3. \A i \in DOMAIN r : i \in DOMAIN w \/ i = Len(w) + 1
  BY <1>2
<1>4. \A i \in DOMAIN r : MessageOk(L, r[i])
  BY <1>2, <1>3 DEF MessagesOk
<1>5. \A b, d \in Known(r, B) : b.watermark = d.watermark => b = d
  <2>1. \A b \in Known(r, B) : b \in Known(w, B) \/ (b = m /\ m.type = "updates")
    BY <1>2 DEF Known
  <2>2. \A b, d \in Known(w, B) : b.watermark = d.watermark => b = d
    BY DEF MessagesOk
  <2> QED
    BY <2>1, <2>2
<1>6. r \in Seq(Range(r))
  BY <1>2
<1>7. \A b \in B : UpdatesOk(L, b)
  BY DEF MessagesOk
<1> QED
  BY <1>4, <1>5, <1>6, <1>7 DEF MessagesOk, r

LEMMA MessagesTail ==
  ASSUME NEW L, NEW w, NEW B, MessagesOk(L, w, B), w # <<>>,
         NEW C, C \subseteq B \cup {b \in {Head(w)} : b.type = "updates"}
  PROVE  MessagesOk(L, Tail(w), C) /\ MessageOk(L, Head(w))
<1> DEFINE r == Tail(w)
<1>1. w \in Seq(Range(w))
  BY DEF MessagesOk
<1>2. /\ r \in Seq(Range(w)) /\ 1 \in DOMAIN w /\ Head(w) = w[1]
      /\ \A i \in DOMAIN r : i + 1 \in DOMAIN w /\ r[i] = w[i + 1]
      /\ Range(w) = Range(r) \cup {Head(w)}
  BY <1>1, TailIs
<1> HIDE DEF r
<1>3. r \in Seq(Range(r))
  <2>1. Len(r) \in Nat /\ DOMAIN r = 1..Len(r) /\ \A i \in DOMAIN r : r[i] \in Range(r)
    BY <1>2, SeqIs
  <2>2. r \in [1..Len(r) -> Range(r)]
    BY <1>2, <2>1, SeqIs
  <2> QED
    BY <2>1, <2>2
<1>4. \A i \in DOMAIN r : MessageOk(L, r[i])
  BY <1>2 DEF MessagesOk
<1>5. MessageOk(L, Head(w))
  BY <1>2 DEF MessagesOk
<1>6. \A b \in C : UpdatesOk(L, b)
  <2> TAKE b \in C
  <2>1. b \in B \/ (b = Head(w) /\ b.type = "updates")
    OBVIOUS
  <2>2. b = Head(w) /\ b.type = "updates" => UpdatesOk(L, b)
    BY <1>5 DEF MessageOk
  <2> QED
    BY <2>1, <2>2 DEF MessagesOk
<1>7. \A b \in Known(r, C) : b \in Known(w, B)
  BY <1>2 DEF Known
<1> QED
  BY <1>3, <1>4, <1>5, <1>6, <1>7 DEF MessagesOk, r

LEMMA MessagesGrow ==
  ASSUME NEW L, NEW w, NEW B, MessagesOk(L, w, B), NEW M, L \subseteq M,
         L \in SUBSET Entry, M \in SUBSET Entry, ReadWatermark(L) <= ReadWatermark(M)
  PROVE  MessagesOk(M, w, B)
<1>1. ReadWatermark(L) \in Nat /\ ReadWatermark(M) \in Nat
  BY TopIs
<1>2. ASSUME NEW m, UpdatesOk(L, m)
      PROVE  UpdatesOk(M, m)
  BY <1>1, <1>2 DEF UpdatesOk
<1>3. ASSUME NEW m, MessageOk(L, m)
      PROVE  MessageOk(M, m)
  BY <1>2, <1>3 DEF MessageOk, HistoryOk
<1> QED
  BY <1>2, <1>3 DEF MessagesOk

-----------------------------------------------------------------------------
(* What the events do to the rows.                                         *)
LEMMA BufferIs ==
  ASSUME LogOk(log), NEW w, NEW s, s \in Seq(Range(s)), MessagesOk(log, w, Range(s))
  PROVE  /\ IsFiniteSet(Range(s)) /\ \A b \in Range(s) : BroadcastOk(b)
         /\ \A b, d \in Range(s) : b.watermark = d.watermark => b = d
<1>1. IsFiniteSet(Range(s))
  <2>1. Len(s) \in Nat /\ DOMAIN s = 1..Len(s)
    BY SeqIs
  <2>2. IsFiniteSet(DOMAIN s)
    BY <2>1, FS_Interval
  <2>3. s \in Surjection(DOMAIN s, Range(s))
    <3>1. s \in [DOMAIN s -> Range(s)]
      BY <2>1, SeqIs
    <3> QED
      BY <3>1 DEF Surjection, Range
  <2> QED
    BY <2>2, <2>3, FS_Surjection
<1>2. ASSUME NEW b \in Range(s)
      PROVE  BroadcastOk(b)
  <2>1. UpdatesOk(log, b)
    BY DEF MessagesOk
  <2>2. b.updates \in SUBSET log /\ b.watermark \in Nat
    BY <2>1 DEF UpdatesOk
  <2>3. Numbered(b.updates)
    BY <2>2, NumberedSubset DEF LogOk
  <2> QED
    BY <2>2, <2>3 DEF BroadcastOk, LogOk
<1>3. \A b \in Range(s) : b \in Known(w, Range(s))
  BY DEF MessagesOk, UpdatesOk, Known
<1> QED
  BY <1>1, <1>2, <1>3 DEF MessagesOk

LEMMA BecomesIs ==
  ASSUME NEW v \in Views, Becomes(v)
  PROVE  View' = v /\ tracker' = v.tracker /\ local' = v.local /\ cursor' = v.cursor
<1>1. v = [tracker |-> v.tracker, local |-> v.local, cursor |-> v.cursor]
  BY ViewIs
<1>2. tracker' = v.tracker /\ local' = v.local /\ cursor' = v.cursor
  BY DEF Becomes
<1> QED
  BY <1>1, <1>2 DEF View

LEMMA ViewMade ==
  ASSUME tracker' \in Trackers, local' \in [Keys -> Content], cursor' \in Nat
  PROVE  View' \in Views
BY DEF View, Views

LEMMA NowIs ==
  ASSUME View \in Views
  PROVE  tracker \in Trackers /\ local \in [Keys -> Content] /\ cursor \in Nat
BY ViewIs DEF View

LEMMA RowsDeleted ==
  ASSUME NEW l \in [Keys -> Content], NEW K
  PROVE  DeleteKeys(l, K) \in [Keys -> Content]
BY DEF DeleteKeys, Content

InstallOk(id, read, w) ==
  /\ w \in Views /\ w.cursor = cursor
  /\ ReplaceOk(tracker, w.tracker, id, DOMAIN read)
  /\ \A k \in Keys : w.local[k] = IF k \in DOMAIN read THEN read[k]
                                  ELSE IF k \in Removed(tracker, w.tracker) THEN Gone
                                  ELSE local[k]

LEMMA InstallIs ==
  ASSUME View \in Views, NEW id \in Ids, NEW read, ReadOk(read)
  PROVE  InstallOk(id, read, Install(id, read))
<1> DEFINE t == Replace(tracker, id, DOMAIN read)
           kept == DeleteKeys(local, Removed(tracker, t))
           l == [k \in Keys |-> IF k \in DOMAIN read THEN read[k] ELSE kept[k]]
           w == Install(id, read)
<1>1. tracker \in Trackers /\ local \in [Keys -> Content] /\ cursor \in Nat
  BY NowIs
<1>2. DOMAIN read \in SUBSET Keys /\ read \in [DOMAIN read -> Values]
  BY DEF ReadOk
<1>3. ReplaceOk(tracker, t, id, DOMAIN read)
  BY <1>1, <1>2, ReplaceIs
<1>4. t \in Trackers
  BY <1>3 DEF ReplaceOk
<1> HIDE DEF t
<1>5. kept \in [Keys -> Content]
      /\ \A k \in Keys : kept[k] = IF k \in Removed(tracker, t) THEN Gone ELSE local[k]
  BY <1>1, RowsDeleted DEF DeleteKeys
<1> HIDE DEF kept
<1>6. l \in [Keys -> Content]
  BY <1>2, <1>5 DEF Content
<1>7. w = [tracker |-> t, local |-> l, cursor |-> cursor]
  <2>1. w = [View EXCEPT !.tracker = t, !.local = l]
    BY Zenon DEF Install, t, kept
  <2> HIDE DEF w, l
  <2> QED
    BY <2>1 DEF View
<1>8. w.tracker = t /\ w.local = l /\ w.cursor = cursor
  BY <1>7
<1>9. w \in Views
  BY <1>1, <1>4, <1>6, <1>7 DEF Views
<1>10. \A k \in Keys : w.local[k] = IF k \in DOMAIN read THEN read[k]
                                   ELSE IF k \in Removed(tracker, w.tracker) THEN Gone
                                   ELSE local[k]
  BY <1>5, <1>8
<1> HIDE DEF w, l
<1> QED
  BY <1>3, <1>8, <1>9, <1>10 DEF InstallOk, w

\* The session goes on by asking again, or it ends recover.
AsksAgain ==
  /\ asked' = Append(asked, Session) /\ waiting' = waiting
  /\ buffered' = buffered /\ queue' = queue
  /\ state' # "synchronized"
  /\ reloading' \in Ids \cup {None}

Settles ==
  /\ asked' = asked \o waiting /\ waiting' = <<>> /\ buffered' = <<>>
  /\ state' = "synchronized" /\ queue' = "settled" /\ reloading' = None

LEMMA SynchronizeIs ==
  ASSUME SubsetsInv, NEW v \in Views, Synchronize(v)
  PROVE  /\ Settles /\ View' \in Views /\ SameSubsets(v.tracker, tracker')
         /\ (\A b \in Range(buffered) : b.watermark <= v.cursor) => View' = v
<1> DEFINE w == Flushed(v, Range(buffered))
<1>1. IsFiniteSet(Range(buffered)) /\ (\A b \in Range(buffered) : BroadcastOk(b))
      /\ \A b, d \in Range(buffered) : b.watermark = d.watermark => b = d
  BY BufferIs DEF SubsetsInv, Types
<1>2. /\ w \in Views /\ SameSubsets(v.tracker, w.tracker)
      /\ (\A b \in Range(buffered) : b.watermark <= v.cursor) => w = v
  BY <1>1, FlushIs
<1>3. Becomes(w)
  BY RangeIs DEF Synchronize, Flushed
<1> HIDE DEF w
<1>4. View' = w /\ tracker' = w.tracker
  BY <1>2, <1>3, BecomesIs
<1> QED
  BY <1>2, <1>4 DEF Settles, Synchronize

LEMMA SameSubsetsRefl ==
  ASSUME NEW t
  PROVE  SameSubsets(t, t)
BY DEF SameSubsets

LEMMA ReloadNextIs ==
  ASSUME SubsetsInv, NEW v \in Views, NEW n \in Nat, NEW reached, ReloadNext(v, n, reached)
  PROVE  /\ AsksAgain \/ Settles
         /\ View' \in Views /\ SameSubsets(v.tracker, tracker') /\ base' = n
<1>1. base' = n
  BY DEF ReloadNext
<1>2. CASE Synchronize([v EXCEPT !.cursor = n])
  <2> DEFINE w == [v EXCEPT !.cursor = n]
  <2>1. w \in Views /\ w.tracker = v.tracker
    BY DEF Views
  <2> HIDE DEF w
  <2>2. Synchronize(w)
    BY <1>2 DEF w
  <2> QED
    BY <1>1, <2>1, <2>2, SynchronizeIs
<1>3. ASSUME NEW id \in queries \ reached,
             reloading' = id, asked' = Append(asked, Session),
             Becomes(v), state' = "resyncing", UNCHANGED <<queue, buffered, waiting>>
      PROVE  AsksAgain /\ View' \in Views /\ SameSubsets(v.tracker, tracker')
  <2>1. id \in Ids
    BY DEF SubsetsInv, Types
  <2>2. View' = v /\ tracker' = v.tracker
    BY <1>3, BecomesIs
  <2> QED
    BY <1>3, <2>1, <2>2, SameSubsetsRefl DEF AsksAgain
<1> QED
  BY <1>1, <1>2, <1>3 DEF ReloadNext

-----------------------------------------------------------------------------
(* Each step keeps the invariant.                                          *)
Unmoved == UNCHANGED <<log, connected, unsent>>

\* Of the places, callers and connection.
PlacedOk == PlacesOk /\ CallersOk /\ ConnOk

LEMMA HeadIs ==
  ASSUME SubsetsInv, wire # <<>>
  PROVE  /\ wire \in Seq(Range(wire)) /\ MessageOk(log, Head(wire)) /\ connected
         /\ unsent = <<>> /\ Head(wire) = wire[1] /\ 1 \in DOMAIN wire
         /\ Due(wire) = Due(Tail(wire)) \cup {who \in Askers : Answers(Head(wire), who)}
         /\ OnceDue(Tail(wire))
         /\ \A who \in Due(Tail(wire)) : ~Answers(Head(wire), who)
         /\ \A i \in DOMAIN Tail(wire) : \E j \in DOMAIN wire : Tail(wire)[i] = wire[j]
<1>1. wire \in Seq(Range(wire)) /\ OnceDue(wire)
  BY DEF SubsetsInv, MessagesOk, PlacesOk
<1>2. MessageOk(log, Head(wire)) /\ Head(wire) = wire[1] /\ 1 \in DOMAIN wire
      /\ \A i \in DOMAIN Tail(wire) : \E j \in DOMAIN wire : Tail(wire)[i] = wire[j]
  BY <1>1, TailIs DEF SubsetsInv, MessagesOk
<1>3. connected /\ unsent = <<>>
  BY DEF SubsetsInv, ConnOk
<1> QED
  BY <1>1, <1>2, <1>3, DueTail

LEMMA SessionMoves ==
  ASSUME SubsetsInv, wire # <<>>, Head(wire).type \in {"reloaded", "history"},
         wire' = Tail(wire), AsksAgain \/ Settles, Unmoved, call' = call
  PROVE  /\ PlacedOk' /\ MessagesOk(log, wire, Range(buffered))'
         /\ buffered' \in Seq(Range(buffered')) /\ reloading' \in Ids \cup {None}
<1> DEFINE m == Head(wire)
           w == Tail(wire)
<1>1. /\ wire \in Seq(Range(wire)) /\ connected /\ unsent = <<>>
      /\ Due(wire) = Due(w) \cup {who \in Askers : Answers(m, who)}
      /\ OnceDue(w) /\ \A who \in Due(w) : ~Answers(m, who)
      /\ \A i \in DOMAIN w : \E j \in DOMAIN wire : w[i] = wire[j]
  BY HeadIs
<1>2. \A who \in Askers : Answers(m, who) <=> who = Session
  BY SessionIs DEF Answers
<1>3. /\ Due(wire) = Due(w) \cup {Session} /\ Session \notin Due(w)
      /\ Due(w) \subseteq Askers
  BY <1>1, <1>2, SessionIs DEF Due
<1>4. \A i \in DOMAIN w : w[i].type # "reloaded"
  BY <1>3, SessionIs DEF Due, Answers
<1>5. /\ asked \in Seq(Askers) /\ waiting \in Seq(Holders) /\ Once(asked) /\ Once(waiting)
      /\ Range(asked) \cap Due(wire) = {}
      /\ (Range(asked) \cup Due(wire)) \cap Range(waiting) = {}
      /\ Range(waiting) \subseteq Holders /\ waiting \in Seq(Askers)
  BY SeqIs, SeqMonotonic, SessionIs DEF SubsetsInv, PlacesOk
<1>6. queue = "running" /\ Session \notin Range(asked) /\ Session \notin Range(waiting)
      /\ reloading \in Ids \cup {None}
  BY <1>3, <1>5, SessionIs DEF SubsetsInv, CallersOk, Types
<1>7. connected' /\ unsent' = <<>> /\ log' = log /\ wire' = w
  BY <1>1 DEF Unmoved
<1>8. \A h \in Range(asked) \cup Due(wire) \cup Range(waiting) \cup Range(unsent) :
        h # Session => call[h] \in Ids
  BY DEF SubsetsInv, CallersOk
<1>9. <<>> \in Seq(Holders) /\ Once(<<>>) /\ Range(<<>>) = {}
  BY DEF Once, Range
<1> HIDE DEF w, m
<1>10. CASE AsksAgain
  <2>1. /\ asked' \in Seq(Askers) /\ Once(asked') /\ Range(asked') = Range(asked) \cup {Session}
    BY <1>5, <1>6, <1>10, SessionIs, AppendIs DEF AsksAgain
  <2>2. waiting' = waiting /\ queue' = "running" /\ reloading' \in Ids \cup {None}
        /\ buffered' = buffered /\ state' # "synchronized"
    BY <1>6, <1>10 DEF AsksAgain
  <2>3. PlacesOk'
    BY <1>1, <1>3, <1>5, <1>6, <1>7, <1>9, <2>1, <2>2 DEF PlacesOk
  <2>4. CallersOk'
    BY <1>3, <1>4, <1>7, <1>8, <1>9, <2>1, <2>2 DEF CallersOk
  <2>5. ConnOk'
    BY <1>7, <2>2 DEF ConnOk
  <2>6. MessagesOk(log, w, Range(buffered))
    BY MessagesTail DEF SubsetsInv, w
  <2> QED
    BY <1>7, <2>2, <2>3, <2>4, <2>5, <2>6 DEF PlacedOk, SubsetsInv, Types
<1>11. CASE Settles
  <2>1. /\ asked' \in Seq(Askers) /\ Once(asked')
        /\ Range(asked') = Range(asked) \cup Range(waiting)
    BY <1>5, <1>11, ConcatIs DEF Settles
  <2>2. waiting' = <<>> /\ queue' = "settled" /\ reloading' = None
        /\ buffered' = <<>> /\ state' = "synchronized"
    BY <1>11 DEF Settles
  <2>3. PlacesOk'
    BY <1>1, <1>3, <1>5, <1>7, <1>9, <2>1, <2>2 DEF PlacesOk
  <2>4. CallersOk'
    BY <1>3, <1>4, <1>6, <1>7, <1>8, <1>9, <2>1, <2>2 DEF CallersOk
  <2>5. ConnOk'
    BY <1>7, <2>2 DEF ConnOk
  <2>6. MessagesOk(log, w, {})
    BY MessagesTail DEF SubsetsInv, w
  <2>7. <<>> \in Seq({})
    BY EmptySeq
  <2> QED
    BY <1>7, <1>9, <2>2, <2>3, <2>4, <2>5, <2>6, <2>7 DEF PlacedOk
<1> QED
  BY <1>10, <1>11

LEMMA ReloadedInv ==
  ASSUME SubsetsInv, Deliver, Head(wire).type = "reloaded"
  PROVE  SubsetsInv' /\ Reloaded(Head(wire))
<1> DEFINE m == Head(wire)
           v == Install(reloading, m.rows)
<1>1. /\ wire # <<>> /\ wire' = Tail(wire) /\ UNCHANGED <<log, connected, faults>>
      /\ Reloaded(m)
  BY DEF Deliver
<1>2. ReloadNext(v, base, visited) /\ UNCHANGED <<held, call, unsent, timers, queries>>
  BY <1>1 DEF Reloaded
<1>3. wire[1] = m /\ 1 \in DOMAIN wire /\ MessageOk(log, m)
  BY <1>1, HeadIs
<1>4. reloading \in Ids /\ ReadOk(m.rows)
  BY <1>3 DEF SubsetsInv, CallersOk, MessageOk, UpdatesOk
<1>5. v \in Views
  <2>1. InstallOk(reloading, m.rows, v)
    BY <1>4, InstallIs DEF SubsetsInv, Types
  <2> QED
    BY <2>1 DEF InstallOk
<1>6. base \in Nat
  BY DEF SubsetsInv, Types
<1> HIDE DEF v
<1>7. (AsksAgain \/ Settles) /\ View' \in Views /\ base' \in Nat
  BY <1>2, <1>5, <1>6, ReloadNextIs
<1>8. /\ PlacedOk' /\ MessagesOk(log, wire, Range(buffered))'
      /\ buffered' \in Seq(Range(buffered')) /\ reloading' \in Ids \cup {None}
  BY <1>1, <1>2, <1>7, SessionMoves DEF Unmoved
<1>9. Types'
  BY <1>2, <1>7, <1>8 DEF SubsetsInv, Types
<1>10. LogOk(log)'
  BY <1>1 DEF SubsetsInv
<1> QED
  BY <1>1, <1>8, <1>9, <1>10 DEF SubsetsInv, PlacedOk

\* The view after a page of the history.
PageView(a) == [ApplyUpdates(View, a.updates) EXCEPT !.cursor =
                  Max({cursor, a.cursors[Collection]})]

LEMMA LargerIs ==
  ASSUME NEW a \in Nat, NEW b \in Nat
  PROVE  Max({a, b}) = IF a <= b THEN b ELSE a
<1> DEFINE S == {a, b}
           top == IF a <= b THEN b ELSE a
<1>1. S \in SUBSET Nat /\ S # {} /\ \A x \in S : x <= top
  OBVIOUS
<1>2. top \in Nat /\ top \in S
  OBVIOUS
<1>3. Max(S) \in S /\ \A x \in S : x <= Max(S)
  BY <1>1, <1>2, MaxIsGreatest
<1> HIDE DEF S, top
<1>4. Max(S) = top
  <2>1. Max(S) \in Nat /\ Max(S) <= top
    BY <1>1, <1>3
  <2>2. top <= Max(S)
    BY <1>2, <1>3
  <2> QED
    BY <1>2, <2>1, <2>2
<1> QED
  BY <1>4 DEF S, top

LEMMA PageViewIs ==
  ASSUME LogOk(log), View \in Views, NEW a, a.updates \in SUBSET log,
         a.cursors[Collection] \in Nat
  PROVE  LET v == PageView(a) IN
         /\ v \in Views /\ v.cursor = Max({cursor, a.cursors[Collection]})
         /\ \E x \in Views : ApplyOk(View, x, a.updates) /\ v.tracker = x.tracker
                             /\ v.local = x.local
<1> DEFINE x == ApplyUpdates(View, a.updates)
           n == Max({cursor, a.cursors[Collection]})
           v == PageView(a)
<1>1. Numbered(a.updates) /\ a.updates \in SUBSET Entry
  BY NumberedSubset DEF LogOk
<1>2. ApplyOk(View, x, a.updates)
  BY <1>1, ApplyIs
<1>3. n \in Nat
  BY NowIs, LargerIs
<1>4. v = [x EXCEPT !.cursor = n]
  BY Zenon DEF PageView
<1>5. x \in Views
  BY <1>2 DEF ApplyOk
<1> HIDE DEF x, n, v
<1>6. v \in Views /\ v.cursor = n /\ v.tracker = x.tracker /\ v.local = x.local
  BY <1>3, <1>4, <1>5 DEF Views
<1> QED
  BY <1>2, <1>5, <1>6 DEF v, n

LEMMA CatchUpInv ==
  ASSUME SubsetsInv, Deliver, Head(wire).type = "history"
  PROVE  SubsetsInv' /\ CatchUpPage(Head(wire).answer)
<1> DEFINE m == Head(wire)
           a == m.answer
<1>1. /\ wire # <<>> /\ wire' = Tail(wire) /\ UNCHANGED <<log, connected, faults>>
      /\ CatchUpPage(a)
  BY DEF Deliver
<1>2. UNCHANGED <<held, call, unsent, timers, queries>>
  BY <1>1 DEF CatchUpPage
<1>3. MessageOk(log, m)
  BY <1>1, HeadIs
<1>4. HistoryOk(log, a)
  BY <1>3 DEF MessageOk, UpdatesOk
<1>5. View \in Views /\ base \in Nat /\ LogOk(log) /\ reloading \in Ids \cup {None}
  BY DEF SubsetsInv, Types
<1>6. queue = "running"
  <2>1. Session \in Due(wire)
    BY <1>1, HeadIs, SessionIs DEF Answers
  <2> QED
    BY <2>1 DEF SubsetsInv, CallersOk
<1>7. (AsksAgain \/ Settles) /\ View' \in Views /\ base' \in Nat
  <2>1. CASE a.type = "resyncRequired"
    <3>1. ReloadNext(View, a.watermark, {}) /\ a.watermark \in Nat
      BY <1>1, <1>4, <2>1 DEF CatchUpPage, HistoryOk
    <3> QED
      BY <1>5, <3>1, ReloadNextIs
  <2>2. CASE a.type # "resyncRequired"
    <3>1. a.updates \in SUBSET log /\ a.cursors[Collection] \in Nat
      BY <1>4, <2>2 DEF HistoryOk
    <3>2. PageView(a) \in Views
      BY <1>5, <3>1, PageViewIs
    <3>3. base' = base /\ IF a.hasMore
                          THEN /\ Becomes(PageView(a)) /\ asked' = Append(asked, Session)
                               /\ UNCHANGED <<state, queue, buffered, reloading,
                                              visited, waiting>>
                          ELSE Synchronize(PageView(a))
      BY <1>1, <2>2 DEF CatchUpPage, PageView
    <3> HIDE DEF a
    <3>4. CASE a.hasMore
      <4>1. state # "synchronized"
        BY <1>6 DEF SubsetsInv, ConnOk
      <4> QED
        BY <1>5, <3>2, <3>3, <3>4, <4>1, BecomesIs DEF AsksAgain
    <3>5. CASE ~a.hasMore
      BY <1>5, <3>2, <3>3, <3>5, SynchronizeIs
    <3> QED
      BY <3>4, <3>5
  <2> QED
    BY <2>1, <2>2
<1>8. /\ PlacedOk' /\ MessagesOk(log, wire, Range(buffered))'
      /\ buffered' \in Seq(Range(buffered')) /\ reloading' \in Ids \cup {None}
  BY <1>1, <1>2, <1>7, SessionMoves DEF Unmoved
<1>9. Types'
  BY <1>2, <1>7, <1>8 DEF SubsetsInv, Types
<1>10. LogOk(log)'
  BY <1>1 DEF SubsetsInv
<1> QED
  BY <1>1, <1>8, <1>9, <1>10 DEF SubsetsInv, PlacedOk

LEMMA ReceiveInv ==
  ASSUME SubsetsInv, Deliver, Head(wire).type = "updates"
  PROVE  /\ SubsetsInv' /\ Receive(Head(wire))
         /\ SameSubsets(tracker, tracker')
<1> DEFINE m == Head(wire)
           w == Tail(wire)
           v == ApplyBroadcast(View, m)
<1>1. /\ wire # <<>> /\ wire' = w /\ UNCHANGED <<log, connected, faults>>
      /\ Receive(m)
  BY DEF Deliver
<1>2. /\ UNCHANGED <<asked, state, queue, base, reloading, visited, held, call,
                    waiting, unsent, timers, queries>>
      /\ IF state = "synchronized" THEN Becomes(v) /\ UNCHANGED buffered
         ELSE Becomes(View) /\ buffered' = Append(buffered, m)
  BY <1>1 DEF Receive, calls
<1>3. /\ MessageOk(log, m) /\ connected
      /\ Due(wire) = Due(w) \cup {who \in Askers : Answers(m, who)}
      /\ OnceDue(w)
      /\ \A i \in DOMAIN w : \E j \in DOMAIN wire : w[i] = wire[j]
  BY <1>1, HeadIs
<1>4. Due(w) = Due(wire)
  BY <1>3 DEF Answers
<1>5. UpdatesOk(log, m)
  BY <1>3 DEF MessageOk
<1>6. BroadcastOk(m)
  <2>1. m.updates \in SUBSET log /\ m.watermark \in Nat
    BY <1>5 DEF UpdatesOk
  <2>2. Numbered(m.updates) /\ m.updates \in SUBSET Entry
    BY <2>1, NumberedSubset DEF LogOk, SubsetsInv
  <2> QED
    BY <2>1, <2>2 DEF BroadcastOk
<1>7. View \in Views /\ LogOk(log) /\ MessagesOk(log, wire, Range(buffered))
      /\ buffered \in Seq(Range(buffered))
  BY DEF SubsetsInv, Types
<1>8. v \in Views /\ SameSubsets(tracker, v.tracker)
  BY <1>6, <1>7, BroadcastIs DEF View
<1> HIDE DEF v
<1>9. View' \in Views /\ SameSubsets(tracker, tracker')
  <2>1. CASE state = "synchronized"
    BY <1>2, <1>8, <2>1, BecomesIs
  <2>2. CASE state # "synchronized"
    <3>1. View' = View /\ tracker' = View.tracker
      BY <1>2, <1>7, <2>2, BecomesIs
    <3> QED
      BY <1>7, <3>1, SameSubsetsRefl DEF View
  <2> QED
    BY <2>1, <2>2
<1>10. /\ buffered' \in Seq(Range(buffered'))
       /\ Range(buffered') \subseteq Range(buffered) \cup {b \in {m} : b.type = "updates"}
  <2>1. CASE state = "synchronized"
    BY <1>2, <1>7, <2>1
  <2>2. CASE state # "synchronized"
    <3> DEFINE S == Range(buffered) \cup {m}
    <3>1. buffered \in Seq(S) /\ m \in S
      BY <1>7, SeqMonotonic
    <3>2. buffered' = Append(buffered, m)
      BY <1>2, <2>2
    <3>3. buffered' \in Seq(S) /\ Range(buffered') = S
      BY <3>1, <3>2, AppendIs
    <3>4. m.type = "updates"
      BY <1>5 DEF UpdatesOk
    <3> HIDE DEF m
    <3> QED
      BY <3>3, <3>4
  <2> QED
    BY <2>1, <2>2
<1> HIDE DEF w, m
<1>11. MessagesOk(log, wire, Range(buffered))'
  <2>1. MessagesOk(log, w, Range(buffered'))
    BY <1>1, <1>7, <1>10, MessagesTail DEF w, m
  <2> QED
    BY <1>1, <2>1
<1>12. Types'
  BY <1>2, <1>9, <1>10 DEF SubsetsInv, Types
<1>13. PlacesOk'
  BY <1>1, <1>2, <1>3, <1>4 DEF SubsetsInv, PlacesOk
<1>14. CallersOk'
  BY <1>1, <1>2, <1>3, <1>4 DEF SubsetsInv, CallersOk
<1>15. ConnOk'
  BY <1>1, <1>2, <1>3 DEF SubsetsInv, ConnOk
<1>16. LogOk(log)'
  BY <1>1, <1>7
<1> QED
  BY <1>1, <1>9, <1>11, <1>12, <1>13, <1>14, <1>15, <1>16 DEF SubsetsInv, m

LEMMA AnsweredInv ==
  ASSUME SubsetsInv, Deliver, Head(wire).type = "rows"
  PROVE  LET h == Head(wire).holder IN
         /\ SubsetsInv' /\ Answered(Head(wire)) /\ h \in Holders /\ call[h] \in Ids
         /\ InstallOk(call[h], Head(wire).rows, View') /\ ReadOk(Head(wire).rows)
<1> DEFINE m == Head(wire)
           w == Tail(wire)
           h == m.holder
           v == Install(call[h], m.rows)
<1>1. /\ wire # <<>> /\ wire' = w /\ UNCHANGED <<log, connected, faults>>
      /\ Answered(m)
  BY DEF Deliver
<1>2. /\ Becomes(v) /\ queries' = queries \cup {call[h]}
      /\ call' = [call EXCEPT ![h] = None]
      /\ UNCHANGED <<asked, state, queue, buffered, base, reloading, visited,
                     held, waiting, unsent, timers>>
  BY <1>1, Zenon DEF Answered
<1>3. /\ MessageOk(log, m) /\ connected /\ unsent = <<>>
      /\ Due(wire) = Due(w) \cup {who \in Askers : Answers(m, who)}
      /\ OnceDue(w) /\ \A who \in Due(w) : ~Answers(m, who)
      /\ \A i \in DOMAIN w : \E j \in DOMAIN wire : w[i] = wire[j]
  BY <1>1, HeadIs
<1>4. h \in Holders /\ ReadOk(m.rows)
  BY <1>3 DEF MessageOk, UpdatesOk
<1>5. Answers(m, h) /\ h \in Askers /\ h # Session
  BY <1>4, SessionIs DEF Answers
<1>6. h \in Due(wire) /\ h \notin Due(w) /\ Due(w) \subseteq Due(wire)
  BY <1>3, <1>5
<1>7. call[h] \in Ids
  BY <1>5, <1>6 DEF SubsetsInv, CallersOk
<1>8. View \in Views /\ LogOk(log) /\ MessagesOk(log, wire, Range(buffered))
      /\ call \in [Holders -> Ids \cup {None}] /\ buffered \in Seq(Range(buffered))
  BY DEF SubsetsInv, Types
<1>9. InstallOk(call[h], m.rows, v)
  BY <1>4, <1>7, <1>8, InstallIs
<1>10. v \in Views
  BY <1>9 DEF InstallOk
<1> HIDE DEF v, w, m
<1>11. View' = v
  BY <1>2, <1>10, BecomesIs
<1>12. Types'
  BY <1>2, <1>7, <1>8, <1>10, <1>11 DEF SubsetsInv, Types
<1>13. MessagesOk(log, wire, Range(buffered))'
  <2>1. MessagesOk(log, w, Range(buffered))
    BY <1>1, <1>8, MessagesTail DEF w, m
  <2> QED
    BY <1>1, <1>2, <2>1
<1>14. PlacesOk'
  BY <1>1, <1>2, <1>3, <1>6 DEF SubsetsInv, PlacesOk
<1>15. CallersOk'
  <2>1. \A x \in Range(asked) \cup Due(w) \cup Range(waiting) : x # h
    BY <1>6 DEF SubsetsInv, PlacesOk
  <2>2. Range(unsent) = {}
    BY <1>3 DEF Range
  <2>3. \A x \in Range(asked) \cup Due(wire) \cup Range(waiting) :
          x # Session => x \in Holders /\ call[x] \in Ids
    <3>1. \A x \in Range(asked) \cup Due(wire) \cup Range(waiting) : x \in Askers
      BY SeqIs, SessionIs DEF SubsetsInv, PlacesOk, Due
    <3> QED
      BY <3>1, SessionIs DEF SubsetsInv, CallersOk
  <2>4. \A x \in Holders : x # h => call'[x] = call[x]
    BY <1>2, <1>8
  <2>5. \A x \in Range(asked) \cup Due(w) \cup Range(waiting) \cup Range(unsent) :
          x # Session => call'[x] \in Ids
    BY <1>6, <2>1, <2>2, <2>3, <2>4
  <2> QED
    BY <1>1, <1>2, <1>3, <1>6, <2>5 DEF SubsetsInv, CallersOk
<1>16. ConnOk'
  BY <1>1, <1>2, <1>3 DEF SubsetsInv, ConnOk
<1>17. LogOk(log)'
  BY <1>1, <1>8
<1>18. SubsetsInv'
  BY <1>12, <1>13, <1>14, <1>15, <1>16, <1>17 DEF SubsetsInv
<1> QED
  BY <1>1, <1>4, <1>7, <1>9, <1>11, <1>18 DEF m

LEMMA HandleInv ==
  ASSUME SubsetsInv, Handle
  PROVE  SubsetsInv'
<1> DEFINE who == Head(asked)
           m == Answer(who)
           q == Tail(asked)
           w == Append(wire, m)
           S == Range(wire) \cup {m}
<1>1. /\ asked # <<>> /\ wire' = w /\ asked' = q
      /\ UNCHANGED <<log, connected, faults, session, calls, rows>>
  BY DEF Handle
<1>2. /\ View' = View /\ base' = base /\ reloading' = reloading /\ queries' = queries
      /\ held' = held /\ call' = call /\ timers' = timers /\ buffered' = buffered
      /\ state' = state /\ queue' = queue /\ waiting' = waiting /\ unsent' = unsent
      /\ log' = log /\ connected' = connected
  BY <1>1 DEF session, calls, rows, View
<1>3. /\ asked \in Seq(Askers) /\ Once(asked) /\ OnceDue(wire)
      /\ Range(asked) \cap Due(wire) = {} /\ wire \in Seq(S)
      /\ MessagesOk(log, wire, Range(buffered))
  BY DEF SubsetsInv, PlacesOk, MessagesOk
<1>4. /\ q \in Seq(Askers) /\ who \in Range(asked)
      /\ Range(asked) = Range(q) \cup {who} /\ Once(q) /\ who \notin Range(q)
  BY <1>1, <1>3, TailIs
<1>5. who \in Askers
  BY <1>3, <1>4, SeqIs
<1>6. /\ MessageOk(log, m) /\ m.type # "updates"
      /\ \A x \in Askers : Answers(m, x) <=> x = who
      /\ m.type = "reloaded" => reloading \in Ids
  BY <1>4, AnswerIs
<1> HIDE DEF q, m, who
<1>7. Due(w) = Due(wire) \cup {who} /\ OnceDue(w)
  <2>1. \A x \in Due(wire) : ~Answers(m, x)
    BY <1>3, <1>4, <1>6 DEF Due
  <2>2. m \in S
    OBVIOUS
  <2>3. Due(w) = Due(wire) \cup {x \in Askers : Answers(m, x)} /\ OnceDue(w)
    BY <1>3, <2>1, <2>2, DueAppend
  <2> QED
    BY <1>5, <1>6, <2>3
<1>8. MessagesOk(log, w, Range(buffered))
  BY <1>3, <1>6, MessagesAppend
<1>9. \A i \in DOMAIN w : w[i].type = "reloaded" => reloading \in Ids
  <2>1. m \in S
    OBVIOUS
  <2>2. /\ DOMAIN w = 1..(Len(wire) + 1) /\ w[Len(wire) + 1] = m
        /\ \A i \in DOMAIN wire : w[i] = wire[i]
        /\ Len(wire) \in Nat /\ DOMAIN wire = 1..Len(wire)
    BY <1>3, <2>1, AppendIs, SeqIs
  <2>3. \A i \in DOMAIN w : i \in DOMAIN wire \/ i = Len(wire) + 1
    BY <2>2
  <2> QED
    BY <1>6, <2>2, <2>3 DEF SubsetsInv, CallersOk
<1> HIDE DEF w, S
<1>10. PlacesOk'
  BY <1>1, <1>2, <1>4, <1>7 DEF SubsetsInv, PlacesOk
<1>11. CallersOk'
  BY <1>1, <1>2, <1>4, <1>7, <1>9 DEF SubsetsInv, CallersOk
<1>12. ConnOk'
  <2>1. connected
    BY <1>1 DEF SubsetsInv, ConnOk
  <2> QED
    BY <1>2, <2>1 DEF SubsetsInv, ConnOk
<1>13. Types'
  BY <1>2 DEF SubsetsInv, Types
<1> QED
  BY <1>1, <1>2, <1>8, <1>10, <1>11, <1>12, <1>13 DEF SubsetsInv

LEMMA PushInv ==
  ASSUME SubsetsInv, NEW b \in Batches, Push(b)
  PROVE  /\ SubsetsInv' /\ UNCHANGED <<session, calls, rows, asked, connected>>
         /\ Grows(log, log', Pushed(b)) /\ ReadWatermark(log') = Watermark + Len(b)
<1> DEFINE M == log \cup Pushed(b)
           m == [type |-> "updates", updates |-> Pushed(b), watermark |-> Watermark + Len(b)]
           S == Range(wire) \cup {m}
           W == ReadWatermark(log)
<1>1. /\ Watermark + Len(b) <= MaxSequence /\ log' = M
      /\ wire' = IF connected THEN Append(wire, m) ELSE wire
      /\ UNCHANGED <<connected, asked, faults, session, calls, rows>>
  BY DEF Push, Pushed
<1>2. /\ View' = View /\ base' = base /\ reloading' = reloading /\ queries' = queries
      /\ held' = held /\ call' = call /\ timers' = timers /\ buffered' = buffered
      /\ state' = state /\ queue' = queue /\ waiting' = waiting /\ unsent' = unsent
      /\ asked' = asked /\ connected' = connected
  BY <1>1 DEF session, calls, rows, View
<1>3. LogOk(log) /\ MessagesOk(log, wire, Range(buffered)) /\ wire \in Seq(S)
  BY DEF SubsetsInv, MessagesOk
<1>4. Grows(log, M, Pushed(b)) /\ ReadWatermark(M) = Watermark + Len(b)
  BY <1>1, <1>3, PushedIs
<1>5. /\ LogOk(M) /\ W < ReadWatermark(M) /\ W \in Nat /\ ReadWatermark(M) \in Nat
      /\ log \in SUBSET Entry /\ M \in SUBSET Entry
  <2>1. LogOk(M) /\ W < ReadWatermark(M)
    BY <1>4 DEF Grows
  <2>2. log \in SUBSET Entry /\ M \in SUBSET Entry
    BY <1>3, <2>1 DEF LogOk
  <2> QED
    BY <2>1, <2>2, TopIs
<1>6. m.type = "updates" /\ m.updates = Pushed(b) /\ m.watermark = ReadWatermark(M)
  BY <1>4
<1>7. log \subseteq M /\ Pushed(b) \subseteq M
  OBVIOUS
<1> HIDE DEF m, M
<1>8. MessagesOk(M, wire, Range(buffered))
  <2>1. W <= ReadWatermark(M)
    BY <1>5
  <2> QED
    BY <1>3, <1>5, <1>7, <2>1, MessagesGrow
<1>9. MessageOk(M, m)
  BY <1>5, <1>6, <1>7 DEF MessageOk, UpdatesOk
<1>10. \A d \in Known(wire, Range(buffered)) : d.watermark # m.watermark
  <2> TAKE d \in Known(wire, Range(buffered))
  <2>1. UpdatesOk(log, d)
    BY <1>3 DEF Known, MessagesOk, MessageOk, Range
  <2>2. d.watermark \in Nat /\ d.watermark <= W
    BY <2>1 DEF UpdatesOk
  <2> QED
    BY <1>5, <1>6, <2>2
<1>11. MessagesOk(M, Append(wire, m), Range(buffered))
  BY <1>8, <1>9, <1>10, MessagesAppend
<1>12. MessagesOk(log, wire, Range(buffered))'
  BY <1>1, <1>2, <1>8, <1>11
<1>13. /\ Due(wire') = Due(wire) /\ OnceDue(wire')
       /\ \A i \in DOMAIN wire' : wire'[i].type = "reloaded" => reloading \in Ids
  <2>1. OnceDue(wire) /\ \A i \in DOMAIN wire : wire[i].type = "reloaded" => reloading \in Ids
    BY DEF SubsetsInv, PlacesOk, CallersOk
  <2>2. CASE connected
    <3>1. \A x \in Askers : ~Answers(m, x)
      BY <1>6 DEF Answers
    <3>2. m \in S
      OBVIOUS
    <3>3. /\ Due(Append(wire, m)) = Due(wire) \cup {x \in Askers : Answers(m, x)}
          /\ OnceDue(Append(wire, m))
      <4>1. \A x \in Due(wire) : ~Answers(m, x)
        BY <3>1 DEF Due
      <4> QED
        BY <1>3, <2>1, <3>2, <4>1, DueAppend
    <3>4. /\ DOMAIN Append(wire, m) = 1..(Len(wire) + 1)
          /\ Append(wire, m)[Len(wire) + 1] = m
          /\ \A i \in DOMAIN wire : Append(wire, m)[i] = wire[i]
          /\ Len(wire) \in Nat /\ DOMAIN wire = 1..Len(wire)
      BY <1>3, <3>2, AppendIs, SeqIs
    <3>5. \A i \in DOMAIN Append(wire, m) : i \in DOMAIN wire \/ i = Len(wire) + 1
      BY <3>4
    <3>6. wire' = Append(wire, m)
      BY <1>1, <2>2
    <3> HIDE DEF S
    <3> QED
      BY <1>6, <2>1, <3>1, <3>3, <3>4, <3>5, <3>6
  <2>3. CASE ~connected
    BY <1>1, <2>1, <2>3
  <2> QED
    BY <2>2, <2>3
<1>14. PlacesOk'
  BY <1>2, <1>13 DEF SubsetsInv, PlacesOk
<1>15. CallersOk'
  BY <1>2, <1>13 DEF SubsetsInv, CallersOk
<1>16. ConnOk'
  BY <1>1, <1>2 DEF SubsetsInv, ConnOk
<1>17. Types'
  BY <1>2 DEF SubsetsInv, Types
<1>18. SubsetsInv'
  BY <1>1, <1>5, <1>12, <1>14, <1>15, <1>16, <1>17 DEF SubsetsInv
<1> QED
  BY <1>1, <1>4, <1>18

\* u is t without some of its subsets.
Drops(t, u) ==
  /\ u \in Trackers /\ DOMAIN u.subsets \subseteq DOMAIN t.subsets
  /\ \A x \in DOMAIN u.subsets : u.subsets[x].keys = t.subsets[x].keys
                                 /\ u.subsets[x].loaded = t.subsets[x].loaded

LEMMA DropsTwice ==
  ASSUME NEW t, NEW u, NEW v, Drops(t, u), Drops(u, v)
  PROVE  Drops(t, v)
<1>1. /\ v \in Trackers /\ DOMAIN v.subsets \subseteq DOMAIN u.subsets
      /\ DOMAIN u.subsets \subseteq DOMAIN t.subsets
  BY DEF Drops
<1>2. ASSUME NEW x \in DOMAIN v.subsets
      PROVE  v.subsets[x].keys = t.subsets[x].keys /\ v.subsets[x].loaded = t.subsets[x].loaded
  <2>1. x \in DOMAIN u.subsets
    BY <1>1
  <2>2. v.subsets[x].keys = u.subsets[x].keys /\ v.subsets[x].loaded = u.subsets[x].loaded
    BY DEF Drops
  <2>3. u.subsets[x].keys = t.subsets[x].keys /\ u.subsets[x].loaded = t.subsets[x].loaded
    BY <2>1 DEF Drops
  <2> QED
    BY <2>2, <2>3
<1> QED
  BY <1>1, <1>2 DEF Drops

LEMMA ExpireDrops ==
  ASSUME NEW t \in Trackers, NEW id \in Ids
  PROVE  Drops(t, Expire(t, id)) /\ \A x : RefsOf(Expire(t, id), x) = RefsOf(t, x)
<1> DEFINE u == Expire(t, id)
<1>1. ExpireOk(t, u, id)
  BY ExpireIs
<1> HIDE DEF u
<1>2. u \in Trackers /\ DOMAIN u.subsets \subseteq DOMAIN t.subsets
      /\ (\A x : RefsOf(u, x) = RefsOf(t, x))
      /\ \A x \in DOMAIN u.subsets : u.subsets[x] = t.subsets[x]
  BY <1>1 DEF ExpireOk
<1>3. Drops(t, u)
  BY <1>2 DEF Drops
<1> QED
  BY <1>2, <1>3 DEF u

LEMMA ReleaseDrops ==
  ASSUME NEW t \in Trackers, NEW id \in Ids, NEW retain \in BOOLEAN
  PROVE  LET u == Release(t, id, retain) IN
         /\ Drops(t, u) /\ RefsOf(u, id) = OneLess(RefsOf(t, id))
         /\ \A x : x # id => RefsOf(u, x) = RefsOf(t, x)
         /\ retain => Removed(t, u) = {}
<1> DEFINE u == Release(t, id, retain)
<1>1. ReleaseOk(t, u, id, retain)
  BY ReleaseIs
<1> HIDE DEF u
<1>2. Drops(t, u)
  BY <1>1 DEF ReleaseOk, Drops
<1>3. RefsOf(u, id) = OneLess(RefsOf(t, id)) /\ \A x : x # id => RefsOf(u, x) = RefsOf(t, x)
  BY <1>1 DEF ReleaseOk
<1>4. ASSUME retain
      PROVE  Removed(t, u) = {}
  <2>1. u.keyRefs = t.keyRefs /\ t.keyRefs \in [Keys -> Nat]
    BY <1>1, <1>4, TrackerIs DEF ReleaseOk
  <2> QED
    BY <2>1 DEF Removed
<1> QED
  BY <1>2, <1>3, <1>4 DEF u

\* The live query h lets go of its subset.
LetsGo(h) ==
  LET id == held[h] IN
  /\ id \in Ids
  /\ Drops(tracker, tracker') /\ RefsOf(tracker', id) = OneLess(RefsOf(tracker, id))
  /\ \A x : x # id => RefsOf(tracker', x) = RefsOf(tracker, x)
  /\ held' = [held EXCEPT ![h] = None]
  /\ local' = DeleteKeys(local, Removed(tracker, tracker'))
  /\ GcTime = "finite" => timers' = timers \cup {id}
  /\ UNCHANGED <<log, socket, state, queue, cursor, buffered, base, reloading, call,
                 waiting, unsent>>

LEMMA UnloadInv ==
  ASSUME SubsetsInv, NEW h \in Holders, Unload(h)
  PROVE  SubsetsInv' /\ LetsGo(h)
<1> DEFINE id == held[h]
           released == Release(tracker, id, GcTime # "zero")
           freed == Removed(tracker, released) # {}
<1>1. /\ held[h] # None /\ held' = [held EXCEPT ![h] = None]
      /\ tracker' = IF ~freed /\ GcTime = "zero" THEN Expire(released, id) ELSE released
      /\ local' = DeleteKeys(local, Removed(tracker, tracker'))
      /\ ScheduleRetention(id, freed)
      /\ queries' = IF freed THEN queries \ {id} ELSE queries
      /\ UNCHANGED <<log, socket, state, queue, cursor, buffered, base, reloading,
                     call, waiting, unsent>>
  BY Zenon DEF Unload
<1>2. id \in Ids /\ tracker \in Trackers /\ local \in [Keys -> Content] /\ cursor \in Nat
  BY <1>1, NowIs DEF SubsetsInv, Types
<1>3. /\ Drops(tracker, released) /\ RefsOf(released, id) = OneLess(RefsOf(tracker, id))
      /\ \A x : x # id => RefsOf(released, x) = RefsOf(tracker, x)
      /\ GcTime # "zero" => ~freed
  <2>1. (GcTime # "zero") \in BOOLEAN
    OBVIOUS
  <2> QED
    BY <1>2, <2>1, ReleaseDrops
<1>4. released \in Trackers
  BY <1>3 DEF Drops
<1> HIDE DEF released, freed
<1>5. /\ Drops(released, Expire(released, id))
      /\ \A x : RefsOf(Expire(released, id), x) = RefsOf(released, x)
  BY <1>2, <1>4, ExpireDrops
<1>6. Drops(tracker, Expire(released, id))
  BY <1>3, <1>5, DropsTwice
<1>7. /\ Drops(tracker, tracker') /\ RefsOf(tracker', id) = OneLess(RefsOf(tracker, id))
      /\ \A x : x # id => RefsOf(tracker', x) = RefsOf(tracker, x)
  <2>1. CASE ~freed /\ GcTime = "zero"
    BY <1>1, <1>3, <1>5, <1>6, <2>1
  <2>2. CASE ~(~freed /\ GcTime = "zero")
    BY <1>1, <1>3, <2>2
  <2> QED
    BY <2>1, <2>2
<1>8. timers' = IF ~freed /\ GcTime = "finite" THEN timers \cup {id} ELSE timers
  BY <1>1 DEF ScheduleRetention
<1>9. GcTime = "finite" => timers' = timers \cup {id}
  <2>1. GcTime = "finite" => GcTime # "zero"
    OBVIOUS
  <2> QED
    BY <1>3, <1>8, <2>1
<1>10. LetsGo(h)
  BY <1>1, <1>2, <1>7, <1>9 DEF LetsGo
<1>11. tracker' \in Trackers /\ local' \in [Keys -> Content] /\ cursor' \in Nat
  BY <1>1, <1>2, <1>7, RowsDeleted DEF Drops
<1>12. View' \in Views
  BY <1>11, ViewMade
<1>13. Types'
  BY <1>1, <1>2, <1>8, <1>12 DEF SubsetsInv, Types
<1>14. /\ asked' = asked /\ wire' = wire /\ connected' = connected /\ call' = call
       /\ waiting' = waiting /\ unsent' = unsent /\ queue' = queue /\ state' = state
       /\ reloading' = reloading /\ log' = log /\ buffered' = buffered
  BY <1>1 DEF socket
<1>15. PlacesOk'
  BY <1>14 DEF SubsetsInv, PlacesOk
<1>16. CallersOk'
  BY <1>14 DEF SubsetsInv, CallersOk
<1>17. ConnOk'
  BY <1>14 DEF SubsetsInv, ConnOk
<1>18. LogOk(log)' /\ MessagesOk(log, wire, Range(buffered))'
  BY <1>14 DEF SubsetsInv
<1> QED
  BY <1>10, <1>13, <1>15, <1>16, <1>17, <1>18 DEF SubsetsInv

\* The retention timer of a subset fires.
Expires(id) ==
  /\ id \in timers /\ id \in Ids /\ timers' = timers \ {id}
  /\ ExpireOk(tracker, tracker', id)
  /\ local' = DeleteKeys(local, Removed(tracker, tracker'))
  /\ UNCHANGED <<log, socket, state, queue, cursor, buffered, base, reloading, calls>>

LEMMA RetiredInv ==
  ASSUME SubsetsInv, NEW id \in Ids, Retired(id)
  PROVE  SubsetsInv' /\ Expires(id) /\ Drops(tracker, tracker')
<1>1. /\ id \in timers /\ timers' = timers \ {id}
      /\ queries' = queries \ {id}
      /\ tracker' = Expire(tracker, id)
      /\ local' = DeleteKeys(local, Removed(tracker, tracker'))
      /\ UNCHANGED <<log, socket, state, queue, cursor, buffered, base, reloading, calls>>
  BY Zenon DEF Retired
<1>2. tracker \in Trackers /\ local \in [Keys -> Content] /\ cursor \in Nat
  BY NowIs DEF SubsetsInv, Types
<1>3. Drops(tracker, tracker') /\ ExpireOk(tracker, tracker', id)
  BY <1>1, <1>2, ExpireDrops, ExpireIs
<1>4. Expires(id)
  BY <1>1, <1>3 DEF Expires
<1>5. tracker' \in Trackers /\ local' \in [Keys -> Content] /\ cursor' \in Nat
  BY <1>1, <1>2, <1>3, RowsDeleted DEF Drops
<1>6. View' \in Views
  BY <1>5, ViewMade
<1>7. /\ asked' = asked /\ wire' = wire /\ connected' = connected /\ call' = call
      /\ waiting' = waiting /\ unsent' = unsent /\ queue' = queue /\ state' = state
      /\ reloading' = reloading /\ log' = log /\ buffered' = buffered /\ held' = held
      /\ base' = base
  BY <1>1 DEF socket, calls
<1>8. Types'
  BY <1>1, <1>6, <1>7 DEF SubsetsInv, Types
<1>9. PlacesOk'
  BY <1>7 DEF SubsetsInv, PlacesOk
<1>10. CallersOk'
  BY <1>7 DEF SubsetsInv, CallersOk
<1>11. ConnOk'
  BY <1>7 DEF SubsetsInv, ConnOk
<1>12. LogOk(log)' /\ MessagesOk(log, wire, Range(buffered))'
  BY <1>7 DEF SubsetsInv
<1> QED
  BY <1>3, <1>4, <1>8, <1>9, <1>10, <1>11, <1>12 DEF SubsetsInv

\* Some live queries are told that readSubset rejects.
RejectsOf(F) ==
  /\ F \in SUBSET Holders /\ \A h \in F : call[h] \in Ids
  /\ tracker' = Rejected(tracker, F) /\ RejectOk(tracker, tracker', F)
  /\ local' = DeleteKeys(local, Removed(tracker, tracker'))
  /\ held' = [h \in Holders |-> IF h \in F THEN None ELSE held[h]]
  /\ call' = [h \in Holders |-> IF h \in F THEN None ELSE call[h]]
  /\ timers' = timers /\ queries' = queries

LEMMA RejectCallsIs ==
  ASSUME View \in Views, NEW F \in SUBSET Holders, \A h \in F : call[h] \in Ids,
         RejectCalls(F)
  PROVE  RejectsOf(F) /\ tracker' \in Trackers /\ local' \in [Keys -> Content]
<1>1. /\ tracker' = Rejected(tracker, F)
      /\ local' = DeleteKeys(local, Removed(tracker, tracker'))
      /\ held' = [h \in Holders |-> IF h \in F THEN None ELSE held[h]]
      /\ call' = [h \in Holders |-> IF h \in F THEN None ELSE call[h]]
      /\ timers' = timers /\ queries' = queries
  BY DEF RejectCalls, Rejected
<1>2. tracker \in Trackers /\ local \in [Keys -> Content]
  BY NowIs
<1>3. RejectOk(tracker, Rejected(tracker, F), F)
  BY <1>2, RejectIs
<1>4. tracker' \in Trackers
  BY <1>1, <1>3 DEF RejectOk
<1>5. local' \in [Keys -> Content]
  BY <1>1, <1>2, RowsDeleted
<1> QED
  BY <1>1, <1>3, <1>4, <1>5 DEF RejectsOf

LEMMA DropInv ==
  ASSUME SubsetsInv, Drop
  PROVE  /\ SubsetsInv' /\ RejectsOf({h \in Holders : call[h] # None})
         /\ UNCHANGED <<log, cursor, buffered>>
<1> DEFINE F == {h \in Holders : call[h] # None}
<1>1. /\ connected /\ connected' = FALSE /\ asked' = <<>> /\ wire' = <<>>
      /\ state' = "disconnected"
      /\ queue' = (IF queue = "running" THEN "rejected" ELSE queue)
      /\ reloading' = None /\ RejectCalls(F) /\ waiting' = <<>>
      /\ UNCHANGED <<log, cursor, buffered, base, unsent>>
  BY DEF Drop
<1>2. /\ View \in Views /\ call \in [Holders -> Ids \cup {None}]
      /\ held \in [Holders -> Ids \cup {None}] /\ LogOk(log) /\ unsent = <<>>
      /\ MessagesOk(log, wire, Range(buffered)) /\ cursor \in Nat
  BY <1>1, NowIs DEF SubsetsInv, Types, ConnOk
<1>3. F \in SUBSET Holders /\ \A h \in F : call[h] \in Ids
  BY <1>2
<1>4. RejectsOf(F) /\ tracker' \in Trackers /\ local' \in [Keys -> Content]
  BY <1>1, <1>2, <1>3, RejectCallsIs
<1>5. held' \in [Holders -> Ids \cup {None}] /\ call' \in [Holders -> Ids \cup {None}]
      /\ timers' = timers /\ queries' = queries
  BY <1>2, <1>4 DEF RejectsOf
<1> HIDE DEF F
<1>6. View' \in Views
  BY <1>1, <1>2, <1>4, ViewMade
<1>7. Types'
  BY <1>1, <1>5, <1>6 DEF SubsetsInv, Types
<1>8. /\ <<>> \in Seq(Askers) /\ <<>> \in Seq(Holders) /\ Once(<<>>) /\ Range(<<>>) = {}
      /\ Due(<<>>) = {} /\ OnceDue(<<>>) /\ DOMAIN <<>> = {}
  BY EmptySeq DEF Once, Range, Due, OnceDue
<1>9. PlacesOk'
  BY <1>1, <1>2, <1>8 DEF PlacesOk
<1>10. CallersOk'
  BY <1>1, <1>2, <1>8 DEF CallersOk
<1>11. ConnOk'
  BY <1>1, <1>2 DEF ConnOk
<1>12. MessagesOk(log, wire, Range(buffered))'
  <2>1. <<>> \in Seq(Range(<<>>))
    BY EmptySeq
  <2>2. \A b \in Known(<<>>, Range(buffered)) : b \in Known(wire, Range(buffered))
    BY <1>8 DEF Known
  <2>3. MessagesOk(log, <<>>, Range(buffered))
    BY <1>2, <1>8, <2>1, <2>2 DEF MessagesOk
  <2> QED
    BY <1>1, <2>3
<1> QED
  BY <1>1, <1>2, <1>4, <1>7, <1>9, <1>10, <1>11, <1>12 DEF SubsetsInv, F

LEMMA ConnectFailsInv ==
  ASSUME SubsetsInv, ConnectFails
  PROVE  SubsetsInv' /\ RejectsOf(Range(unsent)) /\ UNCHANGED <<log, socket, session, waiting>>
<1> DEFINE F == Range(unsent)
<1>1. /\ ~connected /\ RejectCalls(F) /\ unsent' = <<>>
      /\ UNCHANGED <<log, socket, session, waiting>>
  BY DEF ConnectFails
<1>2. /\ View \in Views /\ call \in [Holders -> Ids \cup {None}] /\ wire = <<>>
      /\ held \in [Holders -> Ids \cup {None}] /\ LogOk(log) /\ asked = <<>>
      /\ MessagesOk(log, wire, Range(buffered)) /\ waiting = <<>> /\ cursor \in Nat
  BY <1>1, NowIs DEF SubsetsInv, Types, ConnOk
<1>3. F \in SUBSET Holders /\ \A h \in F : call[h] \in Ids
  <2>1. F \in SUBSET Holders
    BY SeqIs DEF SubsetsInv, PlacesOk
  <2> QED
    BY <2>1, SessionIs DEF SubsetsInv, CallersOk
<1>4. RejectsOf(F) /\ tracker' \in Trackers /\ local' \in [Keys -> Content]
  BY <1>1, <1>2, <1>3, RejectCallsIs
<1>5. held' \in [Holders -> Ids \cup {None}] /\ call' \in [Holders -> Ids \cup {None}]
      /\ timers' = timers /\ queries' = queries
  BY <1>2, <1>4 DEF RejectsOf
<1> HIDE DEF F
<1>6. /\ log' = log /\ asked' = asked /\ wire' = wire /\ connected' = connected
      /\ queue' = queue /\ state' = state /\ reloading' = reloading /\ waiting' = waiting
      /\ buffered' = buffered /\ base' = base /\ cursor' = cursor
  BY <1>1 DEF socket, session
<1>7. View' \in Views
  BY <1>2, <1>4, <1>6, ViewMade
<1>8. Types'
  BY <1>5, <1>6, <1>7 DEF SubsetsInv, Types
<1>9. /\ <<>> \in Seq(Holders) /\ Once(<<>>) /\ Range(<<>>) = {}
      /\ Due(<<>>) = {} /\ OnceDue(<<>>) /\ DOMAIN <<>> = {}
  BY EmptySeq DEF Once, Range, Due, OnceDue
<1>10. PlacesOk'
  BY <1>1, <1>6, <1>9 DEF SubsetsInv, PlacesOk
<1>11. CallersOk'
  BY <1>1, <1>2, <1>6, <1>9 DEF CallersOk
<1>12. ConnOk'
  BY <1>1, <1>6 DEF SubsetsInv, ConnOk
<1>13. MessagesOk(log, wire, Range(buffered))' /\ LogOk(log)'
  BY <1>2, <1>6
<1> QED
  BY <1>1, <1>4, <1>8, <1>10, <1>11, <1>12, <1>13 DEF SubsetsInv, F

LEMMA ReconnectInv ==
  ASSUME SubsetsInv, Reconnect
  PROVE  SubsetsInv' /\ UNCHANGED <<log, wire, cursor, buffered, held, call, rows>>
<1>1. /\ ~connected /\ connected' = TRUE
      /\ state' = "catching-up" /\ queue' = "running"
      /\ asked' = <<Session>> \o unsent \/ asked' = Append(unsent, Session)
      /\ unsent' = <<>>
      /\ UNCHANGED <<log, wire, faults, cursor, buffered, base, reloading, visited,
                     held, call, waiting, rows>>
  BY DEF Reconnect
<1>2. /\ wire = <<>> /\ waiting = <<>> /\ reloading = None
      /\ unsent \in Seq(Holders) /\ Once(unsent)
      /\ \A h \in Range(unsent) : h # Session => call[h] \in Ids
  BY <1>1 DEF SubsetsInv, ConnOk, PlacesOk, CallersOk
<1>3. unsent \in Seq(Askers) /\ Session \in Askers /\ Range(unsent) \subseteq Holders
      /\ Session \notin Range(unsent)
  BY <1>2, SeqIs, SessionIs, SeqMonotonic
<1>4. <<Session>> \in Seq(Askers) /\ Once(<<Session>>) /\ Range(<<Session>>) = {Session}
  BY <1>3 DEF Once, Range
<1>5. asked' \in Seq(Askers) /\ Once(asked') /\ Range(asked') = Range(unsent) \cup {Session}
  <2>1. CASE asked' = <<Session>> \o unsent
    <3> DEFINE one == <<Session>>
    <3>1. one \in Seq(Askers) /\ Once(one) /\ Range(one) = {Session}
      BY <1>4
    <3>2. asked' = one \o unsent
      BY <2>1
    <3> HIDE DEF one
    <3>3. Range(one) \cap Range(unsent) = {}
      BY <1>3, <3>1
    <3> QED
      BY <1>2, <1>3, <3>1, <3>2, <3>3, ConcatIs
  <2>2. CASE asked' = Append(unsent, Session)
    BY <1>2, <1>3, <2>2, AppendIs
  <2> QED
    BY <1>1, <2>1, <2>2
<1>6. /\ <<>> \in Seq(Holders) /\ Once(<<>>) /\ Range(<<>>) = {}
      /\ Due(<<>>) = {} /\ OnceDue(<<>>) /\ DOMAIN <<>> = {}
  BY EmptySeq DEF Once, Range, Due, OnceDue
<1>7. PlacesOk'
  BY <1>1, <1>2, <1>5, <1>6 DEF PlacesOk
<1>8. CallersOk'
  BY <1>1, <1>2, <1>5, <1>6 DEF CallersOk
<1>9. ConnOk'
  BY <1>1, <1>2 DEF ConnOk
<1>10. View' = View /\ tracker' = tracker /\ timers' = timers /\ queries' = queries
  BY <1>1 DEF rows, View
<1>11. Types'
  BY <1>1, <1>10 DEF SubsetsInv, Types
<1>12. MessagesOk(log, wire, Range(buffered))' /\ LogOk(log)'
  BY <1>1 DEF SubsetsInv
<1> QED
  BY <1>1, <1>7, <1>8, <1>9, <1>11, <1>12 DEF SubsetsInv

\* loadSubset fails at once: the reference is taken and given back.
LoadRejected(id) ==
  /\ Drops(tracker, tracker') /\ \A x : RefsOf(tracker', x) = RefsOf(tracker, x)
  /\ id \in DOMAIN tracker'.subsets => RefsOf(tracker', id) # 0
  /\ local' = DeleteKeys(local, Removed(Retain(tracker, id), tracker'))
  /\ UNCHANGED <<asked, calls>>

\* h holds the subset, whose rows are there or are to be read.
LoadAccepted(h, id) ==
  /\ RetainOk(tracker, tracker', id) /\ local' = local
  /\ held' = [held EXCEPT ![h] = id]
  /\ \/ Loaded(tracker, id) /\ UNCHANGED <<call, waiting, unsent, asked>>
     \/ /\ ~Loaded(tracker, id) /\ call' = [call EXCEPT ![h] = id]
        /\ waiting' = IF queue = "running" THEN Append(waiting, h) ELSE waiting
        /\ asked' = IF queue = "settled" /\ connected THEN Append(asked, h) ELSE asked
        /\ unsent' = IF queue = "settled" /\ ~connected THEN Append(unsent, h) ELSE unsent

Loads(h, id) ==
  /\ held[h] = None /\ call[h] = None /\ timers' = timers \ {id}
  /\ UNCHANGED <<log, connected, wire, faults, session, queries>>
  /\ LoadRejected(id) \/ LoadAccepted(h, id)

LEMMA LoadIs ==
  ASSUME SubsetsInv, NEW h \in Holders, NEW id \in Ids, Load(h, id)
  PROVE  Loads(h, id) /\ tracker' \in Trackers /\ local' \in [Keys -> Content]
<1> DEFINE t == Retain(tracker, id)
           u == Release(t, id, FALSE)
<1>1. /\ held[h] = None /\ call[h] = None /\ timers' = timers \ {id}
      /\ UNCHANGED <<log, connected, wire, faults, session, queries>>
      /\ IF queue = "rejected" /\ ~Loaded(tracker, id)
         THEN /\ tracker' = u
              /\ local' = DeleteKeys(local, Removed(t, tracker'))
              /\ UNCHANGED <<asked, calls>>
         ELSE /\ held' = [held EXCEPT ![h] = id]
              /\ tracker' = t /\ UNCHANGED local
              /\ IF Loaded(tracker, id) THEN UNCHANGED <<call, waiting, unsent, asked>>
                 ELSE /\ call' = [call EXCEPT ![h] = id]
                      /\ waiting' = IF queue = "running" THEN Append(waiting, h)
                                    ELSE waiting
                      /\ asked' = IF queue = "settled" /\ connected
                                  THEN Append(asked, h) ELSE asked
                      /\ unsent' = IF queue = "settled" /\ ~connected
                                   THEN Append(unsent, h) ELSE unsent
  BY Zenon DEF Load
<1>2. tracker \in Trackers /\ local \in [Keys -> Content]
  BY NowIs DEF SubsetsInv, Types
<1>3. RetainOk(tracker, t, id)
  BY <1>2, RetainIs
<1>4. t \in Trackers
  BY <1>3 DEF RetainOk
<1>5. ReleaseOk(t, u, id, FALSE)
  BY <1>4, ReleaseIs
<1>6. u \in Trackers
  BY <1>5 DEF ReleaseOk
<1> HIDE DEF u
<1>7. CASE queue = "rejected" /\ ~Loaded(tracker, id)
  <2> HIDE DEF t
  <2>1. tracker' = u /\ local' = DeleteKeys(local, Removed(t, tracker')) /\ UNCHANGED <<asked, calls>>
    BY <1>1, <1>7
  <2>2. /\ DOMAIN t.subsets = DOMAIN tracker.subsets \cup {id}
        /\ RefsOf(t, id) = RefsOf(tracker, id) + 1
        /\ \A x \in DOMAIN tracker.subsets : t.subsets[x].keys = tracker.subsets[x].keys
                                             /\ t.subsets[x].loaded = tracker.subsets[x].loaded
        /\ \A x \in DOMAIN tracker.subsets \ {id} : t.subsets[x] = tracker.subsets[x]
    BY <1>3 DEF RetainOk
  <2>3. RefsOf(tracker, id) \in Nat
    BY <1>2, TrackerIs
  <2>4. OneLess(RefsOf(t, id)) = RefsOf(tracker, id)
    BY <2>2, <2>3 DEF OneLess
  <2>5. /\ DOMAIN u.subsets = IF RefsOf(tracker, id) = 0 THEN DOMAIN t.subsets \ {id}
                              ELSE DOMAIN t.subsets
        /\ RefsOf(u, id) = RefsOf(tracker, id)
        /\ \A x : x # id => RefsOf(u, x) = RefsOf(t, x)
        /\ \A x \in DOMAIN u.subsets : u.subsets[x].keys = t.subsets[x].keys
                                       /\ u.subsets[x].loaded = t.subsets[x].loaded
    BY <1>5, <2>4 DEF ReleaseOk
  <2>6. RefsOf(tracker, id) # 0 => id \in DOMAIN tracker.subsets
    BY DEF RefsOf
  <2>7. DOMAIN u.subsets \subseteq DOMAIN tracker.subsets
    BY <2>2, <2>5, <2>6
  <2>8. Drops(tracker, u)
    BY <1>6, <2>2, <2>5, <2>7 DEF Drops
  <2>9. \A x : x # id => RefsOf(t, x) = RefsOf(tracker, x)
    BY <2>2 DEF RefsOf
  <2>10. \A x : RefsOf(u, x) = RefsOf(tracker, x)
    BY <2>5, <2>9
  <2>11. id \in DOMAIN u.subsets => RefsOf(u, id) # 0
    BY <2>5
  <2>12. LoadRejected(id)
    BY <2>1, <2>8, <2>10, <2>11 DEF LoadRejected, t
  <2>13. local' \in [Keys -> Content]
    BY <1>2, <2>1, RowsDeleted
  <2> QED
    BY <1>1, <1>6, <2>1, <2>12, <2>13 DEF Loads
<1>8. CASE ~(queue = "rejected" /\ ~Loaded(tracker, id))
  <2>1. /\ held' = [held EXCEPT ![h] = id] /\ tracker' = t /\ local' = local
        /\ IF Loaded(tracker, id) THEN UNCHANGED <<call, waiting, unsent, asked>>
           ELSE /\ call' = [call EXCEPT ![h] = id]
                /\ waiting' = IF queue = "running" THEN Append(waiting, h)
                              ELSE waiting
                /\ asked' = IF queue = "settled" /\ connected
                            THEN Append(asked, h) ELSE asked
                /\ unsent' = IF queue = "settled" /\ ~connected
                             THEN Append(unsent, h) ELSE unsent
    BY <1>1, <1>8
  <2> HIDE DEF t
  <2>2. LoadAccepted(h, id)
    BY <1>3, <2>1 DEF LoadAccepted
  <2> QED
    BY <1>1, <1>2, <1>4, <2>1, <2>2 DEF Loads
<1> QED
  BY <1>7, <1>8

LEMMA LoadInv ==
  ASSUME SubsetsInv, NEW h \in Holders, NEW id \in Ids, Load(h, id)
  PROVE  SubsetsInv' /\ Loads(h, id)
<1>1. Loads(h, id) /\ tracker' \in Trackers /\ local' \in [Keys -> Content]
  BY LoadIs
<1>2. /\ held[h] = None /\ call[h] = None /\ timers' = timers \ {id}
      /\ log' = log /\ connected' = connected /\ wire' = wire /\ queries' = queries
      /\ state' = state /\ queue' = queue /\ cursor' = cursor /\ buffered' = buffered
      /\ base' = base /\ reloading' = reloading
  BY <1>1 DEF Loads, session
<1>3. /\ View \in Views /\ held \in [Holders -> Ids \cup {None}]
      /\ call \in [Holders -> Ids \cup {None}]
  BY DEF SubsetsInv, Types
<1>4. View' \in Views
  <2>1. cursor' \in Nat
    BY <1>2, <1>3, NowIs
  <2> QED
    BY <1>1, <2>1, ViewMade
<1>5. /\ h \in Askers /\ h # Session
      /\ h \notin Range(asked) \cup Due(wire) \cup Range(waiting) \cup Range(unsent)
  BY <1>2, SessionIs DEF SubsetsInv, CallersOk
<1>6. /\ asked \in Seq(Askers) /\ waiting \in Seq(Holders) /\ unsent \in Seq(Holders)
      /\ Once(asked) /\ Once(waiting) /\ Once(unsent) /\ OnceDue(wire)
      /\ Range(asked) \cap Due(wire) = {}
      /\ (Range(asked) \cup Due(wire)) \cap Range(waiting) = {}
  BY DEF SubsetsInv, PlacesOk
<1>7. MessagesOk(log, wire, Range(buffered))' /\ LogOk(log)'
  BY <1>2 DEF SubsetsInv
<1>8. CASE UNCHANGED <<call, waiting, unsent, asked>> /\ held' \in [Holders -> Ids \cup {None}]
  <2>1. Types'
    BY <1>2, <1>4, <1>8 DEF SubsetsInv, Types
  <2>2. PlacesOk'
    BY <1>2, <1>8 DEF SubsetsInv, PlacesOk
  <2>3. CallersOk'
    BY <1>2, <1>8 DEF SubsetsInv, CallersOk
  <2>4. ConnOk'
    BY <1>2, <1>8 DEF SubsetsInv, ConnOk
  <2> QED
    BY <1>1, <1>7, <2>1, <2>2, <2>3, <2>4 DEF SubsetsInv
<1>9. CASE /\ held' = [held EXCEPT ![h] = id]
           /\ call' = [call EXCEPT ![h] = id]
           /\ waiting' = IF queue = "running" THEN Append(waiting, h) ELSE waiting
           /\ asked' = IF queue = "settled" /\ connected THEN Append(asked, h) ELSE asked
           /\ unsent' = IF queue = "settled" /\ ~connected THEN Append(unsent, h) ELSE unsent
  <2>1. Types'
    BY <1>2, <1>3, <1>4, <1>9 DEF SubsetsInv, Types
  <2>2. call'[h] = id /\ \A x \in Holders : call[x] \in Ids => call'[x] \in Ids
    BY <1>3, <1>9
  <2>3. /\ waiting' \in Seq(Holders) /\ Once(waiting')
        /\ Range(waiting') = IF queue = "running" THEN Range(waiting) \cup {h} ELSE Range(waiting)
    <3>1. /\ Append(waiting, h) \in Seq(Holders) /\ Once(Append(waiting, h))
          /\ Range(Append(waiting, h)) = Range(waiting) \cup {h}
      BY <1>5, <1>6, AppendIs
    <3> QED
      BY <1>6, <1>9, <3>1
  <2>4. /\ asked' \in Seq(Askers) /\ Once(asked')
        /\ Range(asked') = IF queue = "settled" /\ connected THEN Range(asked) \cup {h}
                           ELSE Range(asked)
    <3>1. /\ Append(asked, h) \in Seq(Askers) /\ Once(Append(asked, h))
          /\ Range(Append(asked, h)) = Range(asked) \cup {h}
      BY <1>5, <1>6, AppendIs
    <3> QED
      BY <1>6, <1>9, <3>1
  <2>5. /\ unsent' \in Seq(Holders) /\ Once(unsent')
        /\ Range(unsent') = IF queue = "settled" /\ ~connected THEN Range(unsent) \cup {h}
                            ELSE Range(unsent)
    <3>1. /\ Append(unsent, h) \in Seq(Holders) /\ Once(Append(unsent, h))
          /\ Range(Append(unsent, h)) = Range(unsent) \cup {h}
      BY <1>5, <1>6, AppendIs
    <3> QED
      BY <1>6, <1>9, <3>1
  <2>6. PlacesOk'
    <3>1. Range(asked') \cap Due(wire) = {}
      BY <1>5, <1>6, <2>4
    <3>2. (Range(asked') \cup Due(wire)) \cap Range(waiting') = {}
      <4>1. queue = "running" => queue # "settled"
        OBVIOUS
      <4> QED
        BY <1>5, <1>6, <2>3, <2>4, <4>1
    <3> QED
      BY <1>2, <1>6, <2>3, <2>4, <2>5, <3>1, <3>2 DEF PlacesOk
  <2>7. CallersOk'
    <3>1. \A x \in Range(asked) \cup Due(wire) \cup Range(waiting) \cup Range(unsent) :
            x # Session => x \in Holders /\ call[x] \in Ids
      <4>1. \A x \in Range(asked) \cup Due(wire) \cup Range(waiting) \cup Range(unsent) :
              x \in Askers
        BY <1>6, SeqIs, SessionIs DEF Due
      <4> QED
        BY <4>1, SessionIs DEF SubsetsInv, CallersOk
    <3>2. \A x \in Range(asked') \cup Due(wire) \cup Range(waiting') \cup Range(unsent') :
            x = h \/ x \in Range(asked) \cup Due(wire) \cup Range(waiting) \cup Range(unsent)
      BY <2>3, <2>4, <2>5
    <3>3. \A x \in Range(asked') \cup Due(wire) \cup Range(waiting') \cup Range(unsent') :
            x # Session => call'[x] \in Ids
      BY <2>2, <3>1, <3>2
    <3>4. Session \in Range(asked') => Session \in Range(asked)
      BY <1>5, <2>4
    <3> QED
      BY <1>2, <3>3, <3>4 DEF SubsetsInv, CallersOk
  <2>8. ConnOk'
    BY <1>2, <1>9 DEF SubsetsInv, ConnOk
  <2> QED
    BY <1>1, <1>7, <2>1, <2>6, <2>7, <2>8 DEF SubsetsInv
<1>10. LoadRejected(id) \/ LoadAccepted(h, id)
  BY <1>1 DEF Loads
<1>11. CASE LoadRejected(id)
  <2>1. UNCHANGED <<call, waiting, unsent, asked>> /\ held' \in [Holders -> Ids \cup {None}]
    BY <1>3, <1>11 DEF LoadRejected, calls
  <2> QED
    BY <1>1, <1>8, <2>1
<1>12. CASE LoadAccepted(h, id)
  <2>1. CASE UNCHANGED <<call, waiting, unsent, asked>>
    <3>1. held' \in [Holders -> Ids \cup {None}]
      BY <1>3, <1>12 DEF LoadAccepted
    <3> QED
      BY <1>1, <1>8, <2>1, <3>1
  <2>2. CASE call' = [call EXCEPT ![h] = id] /\ ~Loaded(tracker, id)
    BY <1>1, <1>9, <1>12, <2>2 DEF LoadAccepted
  <2> QED
    BY <1>12, <2>1, <2>2 DEF LoadAccepted
<1> QED
  BY <1>10, <1>11, <1>12

-----------------------------------------------------------------------------
LEMMA InitInv ==
  ASSUME Init
  PROVE  SubsetsInv
<1>1. /\ log = {} /\ connected = TRUE /\ asked = <<>> /\ wire = <<>>
      /\ state = "synchronized" /\ queue = "settled"
      /\ cursor = 0 /\ buffered = <<>> /\ base = 0 /\ reloading = None
      /\ held = [h \in Holders |-> None] /\ call = held
      /\ waiting = <<>> /\ unsent = <<>>
      /\ tracker = [subsets |-> <<>>, keyRefs |-> [k \in Keys |-> 0]]
      /\ timers = {} /\ queries = {} /\ local = [k \in Keys |-> Gone]
  BY DEF Init
<1>2. LogOk(log)
  <2>1. IsFiniteSet({})
    BY FS_EmptySet
  <2>2. ReadWatermark({}) = 0
    BY DEF ReadWatermark
  <2> QED
    BY <1>1, <2>1, <2>2 DEF LogOk, Numbered
<1>3. tracker \in Trackers
  <2> DEFINE f == [x \in {} |-> x]
             n == [k \in Keys |-> 0]
  <2>1. f = <<>>
    OBVIOUS
  <2>2. {} \in SUBSET Ids /\ IsFiniteSet({}) /\ Cardinality({}) = 0
    BY FS_EmptySet
  <2>3. f \in [{} -> Subset] /\ n \in [Keys -> Nat]
    OBVIOUS
  <2>4. \A k \in Keys : n[k] = Cardinality({id \in {} : k \in f[id].keys})
    BY <2>2
  <2>5. [subsets |-> f, keyRefs |-> n] \in Trackers
    BY <2>2, <2>3, <2>4, TrackerMade
  <2> QED
    BY <1>1, <2>1, <2>5
<1>4. View \in Views
  BY <1>1, <1>3 DEF View, Views, Content
<1>5. /\ <<>> \in Seq(Askers) /\ <<>> \in Seq(Holders) /\ Once(<<>>) /\ Range(<<>>) = {}
      /\ Due(<<>>) = {} /\ OnceDue(<<>>) /\ DOMAIN <<>> = {} /\ <<>> \in Seq({})
  BY EmptySeq DEF Once, Range, Due, OnceDue
<1>6. Types
  BY <1>1, <1>4, <1>5 DEF Types
<1>7. MessagesOk(log, wire, Range(buffered))
  BY <1>1, <1>5 DEF MessagesOk, Known
<1>8. PlacesOk
  BY <1>1, <1>5 DEF PlacesOk
<1>9. CallersOk
  BY <1>1, <1>5 DEF CallersOk
<1>10. ConnOk
  BY <1>1 DEF ConnOk
<1> QED
  BY <1>2, <1>6, <1>7, <1>8, <1>9, <1>10 DEF SubsetsInv

LEMMA SameInv ==
  ASSUME SubsetsInv, UNCHANGED vars
  PROVE  SubsetsInv'
<1>1. /\ log' = log /\ connected' = connected /\ asked' = asked /\ wire' = wire
      /\ state' = state /\ queue' = queue /\ cursor' = cursor /\ buffered' = buffered
      /\ base' = base /\ reloading' = reloading /\ held' = held /\ call' = call
      /\ waiting' = waiting /\ unsent' = unsent /\ View' = View /\ timers' = timers
      /\ queries' = queries
  BY DEF vars, socket, session, calls, rows, View
<1>2. Types'
  BY <1>1 DEF SubsetsInv, Types
<1>3. PlacesOk'
  BY <1>1 DEF SubsetsInv, PlacesOk
<1>4. CallersOk'
  BY <1>1 DEF SubsetsInv, CallersOk
<1>5. ConnOk'
  BY <1>1 DEF SubsetsInv, ConnOk
<1>6. LogOk(log)' /\ MessagesOk(log, wire, Range(buffered))'
  BY <1>1 DEF SubsetsInv
<1> QED
  BY <1>2, <1>3, <1>4, <1>5, <1>6 DEF SubsetsInv

LEMMA DeliverIs ==
  ASSUME SubsetsInv, Deliver
  PROVE  Head(wire).type \in {"updates", "rows", "reloaded", "history"}
<1>1. MessageOk(log, Head(wire))
  BY HeadIs DEF Deliver
<1> QED
  BY <1>1 DEF MessageOk, UpdatesOk

LEMMA StepInv ==
  ASSUME SubsetsInv, [Next]_vars
  PROVE  SubsetsInv'
<1>1. CASE \E h \in Holders : Unload(h)
  BY <1>1, UnloadInv
<1>2. CASE \E h \in Holders, id \in Ids : Load(h, id)
  BY <1>2, LoadInv
<1>3. CASE Deliver
  BY <1>3, DeliverIs, ReceiveInv, AnsweredInv, ReloadedInv, CatchUpInv
<1>4. CASE Reconnect
  BY <1>4, ReconnectInv
<1>5. CASE \E id \in Ids : Retired(id)
  BY <1>5, RetiredInv
<1>6. CASE Handle
  BY <1>6, HandleInv
<1>7. CASE \E b \in Batches : Push(b)
  BY <1>7, PushInv
<1>8. CASE Drop
  BY <1>8, DropInv
<1>9. CASE ConnectFails
  BY <1>9, ConnectFailsInv
<1>10. CASE UNCHANGED vars
  BY <1>10, SameInv
<1> QED
  BY <1>1, <1>2, <1>3, <1>4, <1>5, <1>6, <1>7, <1>8, <1>9, <1>10
     DEF Next, LiveQuery, Client, Server

(* What is said of the wire, the requests and the rows holds throughout.   *)
THEOREM SubsetsInvariance == Spec => []SubsetsInv
<1>1. Init => SubsetsInv
  BY InitInv
<1>2. SubsetsInv /\ [Next]_vars => SubsetsInv'
  BY StepInv
<1> QED
  BY <1>1, <1>2, PTL DEF Spec

(* The reference count of every key is the number of subsets that hold it, *)
(* whatever rows joined and left them and in whichever order subsets were  *)
(* read, reloaded, released and expired (subsets.ts): also when live       *)
(* queries unmount before their rows are there, and when the history was   *)
(* pruned.                                                                 *)
THEOREM KeysAreCounted == Spec => []KeyRefsAgree
<1>1. SubsetsInv => KeyRefsAgree
  <2> SUFFICES ASSUME SubsetsInv PROVE KeyRefsAgree
    OBVIOUS
  <2>1. tracker \in Trackers
    BY NowIs DEF SubsetsInv, Types
  <2> QED
    BY <2>1, TrackerIs DEF KeyRefsAgree, Holding
<1> QED
  BY <1>1, SubsetsInvariance, PTL

-----------------------------------------------------------------------------
(***************************************************************************)
(* The references to subsets, when a live query waits for its subset.      *)
(***************************************************************************)
RefInv ==
  /\ \A h \in Holders : call[h] # None => held[h] = call[h]
  /\ \A id \in Ids : Cardinality(HoldersOf(id)) = RefsOf(tracker, id)

\* Nobody joins or leaves a subset.
SameHolders ==
  held' = held /\ call' = call /\ \A x : RefsOf(tracker', x) = RefsOf(tracker, x)

LEMMA SameRefs ==
  ASSUME NEW t, NEW u, SameSubsets(t, u)
  PROVE  \A x : RefsOf(u, x) = RefsOf(t, x)
BY DEF SameSubsets, RefsOf

LEMMA SameSubsetsTwice ==
  ASSUME NEW t, NEW u, NEW v, SameSubsets(t, u), SameSubsets(u, v)
  PROVE  SameSubsets(t, v)
BY DEF SameSubsets

LEMMA CatchUpTracker ==
  ASSUME SubsetsInv, Deliver, Head(wire).type = "history"
  PROVE  SameSubsets(tracker, tracker') /\ held' = held /\ call' = call /\ timers' = timers
<1> DEFINE a == Head(wire).answer
<1>1. CatchUpPage(a)
  BY CatchUpInv
<1>2. held' = held /\ call' = call /\ timers' = timers
  BY <1>1 DEF CatchUpPage
<1>3. MessageOk(log, Head(wire))
  BY HeadIs DEF Deliver
<1>4. HistoryOk(log, a)
  BY <1>3 DEF MessageOk, UpdatesOk
<1>5. View \in Views /\ LogOk(log) /\ View.tracker = tracker
  BY DEF SubsetsInv, Types, View
<1>6. CASE a.type = "resyncRequired"
  <2>1. ReloadNext(View, a.watermark, {}) /\ a.watermark \in Nat
    BY <1>1, <1>4, <1>6 DEF CatchUpPage, HistoryOk
  <2> QED
    BY <1>2, <1>5, <2>1, ReloadNextIs
<1>7. CASE a.type # "resyncRequired"
  <2>1. a.updates \in SUBSET log /\ a.cursors[Collection] \in Nat
    BY <1>4, <1>7 DEF HistoryOk
  <2>2. PageView(a) \in Views /\ SameSubsets(tracker, PageView(a).tracker)
    <3>1. PICK x \in Views : ApplyOk(View, x, a.updates) /\ PageView(a).tracker = x.tracker
      BY <1>5, <2>1, PageViewIs
    <3> QED
      BY <1>5, <2>1, <3>1, PageViewIs DEF ApplyOk
  <2>3. Becomes(PageView(a)) \/ Synchronize(PageView(a))
    BY <1>1, <1>7 DEF CatchUpPage, PageView
  <2>4. SameSubsets(PageView(a).tracker, tracker')
    <3>1. CASE Becomes(PageView(a))
      BY <2>2, <3>1, BecomesIs, SameSubsetsRefl
    <3>2. CASE Synchronize(PageView(a))
      BY <2>2, <3>2, SynchronizeIs
    <3> QED
      BY <2>3, <3>1, <3>2
  <2> QED
    BY <1>2, <2>2, <2>4, SameSubsetsTwice
<1> QED
  BY <1>6, <1>7

LEMMA ReloadedTracker ==
  ASSUME SubsetsInv, Deliver, Head(wire).type = "reloaded"
  PROVE  SameHolders
<1> DEFINE m == Head(wire)
           v == Install(reloading, m.rows)
<1>1. ReloadNext(v, base, visited) /\ UNCHANGED <<held, call, unsent, timers, queries>>
  BY ReloadedInv DEF Reloaded
<1>2. wire[1] = m /\ 1 \in DOMAIN wire /\ MessageOk(log, m)
  BY HeadIs DEF Deliver
<1>3. reloading \in Ids /\ ReadOk(m.rows)
  BY <1>2 DEF SubsetsInv, CallersOk, MessageOk, UpdatesOk
<1>4. InstallOk(reloading, m.rows, v)
  BY <1>3, InstallIs DEF SubsetsInv, Types
<1>5. v \in Views /\ \A x : RefsOf(v.tracker, x) = RefsOf(tracker, x)
  BY <1>4 DEF InstallOk, ReplaceOk
<1>6. base \in Nat
  BY DEF SubsetsInv, Types
<1> HIDE DEF v
<1>7. SameSubsets(v.tracker, tracker')
  BY <1>1, <1>5, <1>6, ReloadNextIs
<1>8. \A x : RefsOf(tracker', x) = RefsOf(v.tracker, x)
  BY <1>7, SameRefs
<1> QED
  BY <1>1, <1>5, <1>8 DEF SameHolders

LEMMA SameHoldersInv ==
  ASSUME RefInv, SameHolders
  PROVE  RefInv'
BY DEF RefInv, SameHolders, HoldersOf

LEMMA AnsweredRefs ==
  ASSUME SubsetsInv, RefInv, Deliver, Head(wire).type = "rows"
  PROVE  RefInv'
<1> DEFINE h == Head(wire).holder
<1>1. /\ Answered(Head(wire)) /\ h \in Holders /\ call[h] \in Ids
      /\ InstallOk(call[h], Head(wire).rows, View')
  BY AnsweredInv
<1>2. held' = held /\ call' = [call EXCEPT ![h] = None]
  BY <1>1, Zenon DEF Answered
<1>3. View'.tracker = tracker'
  BY DEF View
<1>4. \A x : RefsOf(tracker', x) = RefsOf(tracker, x)
  BY <1>1, <1>3 DEF InstallOk, ReplaceOk
<1>5. call \in [Holders -> Ids \cup {None}]
  BY DEF SubsetsInv, Types
<1> HIDE DEF h
<1>6. \A x \in Holders : call'[x] # None => held'[x] = call'[x]
  BY <1>2, <1>5 DEF RefInv
<1> QED
  BY <1>2, <1>4, <1>6 DEF RefInv, HoldersOf

LEMMA UnloadRefs ==
  ASSUME SubsetsInv, RefInv, NEW h \in Holders, Unload(h), ~Impatient
  PROVE  RefInv'
<1> DEFINE id == held[h]
<1>1. LetsGo(h) /\ call[h] = None /\ id # None
  BY UnloadInv DEF Unload
<1>2. /\ id \in Ids /\ RefsOf(tracker', id) = OneLess(RefsOf(tracker, id))
      /\ \A x : x # id => RefsOf(tracker', x) = RefsOf(tracker, x)
      /\ held' = [held EXCEPT ![h] = None] /\ call' = call
  BY <1>1 DEF LetsGo
<1>3. held \in [Holders -> Ids \cup {None}]
  BY DEF SubsetsInv, Types
<1>4. held'[h] = None /\ \A x \in Holders : x # h => held'[x] = held[x]
  BY <1>2, <1>3
<1>5. \A x \in Holders : call'[x] # None => held'[x] = call'[x]
  BY <1>1, <1>2, <1>4 DEF RefInv
<1>6. ASSUME NEW x \in Ids
      PROVE  Cardinality(HoldersOf(x)') = RefsOf(tracker', x)
  <2>1. Cardinality(HoldersOf(x)) = RefsOf(tracker, x)
    BY DEF RefInv
  <2>2. CASE x = id
    <3>1. HoldersOf(x)' = HoldersOf(x) \ {h} /\ h \in HoldersOf(x)
      BY <1>1, <1>4, <2>2 DEF HoldersOf
    <3>2. IsFiniteSet(HoldersOf(x)) /\ Cardinality(HoldersOf(x)) \in Nat
      BY HoldersFinite DEF HoldersOf
    <3>3. Cardinality(HoldersOf(x) \ {h}) = Cardinality(HoldersOf(x)) - 1
          /\ Cardinality(HoldersOf(x)) # 0
      BY <3>1, <3>2, FS_RemoveElement, FS_EmptySet
    <3>4. Cardinality(HoldersOf(x)') = Cardinality(HoldersOf(x)) - 1
      BY <3>1, <3>3
    <3> QED
      BY <1>2, <2>1, <2>2, <3>2, <3>3, <3>4 DEF OneLess
  <2>3. CASE x # id
    <3>1. HoldersOf(x)' = HoldersOf(x)
      BY <1>1, <1>4, <2>3, SessionIs DEF HoldersOf
    <3> QED
      BY <1>2, <2>1, <2>3, <3>1
  <2> QED
    BY <2>2, <2>3
<1> QED
  BY <1>5, <1>6 DEF RefInv

LEMMA LoadRefs ==
  ASSUME SubsetsInv, RefInv, NEW h \in Holders, NEW id \in Ids, Load(h, id)
  PROVE  RefInv'
<1>1. Loads(h, id)
  BY LoadInv
<1>2. held \in [Holders -> Ids \cup {None}] /\ call \in [Holders -> Ids \cup {None}]
  BY DEF SubsetsInv, Types
<1>3. CASE LoadRejected(id)
  <2>1. SameHolders
    BY <1>3 DEF LoadRejected, SameHolders, calls
  <2> QED
    BY <2>1, SameHoldersInv
<1>4. CASE LoadAccepted(h, id)
  <2>1. /\ held' = [held EXCEPT ![h] = id] /\ held[h] = None /\ call[h] = None
        /\ call' = call \/ call' = [call EXCEPT ![h] = id]
        /\ RetainOk(tracker, tracker', id)
    BY <1>1, <1>4 DEF LoadAccepted, Loads
  <2>2. held'[h] = id /\ \A x \in Holders : x # h => held'[x] = held[x] /\ call'[x] = call[x]
    BY <1>2, <2>1
  <2>3. call'[h] = None \/ call'[h] = id
    BY <1>2, <2>1
  <2>4. \A x \in Holders : call'[x] # None => held'[x] = call'[x]
    BY <2>2, <2>3 DEF RefInv
  <2>5. /\ RefsOf(tracker', id) = RefsOf(tracker, id) + 1
        /\ \A x : x # id => RefsOf(tracker', x) = RefsOf(tracker, x)
    BY <2>1 DEF RetainOk, RefsOf
  <2>6. ASSUME NEW x \in Ids
        PROVE  Cardinality(HoldersOf(x)') = RefsOf(tracker', x)
    <3>1. Cardinality(HoldersOf(x)) = RefsOf(tracker, x)
      BY DEF RefInv
    <3>2. CASE x = id
      <4>1. HoldersOf(x)' = HoldersOf(x) \cup {h} /\ h \notin HoldersOf(x)
        BY <2>1, <2>2, <3>2, SessionIs DEF HoldersOf
      <4>2. IsFiniteSet(HoldersOf(x)) /\ Cardinality(HoldersOf(x)) \in Nat
        BY HoldersFinite DEF HoldersOf
      <4>3. Cardinality(HoldersOf(x) \cup {h}) = Cardinality(HoldersOf(x)) + 1
        BY <4>1, <4>2, FS_AddElement
      <4>4. Cardinality(HoldersOf(x)') = Cardinality(HoldersOf(x)) + 1
        BY <4>1, <4>3
      <4> QED
        BY <2>5, <3>1, <3>2, <4>4
    <3>3. CASE x # id
      <4>1. HoldersOf(x)' = HoldersOf(x)
        BY <2>1, <2>2, <3>3, SessionIs DEF HoldersOf
      <4> QED
        BY <2>5, <3>1, <3>3, <4>1
    <3> QED
      BY <3>2, <3>3
  <2> QED
    BY <2>4, <2>6 DEF RefInv
<1> QED
  BY <1>1, <1>3, <1>4 DEF Loads

LEMMA RejectRefs ==
  ASSUME SubsetsInv, RefInv, NEW F, RejectsOf(F)
  PROVE  RefInv'
<1>1. /\ F \in SUBSET Holders /\ \A h \in F : call[h] \in Ids
      /\ tracker' = Rejected(tracker, F)
      /\ held' = [h \in Holders |-> IF h \in F THEN None ELSE held[h]]
      /\ call' = [h \in Holders |-> IF h \in F THEN None ELSE call[h]]
  BY DEF RejectsOf
<1>2. tracker \in Trackers
  BY NowIs DEF SubsetsInv, Types
<1>3. \A h \in F : held[h] = call[h]
  BY <1>1, SessionIs DEF RefInv
<1>4. \A id \in Ids : Cardinality(HoldersOf(id) \ F) = RefsOf(Rejected(tracker, F), id)
  BY <1>1, <1>2, <1>3, RejectIs DEF RefInv
<1>5. \A id \in Ids : HoldersOf(id)' = HoldersOf(id) \ F
  BY <1>1, SessionIs DEF HoldersOf
<1>6. \A h \in Holders : call'[h] # None => held'[h] = call'[h]
  BY <1>1 DEF RefInv
<1>7. \A id \in Ids : Cardinality(HoldersOf(id)') = RefsOf(tracker', id)
  BY <1>1, <1>4, <1>5
<1> QED
  BY <1>6, <1>7 DEF RefInv

LEMMA StepRefs ==
  ASSUME SubsetsInv, RefInv, ~Impatient, [Next]_vars
  PROVE  RefInv'
<1>1. CASE \E h \in Holders : Unload(h)
  BY <1>1, UnloadRefs
<1>2. CASE \E h \in Holders, id \in Ids : Load(h, id)
  BY <1>2, LoadRefs
<1>3. CASE Deliver
  <2>1. CASE Head(wire).type = "updates"
    <3>1. SameSubsets(tracker, tracker') /\ Receive(Head(wire))
      BY <1>3, <2>1, ReceiveInv
    <3>2. SameHolders
      BY <3>1, SameRefs DEF SameHolders, Receive, calls
    <3> QED
      BY <3>2, SameHoldersInv
  <2>2. CASE Head(wire).type = "rows"
    BY <1>3, <2>2, AnsweredRefs
  <2>3. CASE Head(wire).type = "reloaded"
    BY <1>3, <2>3, ReloadedTracker, SameHoldersInv
  <2>4. CASE Head(wire).type = "history"
    <3>1. SameHolders
      BY <1>3, <2>4, CatchUpTracker, SameRefs DEF SameHolders
    <3> QED
      BY <3>1, SameHoldersInv
  <2> QED
    BY <1>3, <2>1, <2>2, <2>3, <2>4, DeliverIs
<1>4. CASE Reconnect
  BY <1>4, SameHoldersInv, ReconnectInv DEF SameHolders, rows
<1>5. CASE \E id \in Ids : Retired(id)
  <2>1. PICK id \in Ids : Expires(id)
    BY <1>5, RetiredInv
  <2>2. SameHolders
    BY <2>1 DEF SameHolders, Expires, ExpireOk, calls
  <2> QED
    BY <2>2, SameHoldersInv
<1>6. CASE Handle
  BY <1>6, SameHoldersInv DEF SameHolders, Handle, calls, rows
<1>7. CASE \E b \in Batches : Push(b)
  BY <1>7, SameHoldersInv DEF SameHolders, Push, calls, rows
<1>8. CASE Drop
  BY <1>8, DropInv, RejectRefs
<1>9. CASE ConnectFails
  BY <1>9, ConnectFailsInv, RejectRefs
<1>10. CASE UNCHANGED vars
  BY <1>10, SameHoldersInv DEF SameHolders, vars, calls, rows
<1> QED
  BY <1>1, <1>2, <1>3, <1>4, <1>5, <1>6, <1>7, <1>8, <1>9, <1>10
     DEF Next, LiveQuery, Client, Server

LEMMA InitRefs ==
  ASSUME Init
  PROVE  RefInv
<1>1. /\ held = [h \in Holders |-> None] /\ call = held
      /\ tracker = [subsets |-> <<>>, keyRefs |-> [k \in Keys |-> 0]]
  BY DEF Init
<1>2. \A id \in Ids : HoldersOf(id) = {}
  BY <1>1, SessionIs DEF HoldersOf
<1>3. \A id \in Ids : RefsOf(tracker, id) = 0
  BY <1>1 DEF RefsOf
<1>4. Cardinality({}) = 0
  BY FS_EmptySet
<1> QED
  BY <1>1, <1>2, <1>3, <1>4 DEF RefInv

(* The reference count of a subset is the number of live queries that hold *)
(* it or wait for it, through every order of loads, unloads, answers, lost *)
(* sockets and failed connects (collection.ts), provided that a live query *)
(* does not unmount while it waits: loadSubset's rejection would release   *)
(* its subset a second time.                                               *)
THEOREM ReferencesAreCounted ==
  ASSUME ~Impatient
  PROVE  Spec => []RefsAgree
<1>1. Init => SubsetsInv /\ RefInv
  BY InitInv, InitRefs
<1>2. SubsetsInv /\ RefInv /\ [Next]_vars => (SubsetsInv /\ RefInv)'
  BY StepInv, StepRefs
<1>3. SubsetsInv /\ RefInv => RefsAgree
  BY DEF RefInv, RefsAgree, HoldersOf, RefsOf
<1> QED
  BY <1>1, <1>2, <1>3, PTL DEF Spec

-----------------------------------------------------------------------------
(***************************************************************************)
(* A history that keeps everything.                                        *)
(***************************************************************************)
NothingPruned == MaxChanges < 0 \/ MaxSequence <= MaxChanges

\* The session never reloads.
NoReload(m) ==
  m.type # "reloaded" /\ (m.type = "history" => m.answer.type = "changes")

QuietInv ==
  /\ reloading = None
  /\ \A i \in DOMAIN wire : NoReload(wire[i])

LEMMA AllKept ==
  ASSUME LogOk(log), NothingPruned
  PROVE  Changes = log
<1>1. MaxChanges \in Int /\ MaxSequence \in Nat
  BY SubsetsAssumption
<1>2. log \in SUBSET Entry /\ Watermark \in Nat
  BY TopIs DEF LogOk, Watermark
<1>3. CASE MaxChanges < 0
  BY <1>3 DEF Changes, PruneChanges
<1>4. CASE ~(MaxChanges < 0)
  <2>1. MaxSequence <= MaxChanges
    BY <1>4 DEF NothingPruned
  <2>2. Watermark <= MaxSequence
    <3>1. Watermark = 0 \/ \E c \in log : c.seq = Watermark
      BY <1>2, TopIs DEF Watermark
    <3> QED
      BY <1>1, <1>2, <3>1, EntryIs
  <2>3. \A c \in log : c.seq > Watermark - MaxChanges
    BY <1>1, <1>2, <2>1, <2>2, EntryIs
  <2>4. Changes = {c \in log : c.seq > Watermark - MaxChanges}
    BY <1>4 DEF Changes, PruneChanges
  <2> QED
    BY <2>3, <2>4
<1> QED
  BY <1>3, <1>4

LEMMA OneScope ==
  ASSUME NEW L \in SUBSET Entry
  PROVE  InScope(L, Collection) = L
BY EntryIs DEF InScope

LEMMA NotStale ==
  ASSUME LogOk(log), NEW n \in Nat, NEW latest, latest[Collection] = Watermark
  PROVE  ~IsCursorStale(log, latest, Collection, n)
<1>1. log \in SUBSET Entry /\ Watermark \in Nat /\ Watermark = ReadWatermark(log)
  BY TopIs DEF LogOk, Watermark
<1>2. InScope(log, Collection) = log
  BY <1>1, OneScope
<1> SUFFICES ASSUME Watermark # 0
             PROVE  log # {} /\ ~(n < Min(SeqNumbers(log)) - 1)
  BY <1>2 DEF IsCursorStale
<1>3. 1 \in 1..ReadWatermark(log)
  BY <1>1
<1>4. PICK c \in log : c.seq = 1
  BY <1>3 DEF LogOk
<1> DEFINE S == SeqNumbers(log)
<1>5. S \in SUBSET Nat /\ 1 \in S
  BY <1>1, <1>4, EntryIs DEF SeqNumbers
<1> HIDE DEF S
<1>6. Min(S) \in Nat /\ Min(S) <= 1
  BY <1>5, MinIsLeast
<1> QED
  BY <1>4, <1>6 DEF S

LEMMA QuietAnswer ==
  ASSUME SubsetsInv, reloading = None, NothingPruned, NEW who \in Range(asked)
  PROVE  NoReload(Answer(who))
<1> DEFINE m == Answer(who)
<1>1. LogOk(log) /\ cursor \in Nat
  BY NowIs DEF SubsetsInv, Types
<1>2. CASE who # Session
  <2>1. m = [type |-> "rows", holder |-> who, rows |-> ReadRows(call[who])]
    BY <1>2 DEF Answer
  <2>2. m.type = "rows"
    BY <2>1
  <2> QED
    BY <2>2 DEF NoReload
<1>3. CASE who = Session
  <2> DEFINE latest == [s \in {Collection} |-> Watermark]
             from == [s \in {Collection} |-> cursor]
             stale == {s \in DOMAIN from : IsCursorStale(Changes, latest, s, from[s])}
             a == ReadChanges(Changes, latest, from, ChangesLimit)
  <2>1. m = [type |-> "history", answer |-> a]
    BY <1>3, Zenon DEF Answer
  <2>2. latest[Collection] = Watermark /\ DOMAIN from = {Collection}
        /\ from[Collection] = cursor
    OBVIOUS
  <2>3. Changes = log
    BY <1>1, AllKept
  <2> HIDE DEF latest, from
  <2>4. stale = {}
    BY <1>1, <2>2, <2>3, NotStale
  <2>5. a.type = "changes"
    <3> HIDE DEF stale
    <3>1. stale # {} \/ a.type = "changes"
      BY DEF ReadChanges, stale
    <3> QED
      BY <2>4, <3>1
  <2> HIDE DEF a
  <2>6. m.type = "history" /\ m.answer = a
    BY <2>1
  <2> QED
    BY <2>5, <2>6 DEF NoReload
<1> QED
  BY <1>2, <1>3

LEMMA QuietTail ==
  ASSUME SubsetsInv, QuietInv, wire # <<>>
  PROVE  \A i \in DOMAIN Tail(wire) : NoReload(Tail(wire)[i])
BY HeadIs DEF QuietInv

LEMMA QuietAppend ==
  ASSUME SubsetsInv, QuietInv, NEW m, NoReload(m)
  PROVE  \A i \in DOMAIN Append(wire, m) : NoReload(Append(wire, m)[i])
<1> DEFINE S == Range(wire) \cup {m}
<1>1. wire \in Seq(S) /\ m \in S
  BY DEF SubsetsInv, MessagesOk
<1>2. /\ DOMAIN Append(wire, m) = 1..(Len(wire) + 1)
      /\ Append(wire, m)[Len(wire) + 1] = m
      /\ \A i \in DOMAIN wire : Append(wire, m)[i] = wire[i]
      /\ Len(wire) \in Nat /\ DOMAIN wire = 1..Len(wire)
  BY <1>1, AppendIs, SeqIs
<1>3. \A i \in DOMAIN Append(wire, m) : i \in DOMAIN wire \/ i = Len(wire) + 1
  BY <1>2
<1> QED
  BY <1>2, <1>3 DEF QuietInv

\* The answer that ends or continues recover, when nothing was pruned.
CatchesUp(a) ==
  /\ a.type = "changes" /\ a.updates \in SUBSET log /\ a.cursors[Collection] \in Nat
  /\ PageView(a) \in Views /\ base' = base
  /\ held' = held /\ call' = call /\ unsent' = unsent /\ timers' = timers
  /\ queries' = queries
  /\ \/ /\ a.hasMore /\ Becomes(PageView(a)) /\ asked' = Append(asked, Session)
        /\ UNCHANGED <<state, queue, buffered, reloading, visited, waiting>>
     \/ ~a.hasMore /\ Synchronize(PageView(a))

LEMMA CatchesUpIs ==
  ASSUME SubsetsInv, QuietInv, Deliver, Head(wire).type = "history"
  PROVE  CatchesUp(Head(wire).answer)
<1> DEFINE a == Head(wire).answer
<1>1. CatchUpPage(a)
  BY CatchUpInv
<1>2. wire # <<>> /\ MessageOk(log, Head(wire)) /\ wire[1] = Head(wire) /\ 1 \in DOMAIN wire
  BY HeadIs DEF Deliver
<1>3. HistoryOk(log, a) /\ a.type = "changes"
  BY <1>2 DEF MessageOk, UpdatesOk, QuietInv, NoReload
<1>4. a.updates \in SUBSET log /\ a.cursors[Collection] \in Nat
  BY <1>3 DEF HistoryOk
<1>5. PageView(a) \in Views
  BY <1>4, PageViewIs DEF SubsetsInv, Types
<1>6. /\ UNCHANGED <<held, call, unsent, timers, queries>> /\ base' = base
      /\ IF a.hasMore
         THEN /\ Becomes(PageView(a)) /\ asked' = Append(asked, Session)
              /\ UNCHANGED <<state, queue, buffered, reloading, visited, waiting>>
         ELSE Synchronize(PageView(a))
  BY <1>1, <1>3 DEF CatchUpPage, PageView
<1> HIDE DEF a
<1>7. (a.hasMore /\ Becomes(PageView(a)) /\ asked' = Append(asked, Session)
         /\ UNCHANGED <<state, queue, buffered, reloading, visited, waiting>>)
      \/ (~a.hasMore /\ Synchronize(PageView(a)))
  BY <1>6
<1>8. CatchesUp(a)
  BY <1>3, <1>4, <1>5, <1>6, <1>7 DEF CatchesUp
<1> QED
  BY <1>8 DEF a

LEMMA StepQuiet ==
  ASSUME SubsetsInv, QuietInv, NothingPruned, [Next]_vars
  PROVE  QuietInv'
<1> USE DEF QuietInv
<1>1. CASE \E h \in Holders : Unload(h)
  BY <1>1 DEF Unload, socket
<1>2. CASE \E h \in Holders, id \in Ids : Load(h, id)
  BY <1>2 DEF Load, session
<1>3. CASE Deliver
  <2>1. wire # <<>> /\ wire' = Tail(wire)
    BY <1>3 DEF Deliver
  <2>2. \A i \in DOMAIN wire' : NoReload(wire'[i])
    BY <2>1, QuietTail
  <2>3. CASE Head(wire).type = "updates"
    BY <1>3, <2>2, <2>3, ReceiveInv DEF Receive
  <2>4. CASE Head(wire).type = "rows"
    <3>1. Answered(Head(wire))
      BY <1>3, <2>4, AnsweredInv
    <3>2. reloading' = reloading
      BY <3>1, Zenon DEF Answered
    <3> QED
      BY <2>2, <3>2
  <2>5. CASE Head(wire).type = "reloaded"
    BY <2>1, <2>5, HeadIs DEF NoReload
  <2>6. CASE Head(wire).type = "history"
    <3>1. CatchesUp(Head(wire).answer)
      BY <1>3, <2>6, CatchesUpIs
    <3>2. reloading' = None
      BY <3>1 DEF CatchesUp, Synchronize
    <3> QED
      BY <2>2, <3>2
  <2> QED
    BY <1>3, <2>3, <2>4, <2>5, <2>6, DeliverIs
<1>4. CASE Reconnect
  BY <1>4 DEF Reconnect
<1>5. CASE \E id \in Ids : Retired(id)
  BY <1>5 DEF Retired, socket
<1>6. CASE Handle
  <2>1. /\ asked # <<>> /\ wire' = Append(wire, Answer(Head(asked)))
        /\ reloading' = reloading
    BY <1>6 DEF Handle, session
  <2>2. Head(asked) \in Range(asked)
    BY <2>1, TailIs DEF SubsetsInv, PlacesOk
  <2>3. NoReload(Answer(Head(asked)))
    BY <2>2, QuietAnswer
  <2> QED
    BY <2>1, <2>3, QuietAppend
<1>7. CASE \E b \in Batches : Push(b)
  <2>1. PICK b \in Batches : Push(b)
    BY <1>7
  <2> DEFINE m == [type |-> "updates", updates |-> Pushed(b), watermark |-> Watermark + Len(b)]
  <2>2. reloading' = reloading /\ (wire' = Append(wire, m) \/ wire' = wire)
    BY <2>1 DEF Push, Pushed, session
  <2>3. NoReload(m)
    BY DEF NoReload
  <2> HIDE DEF m
  <2> QED
    BY <2>2, <2>3, QuietAppend
<1>8. CASE Drop
  BY <1>8 DEF Drop
<1>9. CASE ConnectFails
  BY <1>9 DEF ConnectFails, socket, session
<1>10. CASE UNCHANGED vars
  BY <1>10 DEF vars, socket, session
<1> QED
  BY <1>1, <1>2, <1>3, <1>4, <1>5, <1>6, <1>7, <1>8, <1>9, <1>10
     DEF Next, LiveQuery, Client, Server

-----------------------------------------------------------------------------
(* The retention timers.                                                   *)
UnusedInv ==
  \A id \in DOMAIN tracker.subsets : RefsOf(tracker, id) = 0 => id \in timers

LEMMA UnusedDrops ==
  ASSUME UnusedInv, timers' = timers,
         \A x \in DOMAIN tracker'.subsets :
           RefsOf(tracker', x) = 0 => x \in DOMAIN tracker.subsets /\ RefsOf(tracker, x) = 0
  PROVE  UnusedInv'
BY DEF UnusedInv

LEMMA UnusedSame ==
  ASSUME UnusedInv, timers' = timers, SameSubsets(tracker, tracker')
  PROVE  UnusedInv'
BY UnusedDrops, SameRefs DEF SameSubsets

LEMMA StepUnused ==
  ASSUME SubsetsInv, RefInv, QuietInv, UnusedInv, GcTime = "finite", [Next]_vars
  PROVE  UnusedInv'
<1>1. CASE \E h \in Holders : Unload(h)
  <2>1. PICK h \in Holders : LetsGo(h)
    BY <1>1, UnloadInv
  <2>2. /\ DOMAIN tracker'.subsets \subseteq DOMAIN tracker.subsets
        /\ \A x : x # held[h] => RefsOf(tracker', x) = RefsOf(tracker, x)
        /\ timers' = timers \cup {held[h]}
    BY <2>1 DEF LetsGo, Drops
  <2> QED
    BY <2>2 DEF UnusedInv
<1>2. CASE \E h \in Holders, id \in Ids : Load(h, id)
  <2>1. PICK h \in Holders, id \in Ids : Loads(h, id)
    BY <1>2, LoadInv
  <2>2. timers' = timers \ {id} /\ (LoadRejected(id) \/ LoadAccepted(h, id))
    BY <2>1 DEF Loads
  <2>3. CASE LoadRejected(id)
    BY <2>2, <2>3 DEF LoadRejected, Drops, UnusedInv
  <2>4. CASE LoadAccepted(h, id)
    <3>1. /\ DOMAIN tracker'.subsets = DOMAIN tracker.subsets \cup {id}
          /\ RefsOf(tracker', id) = RefsOf(tracker, id) + 1
          /\ \A x \in DOMAIN tracker.subsets \ {id} : tracker'.subsets[x] = tracker.subsets[x]
      BY <2>4 DEF LoadAccepted, RetainOk
    <3>2. RefsOf(tracker, id) \in Nat
      BY NowIs, TrackerIs DEF SubsetsInv, Types
    <3>3. RefsOf(tracker', id) # 0
      BY <3>1, <3>2
    <3>4. \A x \in DOMAIN tracker.subsets \ {id} : RefsOf(tracker', x) = RefsOf(tracker, x)
      BY <3>1 DEF RefsOf
    <3> QED
      BY <2>2, <3>1, <3>3, <3>4 DEF UnusedInv
  <2> QED
    BY <2>2, <2>3, <2>4
<1>3. CASE Deliver
  <2>1. CASE Head(wire).type = "updates"
    <3>1. SameSubsets(tracker, tracker') /\ Receive(Head(wire))
      BY <1>3, <2>1, ReceiveInv
    <3> QED
      BY <3>1, UnusedSame DEF Receive
  <2>2. CASE Head(wire).type = "rows"
    <3> DEFINE h == Head(wire).holder
               id == call[h]
    <3>1. /\ Answered(Head(wire)) /\ h \in Holders /\ id \in Ids
          /\ InstallOk(id, Head(wire).rows, View')
      BY <1>3, <2>2, AnsweredInv
    <3>2. timers' = timers /\ View'.tracker = tracker'
      BY <3>1, Zenon DEF Answered, View
    <3>3. /\ \A x : RefsOf(tracker', x) = RefsOf(tracker, x)
          /\ DOMAIN tracker'.subsets = DOMAIN tracker.subsets \cup {id}
      BY <3>1, <3>2 DEF InstallOk, ReplaceOk
    <3>4. RefsOf(tracker, id) # 0
      <4>1. h \in HoldersOf(id)
        BY <3>1, SessionIs DEF RefInv, HoldersOf
      <4>2. IsFiniteSet(HoldersOf(id))
        BY HoldersFinite DEF HoldersOf
      <4>3. Cardinality(HoldersOf(id)) # 0
        BY <4>1, <4>2, FS_EmptySet
      <4> QED
        BY <3>1, <4>3 DEF RefInv
    <3> HIDE DEF id
    <3> QED
      BY <3>2, <3>3, <3>4 DEF UnusedInv
  <2>3. CASE Head(wire).type = "reloaded"
    BY <1>3, <2>3, HeadIs DEF Deliver, QuietInv, NoReload
  <2>4. CASE Head(wire).type = "history"
    BY <1>3, <2>4, CatchUpTracker, UnusedSame
  <2> QED
    BY <1>3, <2>1, <2>2, <2>3, <2>4, DeliverIs
<1>4. CASE Reconnect
  BY <1>4, UnusedSame, SameSubsetsRefl DEF Reconnect, rows
<1>5. CASE \E id \in Ids : Retired(id)
  <2>1. PICK id \in Ids : Expires(id)
    BY <1>5, RetiredInv
  <2>2. /\ timers' = timers \ {id} /\ \A x : RefsOf(tracker', x) = RefsOf(tracker, x)
        /\ DOMAIN tracker'.subsets = IF id \in DOMAIN tracker.subsets /\ RefsOf(tracker, id) = 0
                                     THEN DOMAIN tracker.subsets \ {id}
                                     ELSE DOMAIN tracker.subsets
    BY <2>1 DEF Expires, ExpireOk
  <2> QED
    BY <2>2 DEF UnusedInv
<1>6. CASE Handle
  BY <1>6, UnusedSame, SameSubsetsRefl DEF Handle, rows
<1>7. CASE \E b \in Batches : Push(b)
  BY <1>7, UnusedSame, SameSubsetsRefl DEF Push, rows
<1>8. CASE Drop \/ ConnectFails
  <2>1. PICK F : RejectsOf(F)
    BY <1>8, DropInv, ConnectFailsInv
  <2>2. timers' = timers /\ RejectOk(tracker, tracker', F)
    BY <2>1 DEF RejectsOf
  <2>3. \A x \in DOMAIN tracker'.subsets :
          RefsOf(tracker', x) = 0 => x \in DOMAIN tracker.subsets /\ RefsOf(tracker, x) = 0
    BY <2>2 DEF RejectOk
  <2> QED
    BY <2>2, <2>3, UnusedDrops
<1>9. CASE UNCHANGED vars
  BY <1>9, UnusedSame, SameSubsetsRefl DEF vars, rows
<1> QED
  BY <1>1, <1>2, <1>3, <1>4, <1>5, <1>6, <1>7, <1>8, <1>9
     DEF Next, LiveQuery, Client, Server

LEMMA InitQuiet ==
  ASSUME Init
  PROVE  QuietInv /\ UnusedInv
BY DEF Init, QuietInv, UnusedInv

(* A subset that no live query uses has a retention timer, so that its     *)
(* rows are not kept for ever (collection.ts: unloadSubset and             *)
(* scheduleRetention), when live queries wait for their subsets and the    *)
(* session need not reload them.                                           *)
THEOREM UnusedIsRetired ==
  ASSUME ~Impatient, NothingPruned
  PROVE  Spec => []UnusedExpire
<1> DEFINE Inv == SubsetsInv /\ RefInv /\ QuietInv /\ (GcTime = "finite" => UnusedInv)
<1>1. Init => Inv
  BY InitInv, InitRefs, InitQuiet
<1>2. Inv /\ [Next]_vars => Inv'
  BY StepInv, StepRefs, StepQuiet, StepUnused
<1>3. Inv => UnusedExpire
  BY DEF UnusedInv, UnusedExpire, RefsOf
<1> QED
  BY <1>1, <1>2, <1>3, PTL DEF Spec

-----------------------------------------------------------------------------
(***************************************************************************)
(* The rows of the shard.                                                  *)
(***************************************************************************)
Contents == [Keys -> Content]
NoRows == [k \in Keys |-> Gone]

Written(rows0, U) ==
  FoldLeft(LAMBDA view, c : [view EXCEPT ![c.key] = c.value], rows0, InOrder(U))

RowsIn(L, n) == Written(NoRows, {c \in L : c.seq <= n})
Between(L, m, n) == {c \in L : m < c.seq /\ c.seq <= n}

\* The last change of a row.
IsLast(c, U, k) == c \in U /\ c.key = k /\ \A d \in U : d.key = k => d.seq <= c.seq

IsWrite(t, s, n) ==
  t[0] = NoRows /\ \A i \in 1..n : t[i] = [t[i - 1] EXCEPT ![s[i].key] = s[i].value]
Writes(end, s, n) == \E t \in [0..n -> Contents] : IsWrite(t, s, n) /\ t[n] = end

LEMMA NoRowsIs == NoRows \in Contents
BY DEF NoRows, Contents, Content

LEMMA WriteTrace ==
  ASSUME NEW n \in Nat, NEW U, NEW s \in [1..n -> Entry], InOrder(U) = s
  PROVE  Writes(Written(NoRows, U), s, n)
<1> DEFINE put(v, c) == [v EXCEPT ![c.key] = c.value]
           step == [p \in Contents \X (1..n) |-> put(p[1], s[p[2]])]
<1>0. \A v \in Contents, i \in 1..n : put(v, s[i]) \in Contents
  <2> TAKE v \in Contents, i \in 1..n
  <2>1. s[i].key \in Keys /\ s[i].value \in Content
    BY EntryIs
  <2> QED
    BY <2>1 DEF Contents
<1>1. step \in [Contents \X (1..n) -> Contents]
  BY <1>0
<1>2. \A v \in Contents, i \in 1..n : step[<<v, i>>] = put(v, s[i])
  OBVIOUS
<1> HIDE DEF step
<1>3. PICK it \in [SUBSET (1..n) -> Contents] : IsFold(it, NoRows, step, n)
  BY <1>1, NoRowsIs, FoldExists
<1> DEFINE D(f) == [e \in SUBSET (DOMAIN s) |->
                      IF e = {} THEN NoRows
                      ELSE LET x == Max(e) IN put(f[e \ {x}], s[x])]
           E(f) == [e \in SUBSET (1..n) |->
                      IF e = {} THEN NoRows
                      ELSE put(f[e \ {Max(e)}], s[Max(e)])]
           fold == CHOOSE f : f = D(f)
<1>4. Written(NoRows, U) = fold[1..n]
  BY DEF Written, FoldLeft, MapThenFoldSet
<1> HIDE DEF put
<1>5. \A f : D(f) = E(f)
  BY Zenon
<1>6. it = E(it)
  <2>1. \A e \in SUBSET (1..n) : e # {} =>
          Max(e) \in 1..n /\ e \ {Max(e)} \in SUBSET (1..n)
    BY WithoutMax
  <2>2. ASSUME NEW e \in SUBSET (1..n)
        PROVE  it[e] = E(it)[e]
    <3>1. CASE e = {}
      BY <1>3, <3>1 DEF IsFold
    <3>2. CASE e # {}
      <4>1. it[e] = step[<<it[e \ {Max(e)}], Max(e)>>]
        BY <1>3, <3>2 DEF IsFold
      <4> QED
        BY <1>2, <1>3, <2>1, <4>1, <3>2
    <3> QED
      BY <3>1, <3>2
  <2> QED
    BY <1>3, <2>2
<1>7. fold = E(fold)
  <2> HIDE DEF D, E
  <2>1. \E f : f = D(f)
    BY <1>5, <1>6
  <2> QED
    BY <1>5, <2>1
<1> HIDE DEF fold
<1>8. fold[{}] = NoRows
  <2>1. {} \in SUBSET (1..n)
    OBVIOUS
  <2> QED
    BY <1>7, <2>1
<1>9. ASSUME NEW e \in SUBSET (1..n), e # {}, fold[e \ {Max(e)}] \in Contents
      PROVE  fold[e] = step[<<fold[e \ {Max(e)}], Max(e)>>]
  <2>1. Max(e) \in 1..n
    BY <1>9, WithoutMax
  <2>2. fold[e] = put(fold[e \ {Max(e)}], s[Max(e)])
    BY <1>7, <1>9
  <2> QED
    BY <1>2, <1>9, <2>1, <2>2
<1>10. FoldsOn(fold, Contents, NoRows, step, n)
  BY <1>8, <1>9 DEF FoldsOn
<1>11. EndsTrace(fold[1..n], Contents, NoRows, step, n)
  BY <1>1, <1>10, NoRowsIs, FoldTrace
<1>13. PICK t \in [0..n -> Contents] : IsTrace(t, NoRows, step, n) /\ t[n] = fold[1..n]
  BY <1>11 DEF EndsTrace
<1>12. \A i \in 1..n : t[i - 1] \in Contents
  OBVIOUS
<1>14. ASSUME NEW i \in 1..n
       PROVE  t[i] = put(t[i - 1], s[i])
  <2>1. t[i] = step[<<t[i - 1], i>>]
    BY <1>13 DEF IsTrace
  <2> QED
    BY <1>2, <1>12, <2>1
<1>15. IsWrite(t, s, n)
  BY <1>13, <1>14 DEF IsTrace, IsWrite, put
<1> QED
  BY <1>4, <1>13, <1>15 DEF Writes

\* A row is what its last change wrote.
LEMMA WrittenIs ==
  ASSUME NEW U \in SUBSET Entry, Numbered(U)
  PROVE  /\ Written(NoRows, U) \in Contents
         /\ \A k \in Keys : (\A c \in U : c.key # k) => Written(NoRows, U)[k] = Gone
         /\ \A c \in U : IsLast(c, U, c.key) => Written(NoRows, U)[c.key] = c.value
<1> DEFINE n == Cardinality(U)
           s == InOrder(U)
           end == Written(NoRows, U)
<1>1. /\ n \in Nat /\ s \in [1..n -> U]
      /\ \A i, j \in 1..n : s[i].seq < s[j].seq <=> i < j
      /\ \A c \in U : \E i \in 1..n : s[i] = c
  BY OrderIs
<1> HIDE DEF n
<1>2. Writes(end, s, n)
  <2>1. s \in [1..n -> Entry]
    BY <1>1
  <2> HIDE DEF s
  <2>2. InOrder(U) = s
    BY DEF s
  <2> QED
    BY <1>1, <2>1, <2>2, WriteTrace
<1> HIDE DEF s, end
<1>3. PICK t \in [0..n -> Contents] : IsWrite(t, s, n) /\ t[n] = end
  BY <1>2 DEF Writes
<1>4. /\ t[0] = NoRows
      /\ \A i \in 1..n : t[i] = [t[i - 1] EXCEPT ![s[i].key] = s[i].value]
  BY <1>3 DEF IsWrite
<1>0. \A i \in 1..n : s[i].key \in Keys /\ s[i].value \in Content
  BY <1>1, EntryIs
<1> DEFINE Good(i) ==
             /\ \A k \in Keys : (\A j \in 1..i : s[j].key # k) => t[i][k] = Gone
             /\ \A j \in 1..i : (\A m \in 1..i : s[m].key = s[j].key => m <= j)
                                  => t[i][s[j].key] = s[j].value
           bad == {i \in 0..n : ~Good(i)}
<1>5. Good(0)
  BY <1>4 DEF NoRows
<1>6. ASSUME NEW i \in 1..n, Good(i - 1)
      PROVE  Good(i)
  <2> DEFINE v == t[i - 1]
             w == t[i]
             u == s[i]
  <2>1. /\ v \in Contents /\ i - 1 \in 0..n /\ u.key \in Keys
    BY <1>0, <1>1, <1>3
  <2>2. w = [v EXCEPT ![u.key] = u.value]
    BY <1>4
  <2>4. /\ \A k \in Keys : (\A j \in 1..(i - 1) : s[j].key # k) => v[k] = Gone
        /\ \A j \in 1..(i - 1) : (\A m \in 1..(i - 1) : s[m].key = s[j].key => m <= j)
                                   => v[s[j].key] = s[j].value
    BY <1>6
  <2> HIDE DEF v, w, u
  <2>3. w[u.key] = u.value /\ \A k \in Keys \ {u.key} : w[k] = v[k]
    BY <2>1, <2>2 DEF Contents
  <2>6. ASSUME NEW k \in Keys, \A j \in 1..i : s[j].key # k
        PROVE  w[k] = Gone
    <3>1. k # u.key /\ \A j \in 1..(i - 1) : s[j].key # k
      BY <1>1, <2>6 DEF u
    <3> QED
      BY <2>3, <2>4, <3>1
  <2>7. ASSUME NEW j \in 1..i, \A m \in 1..i : s[m].key = s[j].key => m <= j
        PROVE  w[s[j].key] = s[j].value
    <3>1. CASE j = i
      BY <2>3, <3>1 DEF u
    <3>2. CASE j # i
      <4> DEFINE k == s[j].key
      <4>1. j \in 1..(i - 1) /\ i \in 1..i /\ j \in 1..n /\ ~(i <= j)
        BY <1>1, <3>2
      <4>2. k # u.key
        BY <2>7, <4>1 DEF u
      <4>3. v[k] = s[j].value
        <5>1. \A m \in 1..(i - 1) : m \in 1..i
          BY <1>1
        <5> QED
          BY <2>4, <2>7, <4>1, <5>1
      <4>4. k \in Keys
        BY <1>0, <4>1
      <4> QED
        BY <2>3, <4>2, <4>3, <4>4
    <3> QED
      BY <3>1, <3>2
  <2> QED
    BY <2>6, <2>7 DEF w
<1>9. end \in Contents
  BY <1>1, <1>3
<1> HIDE DEF Good
<1>7. Good(n)
  <2> SUFFICES ASSUME bad # {} PROVE FALSE
    BY <1>1
  <2>1. bad \in SUBSET Nat
    BY <1>1
  <2>2. PICK i \in bad : \A j \in bad : i <= j
    BY <2>1, LeastNumber
  <2>3. i # 0
    BY <1>5, <2>2
  <2>4. i \in 1..n /\ i - 1 \in 0..n /\ i - 1 \notin bad
    BY <1>1, <2>2, <2>3
  <2>5. Good(i - 1)
    BY <2>4
  <2> QED
    BY <1>6, <2>2, <2>4, <2>5
<1>8. /\ \A k \in Keys : (\A j \in 1..n : s[j].key # k) => end[k] = Gone
      /\ \A j \in 1..n : (\A m \in 1..n : s[m].key = s[j].key => m <= j)
                           => end[s[j].key] = s[j].value
  BY <1>3, <1>7 DEF Good
<1>10. ASSUME NEW k \in Keys, \A c \in U : c.key # k
       PROVE  end[k] = Gone
  BY <1>1, <1>8, <1>10
<1>11. ASSUME NEW c \in U, IsLast(c, U, c.key)
       PROVE  end[c.key] = c.value
  <2>1. PICK j \in 1..n : s[j] = c
    BY <1>1
  <2>2. ASSUME NEW m \in 1..n, s[m].key = s[j].key
        PROVE  m <= j
    <3>1. s[m] \in U /\ s[m].seq <= s[j].seq
      BY <1>1, <1>11, <2>1, <2>2 DEF IsLast
    <3>2. s[m].seq \in Nat /\ s[j].seq \in Nat
      BY <1>1, <2>1, <3>1 DEF Numbered
    <3>3. ~(s[j].seq < s[m].seq)
      BY <3>1, <3>2
    <3>4. ~(j < m)
      BY <1>1, <3>3
    <3> QED
      BY <1>1, <3>4
  <2> QED
    BY <1>8, <2>1, <2>2
<1> QED
  BY <1>9, <1>10, <1>11 DEF end

LEMMA LastIn ==
  ASSUME NEW U \in SUBSET Entry, NEW b \in U
  PROVE  \E c \in U : IsLast(c, U, b.key)
<1> DEFINE S == {c.seq : c \in {d \in U : d.key = b.key}}
<1>1. MaxSequence \in Nat /\ \A c \in U : c.seq \in Nat /\ c.seq <= MaxSequence
  BY EntryIs, SubsetsAssumption
<1>2. S \in SUBSET Nat /\ b.seq \in S /\ \A n \in S : n <= MaxSequence
  BY <1>1
<1>3. PICK m \in S : \A n \in S : n <= m
  BY <1>1, <1>2, GreatestNumber
<1>4. PICK c \in U : c.key = b.key /\ c.seq = m
  BY <1>3
<1> QED
  BY <1>3, <1>4 DEF IsLast

LEMMA PartIs ==
  ASSUME NEW L, LogOk(L), NEW n
  PROVE  LET U == {c \in L : c.seq <= n} IN U \in SUBSET Entry /\ Numbered(U)
BY NumberedSubset DEF LogOk

LEMMA RowsType ==
  ASSUME NEW L, LogOk(L), NEW n
  PROVE  RowsIn(L, n) \in Contents
BY PartIs, WrittenIs DEF RowsIn

LEMMA BetweenIs ==
  ASSUME NEW L, LogOk(L), NEW m \in Nat, NEW n \in Nat
  PROVE  /\ Between(L, m, n) \in SUBSET L /\ Between(L, m, n) \in SUBSET Entry
         /\ Numbered(Between(L, m, n))
BY NumberedSubset DEF LogOk, Between

(* The updates between m and n: what they write is as it was at n, and     *)
(* what they do not write has not changed since m.                         *)
LEMMA RowsLast ==
  ASSUME NEW L, LogOk(L), NEW m \in Nat, NEW n \in Nat, m <= n,
         NEW k, NEW c, IsLast(c, Between(L, m, n), k)
  PROVE  RowsIn(L, n)[k] = c.value
<1> DEFINE U == {d \in L : d.seq <= n}
<1>1. U \in SUBSET Entry /\ Numbered(U)
  BY PartIs
<1>2. \A d \in L : d.seq \in Nat
  BY EntryIs DEF LogOk
<1>3. c \in U /\ c.key = k /\ m < c.seq
  BY DEF IsLast, Between
<1>4. ASSUME NEW d \in U, d.key = k
      PROVE  d.seq <= c.seq
  <2>1. CASE m < d.seq
    <3>1. d \in Between(L, m, n)
      BY <2>1 DEF Between
    <3> QED
      BY <1>4, <3>1 DEF IsLast
  <2>2. CASE ~(m < d.seq)
    BY <1>2, <1>3, <2>2
  <2> QED
    BY <2>1, <2>2
<1>5. IsLast(c, U, c.key)
  BY <1>3, <1>4 DEF IsLast
<1> HIDE DEF U
<1>6. Written(NoRows, U)[c.key] = c.value
  BY <1>1, <1>3, <1>5, WrittenIs
<1> QED
  BY <1>3, <1>6 DEF RowsIn, U

LEMMA RowsSame ==
  ASSUME NEW L, LogOk(L), NEW m \in Nat, NEW n \in Nat, m <= n,
         NEW k \in Keys, \A c \in Between(L, m, n) : c.key # k
  PROVE  RowsIn(L, n)[k] = RowsIn(L, m)[k]
<1> DEFINE A(i) == {d \in L : d.seq <= i}
<1>1. /\ A(m) \in SUBSET Entry /\ Numbered(A(m))
      /\ A(n) \in SUBSET Entry /\ Numbered(A(n))
  BY PartIs
<1>2. \A d \in L : d.seq \in Nat
  BY EntryIs DEF LogOk
<1>3. A(m) \in SUBSET A(n)
  BY <1>2
<1>4. \A d \in A(n) : d.key = k => d \in A(m)
  BY <1>2 DEF Between
<1>5. RowsIn(L, m) = Written(NoRows, A(m)) /\ RowsIn(L, n) = Written(NoRows, A(n))
  BY DEF RowsIn
<1> HIDE DEF A
<1>6. CASE \E b \in A(n) : b.key = k
  <2>1. PICK b \in A(n) : b.key = k
    BY <1>6
  <2>2. PICK c \in A(n) : IsLast(c, A(n), k)
    BY <1>1, <2>1, LastIn
  <2>3. c.key = k /\ c \in A(m)
    BY <1>4, <2>2 DEF IsLast
  <2>4. IsLast(c, A(n), c.key) /\ IsLast(c, A(m), c.key)
    BY <1>3, <2>2, <2>3 DEF IsLast
  <2>5. Written(NoRows, A(n))[c.key] = c.value
    BY <1>1, <2>2, <2>4, WrittenIs
  <2>6. Written(NoRows, A(m))[c.key] = c.value
    BY <1>1, <2>3, <2>4, WrittenIs
  <2> QED
    BY <1>5, <2>3, <2>5, <2>6
<1>7. CASE \A b \in A(n) : b.key # k
  <2>1. \A b \in A(m) : b.key # k
    BY <1>3, <1>7
  <2>2. Written(NoRows, A(n))[k] = Gone
    BY <1>1, <1>7, WrittenIs
  <2>3. Written(NoRows, A(m))[k] = Gone
    BY <1>1, <2>1, WrittenIs
  <2> QED
    BY <1>5, <2>2, <2>3
<1> QED
  BY <1>6, <1>7

\* A log that has grown has the same rows and changes up to its old end.
LEMMA RowsGrow ==
  ASSUME NEW L, LogOk(L), NEW M, NEW New, Grows(L, M, New),
         NEW n \in Nat, n <= ReadWatermark(L)
  PROVE  RowsIn(M, n) = RowsIn(L, n) /\ \A m : Between(M, m, n) = Between(L, m, n)
<1>1. /\ ReadWatermark(L) \in Nat /\ M = L \cup New
      /\ \A c \in New : c.seq \in Nat /\ c.seq > ReadWatermark(L)
  <2>1. ReadWatermark(L) \in Nat
    BY TopIs DEF LogOk
  <2>2. M \in SUBSET Entry
    BY DEF Grows, LogOk
  <2> QED
    BY <2>1, <2>2, EntryIs DEF Grows
<1>2. \A c \in New : ~(c.seq <= n)
  BY <1>1
<1>3. {c \in M : c.seq <= n} = {c \in L : c.seq <= n}
  BY <1>1, <1>2
<1>4. \A m : Between(M, m, n) = Between(L, m, n)
  BY <1>1, <1>2 DEF Between
<1> QED
  BY <1>3, <1>4 DEF RowsIn

LEMMA RowsAtIs ==
  ASSUME NEW n
  PROVE  RowsAt(n) = RowsIn(log, n)
BY DEF RowsAt, RowsIn, Written, NoRows

-----------------------------------------------------------------------------
(***************************************************************************)
(* Messages and the moments of the log at which they were sent.            *)
(***************************************************************************)
AcceptedIn(L, x, n) == {k \in Keys : RowsIn(L, n)[k] \in Accepts[x]}
ReadIn(L, x, n) == [k \in AcceptedIn(L, x, n) |-> RowsIn(L, n)[k]]

\* A change is in a broadcast on the wire w after the message at i.
Behind(w, i, c) ==
  \E j \in DOMAIN w : i < j /\ w[j].type = "updates" /\ c \in w[j].updates

\* The message at i was sent when the log L had reached n.
Sent(L, w, i, n) ==
  /\ n \in Nat /\ n <= ReadWatermark(L)
  /\ \A j \in DOMAIN w : w[j].type = "updates" =>
       /\ j < i => w[j].watermark <= n
       /\ i < j => \A c \in w[j].updates : c.seq > n
  /\ \A c \in L : c.seq > n => Behind(w, i, c)

\* A page of changes from a cursor on, sent at n.
PageOk(L, from, a, n) ==
  LET next == Max({from, a.cursors[Collection]}) IN
  /\ a.type = "changes" /\ next \in Nat /\ from <= next /\ next <= n
  /\ ~a.hasMore => next = n
  /\ a.updates = Between(L, from, next)

\* What a message tells of the log at n.
Tells(L, from, reading, m, n) ==
  \/ m.type = "updates" /\ m.watermark = n /\ \A c \in m.updates : c.seq <= n
  \/ m.type = "rows" /\ m.rows = ReadIn(L, reading[m.holder], n)
  \/ m.type = "history" /\ PageOk(L, from, m.answer, n)

\* Neither the session nor a broadcast that it holds back is ahead of n.
Past(from, B, n) ==
  /\ from \in Nat /\ from <= n
  /\ \A b \in B : b.watermark \in Nat /\ b.watermark <= n

MomentOk(i, n) ==
  /\ Past(cursor, Range(buffered), n) /\ Sent(log, wire, i, n)
  /\ Tells(log, cursor, call, wire[i], n)

StreamInv ==
  /\ Past(cursor, Range(buffered), Watermark)
  /\ \A i \in DOMAIN wire : \E n \in Nat : MomentOk(i, n)
  /\ state = "synchronized" => \A c \in log : c.seq > cursor => Behind(wire, 0, c)

\* Messages were sent in the order in which they arrive.
LEMMA SentInOrder ==
  ASSUME LogOk(log), NEW i \in Nat, NEW j \in Nat, i <= j, NEW m, NEW n,
         Sent(log, wire, i, m), Sent(log, wire, j, n), DOMAIN wire \in SUBSET Nat
  PROVE  m <= n
<1> SUFFICES ASSUME ~(m <= n)
             PROVE  FALSE
  OBVIOUS
<1>1. m \in Nat /\ n \in Nat /\ m <= ReadWatermark(log) /\ ReadWatermark(log) \in Nat
  BY TopIs DEF Sent, LogOk
<1>2. m \in 1..ReadWatermark(log)
  BY <1>1
<1>3. PICK c \in log : c.seq = m
  BY <1>2 DEF LogOk
<1>4. PICK l \in DOMAIN wire : j < l /\ wire[l].type = "updates" /\ c \in wire[l].updates
  BY <1>1, <1>3 DEF Sent, Behind
<1>5. i < l
  BY <1>4
<1>6. c.seq > m
  BY <1>4, <1>5 DEF Sent
<1> QED
  BY <1>1, <1>3, <1>6

\* A page of a history that keeps everything.
PageOf(from) ==
  ReadChanges(log, [s \in {Collection} |-> Watermark], [s \in {Collection} |-> from],
              ChangesLimit)

LEMMA PageIs ==
  ASSUME LogOk(log), NEW at \in Nat, at <= Watermark
  PROVE  PageOk(log, at, PageOf(at), Watermark)
<1> DEFINE W == Watermark
           latest == [s \in {Collection} |-> W]
           req == [s \in {Collection} |-> at]
           stale == {s \in DOMAIN req : IsCursorStale(log, latest, s, req[s])}
           wanted == {c \in log : c.scope \in DOMAIN req /\ c.seq > req[c.scope]}
           found == FirstRows(wanted, ChangesLimit + 1)
           page == FirstRows(found, ChangesLimit)
           more == Cardinality(found) > ChangesLimit
           last(s) == IF InScope(page, s) = {} THEN req[s]
                      ELSE Max(SeqNumbers(InScope(page, s)))
           p == PageOf(at)
           next == Max({at, p.cursors[Collection]})
<1>1. /\ log \in SUBSET Entry /\ W \in Nat /\ ReadWatermark(log) = W
      /\ \A c \in log : c.seq \in Nat /\ c.seq <= W
  BY TopIs DEF LogOk, Watermark
<1>2. DOMAIN req = {Collection} /\ req[Collection] = at /\ latest[Collection] = Watermark
  OBVIOUS
<1>3. p = IF stale # {}
          THEN [type |-> "resyncRequired", collections |-> stale, watermark |-> W]
          ELSE [type |-> "changes", updates |-> page, watermark |-> W,
                hasMore |-> more,
                cursors |-> [s \in DOMAIN req |-> IF more THEN last(s) ELSE W]]
  BY <1>1, Zenon DEF PageOf, ReadChanges, SelectChanges
<1> HIDE DEF p
<1>4. stale = {}
  <2> HIDE DEF latest, req
  <2>1. ~IsCursorStale(log, latest, Collection, at)
    BY <1>2, NotStale
  <2> QED
    BY <1>2, <2>1
<1>5. /\ p.type = "changes" /\ p.updates = page /\ p.hasMore = more
      /\ p.cursors[Collection] = IF more THEN last(Collection) ELSE W
  BY <1>2, <1>3, <1>4
<1>6. \A c \in log : c.scope = Collection
  BY <1>1, EntryIs
<1>7. wanted = Between(log, at, W)
  BY <1>1, <1>2, <1>6 DEF Between
<1>8. wanted \in SUBSET log
  OBVIOUS
<1> HIDE DEF wanted, stale, W, latest, req
<1>9. Numbered(wanted) /\ ChangesLimit \in Nat /\ ChangesLimit + 1 \in Nat
  BY <1>8, NumberedSubset, SubsetsAssumption DEF LogOk
<1>10. /\ found \in SUBSET wanted
       /\ \A c \in found, d \in wanted : d.seq <= c.seq => d \in found
       /\ Cardinality(wanted) \in Nat
       /\ Cardinality(found) = IF Cardinality(wanted) <= ChangesLimit + 1
                               THEN Cardinality(wanted) ELSE ChangesLimit + 1
       /\ Cardinality(wanted) <= ChangesLimit + 1 => found = wanted
  BY <1>9, FirstRowsAre
<1> HIDE DEF found
<1>11. Numbered(found)
  BY <1>9, <1>10, NumberedSubset
<1>12. /\ page \in SUBSET found
       /\ \A c \in page, d \in found : d.seq <= c.seq => d \in page
       /\ Cardinality(found) <= ChangesLimit => page = found
  BY <1>9, <1>11, FirstRowsAre
<1> HIDE DEF page
<1>13. CASE ~more
  <2>1. page = Between(log, at, W)
    BY <1>7, <1>9, <1>10, <1>12, <1>13
  <2>2. next = W
    BY <1>1, <1>5, <1>13, LargerIs DEF W
  <2> HIDE DEF next
  <2> QED
    BY <1>1, <1>5, <2>1, <2>2 DEF PageOk, p, W, next
<1>14. CASE more
  <2>1. \A c \in page : c \in log /\ at < c.seq /\ c.seq <= W /\ c.scope = Collection
    BY <1>6, <1>7, <1>10, <1>12 DEF Between
  <2>2. InScope(page, Collection) = page
    BY <2>1 DEF InScope
  <2>3. CASE page = {}
    <3>1. next = at
      BY <1>2, <1>5, <1>14, <2>2, <2>3, LargerIs
    <3>2. Between(log, at, at) = {}
      BY <1>1 DEF Between
    <3>3. next \in Nat /\ at <= next /\ next <= W
      BY <1>1, <3>1 DEF W
    <3>4. p.updates = Between(log, at, next)
      BY <1>5, <2>3, <3>1, <3>2
    <3> HIDE DEF next, more
    <3> QED
      BY <1>5, <1>14, <3>3, <3>4 DEF PageOk, p, W, next
  <2>4. CASE page # {}
    <3> DEFINE S == SeqNumbers(page)
               g == Max(S)
    <3>1. S \in SUBSET Nat /\ S # {} /\ \A x \in S : x <= W
      BY <1>1, <2>1, <2>4 DEF SeqNumbers
    <3>2. g \in S /\ \A x \in S : x <= g
      BY <1>1, <3>1, MaxIsGreatest
    <3>3. PICK e \in page : e.seq = g
      BY <3>2 DEF SeqNumbers
    <3>4. \A c \in page : c.seq \in S
      BY DEF SeqNumbers
    <3> HIDE DEF S, g
    <3>5. g \in Nat /\ at < g /\ g <= W
      BY <2>1, <3>1, <3>2, <3>3
    <3>6. next = g
      BY <1>5, <1>14, <2>2, <2>4, <3>5, LargerIs DEF g, S
    <3>7. page = Between(log, at, g)
      <4>1. \A c \in page : c \in Between(log, at, g)
        BY <2>1, <3>2, <3>4 DEF Between
      <4>2. ASSUME NEW c \in Between(log, at, g)
            PROVE  c \in page
        <5>1. c \in log /\ at < c.seq /\ c.seq <= g
          BY DEF Between
        <5>2. c.seq \in Nat /\ c.seq <= W
          BY <1>1, <5>1
        <5>3. c \in wanted
          BY <1>7, <5>1, <5>2 DEF Between
        <5>4. c \in found
          BY <1>10, <1>12, <3>3, <5>1, <5>3
        <5> QED
          BY <1>12, <3>3, <5>1, <5>4
      <4> QED
        BY <4>1, <4>2
    <3>8. next \in Nat /\ at <= next /\ next <= W
      BY <3>5, <3>6
    <3>9. p.updates = Between(log, at, next)
      BY <1>5, <3>6, <3>7
    <3> HIDE DEF next, more
    <3> QED
      BY <1>5, <1>14, <3>8, <3>9 DEF PageOk, p, W, next
  <2> QED
    BY <2>3, <2>4
<1> QED
  BY <1>13, <1>14

LEMMA AnswerTells ==
  ASSUME SubsetsInv, reloading = None, NothingPruned, cursor <= Watermark,
         NEW who \in Range(asked)
  PROVE  Answer(who).type # "updates" /\ Tells(log, cursor, call, Answer(who), Watermark)
<1> DEFINE m == Answer(who)
<1>1. LogOk(log) /\ cursor \in Nat /\ who \in Askers
  BY NowIs, SeqIs DEF SubsetsInv, Types, PlacesOk
<1>2. CASE who # Session
  <2>1. m = [type |-> "rows", holder |-> who, rows |-> ReadRows(call[who])]
    BY <1>2 DEF Answer
  <2>2. m.type = "rows" /\ m.holder = who /\ m.rows = ReadRows(call[who])
    BY <2>1
  <2>3. ReadRows(call[who]) = ReadIn(log, call[who], Watermark)
    BY RowsAtIs DEF ReadRows, ReadIn, AcceptedIn
  <2> HIDE DEF m
  <2> QED
    BY <2>2, <2>3 DEF Tells, m
<1>3. CASE who = Session
  <2>1. m = [type |-> "history", answer |-> ReadChanges(Changes,
               [s \in {Collection} |-> Watermark], [s \in {Collection} |-> cursor],
               ChangesLimit)]
    BY <1>3, Zenon DEF Answer
  <2>2. m = [type |-> "history", answer |-> PageOf(cursor)]
    BY <1>1, <2>1, AllKept DEF PageOf
  <2>3. m.type = "history" /\ m.answer = PageOf(cursor)
    BY <2>2
  <2> HIDE DEF m
  <2>4. PageOk(log, cursor, m.answer, Watermark)
    BY <1>1, <2>3, PageIs
  <2> QED
    BY <2>3, <2>4 DEF Tells, m
<1> QED
  BY <1>2, <1>3

LEMMA WireIs ==
  ASSUME SubsetsInv
  PROVE  /\ wire \in Seq(Range(wire)) /\ Len(wire) \in Nat /\ DOMAIN wire = 1..Len(wire)
         /\ DOMAIN wire \in SUBSET Nat
         /\ LogOk(log) /\ Watermark = ReadWatermark(log) /\ Watermark \in Nat
         /\ \A c \in log : c.seq \in Nat /\ c.seq <= Watermark
         /\ \A i \in DOMAIN wire : MessageOk(log, wire[i])
<1>1. wire \in Seq(Range(wire)) /\ LogOk(log) /\ \A i \in DOMAIN wire : MessageOk(log, wire[i])
  BY DEF SubsetsInv, MessagesOk
<1>2. Len(wire) \in Nat /\ DOMAIN wire = 1..Len(wire)
  BY <1>1, SeqIs
<1>3. Watermark = ReadWatermark(log) /\ Watermark \in Nat
      /\ \A c \in log : c.seq \in Nat /\ c.seq <= Watermark
  BY <1>1, TopIs DEF LogOk, Watermark
<1> QED
  BY <1>1, <1>2, <1>3

LEMMA BehindTail ==
  ASSUME NEW S, NEW w \in Seq(S), w # <<>>, NEW i \in Nat, NEW c
  PROVE  Behind(Tail(w), i, c) <=> Behind(w, i + 1, c)
<1> DEFINE r == Tail(w)
<1>1. /\ DOMAIN r = 1..(Len(w) - 1) /\ Len(w) \in Nat /\ DOMAIN w = 1..Len(w)
      /\ \A j \in DOMAIN r : j + 1 \in DOMAIN w /\ r[j] = w[j + 1]
  BY SeqIs, TailIs
<1> HIDE DEF r
<1>2. ASSUME Behind(r, i, c)
      PROVE  Behind(w, i + 1, c)
  <2>1. PICK j \in DOMAIN r : i < j /\ r[j].type = "updates" /\ c \in r[j].updates
    BY <1>2 DEF Behind
  <2>2. j + 1 \in DOMAIN w /\ i + 1 < j + 1 /\ r[j] = w[j + 1]
    BY <1>1, <2>1
  <2> QED
    BY <2>1, <2>2 DEF Behind
<1>3. ASSUME Behind(w, i + 1, c)
      PROVE  Behind(r, i, c)
  <2>1. PICK j \in DOMAIN w : i + 1 < j /\ w[j].type = "updates" /\ c \in w[j].updates
    BY <1>3 DEF Behind
  <2>2. j - 1 \in DOMAIN r /\ i < j - 1 /\ (j - 1) + 1 = j
    BY <1>1, <2>1
  <2>3. r[j - 1] = w[j]
    BY <1>1, <2>2
  <2> QED
    BY <2>1, <2>2, <2>3 DEF Behind
<1> QED
  BY <1>2, <1>3 DEF r

LEMMA SentTail ==
  ASSUME NEW S, NEW w \in Seq(S), w # <<>>, NEW i \in Nat, NEW L, NEW n,
         Sent(L, w, i + 1, n)
  PROVE  Sent(L, Tail(w), i, n)
<1> DEFINE r == Tail(w)
<1>1. /\ DOMAIN r = 1..(Len(w) - 1) /\ Len(w) \in Nat /\ DOMAIN w = 1..Len(w)
      /\ \A j \in DOMAIN r : j + 1 \in DOMAIN w /\ r[j] = w[j + 1]
  BY SeqIs, TailIs
<1>2. \A c \in L : c.seq > n => Behind(r, i, c)
  BY BehindTail DEF Sent
<1> HIDE DEF r
<1>3. ASSUME NEW j \in DOMAIN r, r[j].type = "updates"
      PROVE  /\ j < i => r[j].watermark <= n
             /\ i < j => \A c \in r[j].updates : c.seq > n
  <2>1. j + 1 \in DOMAIN w /\ r[j] = w[j + 1] /\ (j < i => j + 1 < i + 1)
        /\ (i < j => i + 1 < j + 1)
    BY <1>1
  <2> QED
    BY <1>3, <2>1 DEF Sent
<1> QED
  BY <1>2, <1>3 DEF Sent, r

LEMMA StreamTail ==
  ASSUME SubsetsInv, StreamInv, wire # <<>>, wire' = Tail(wire), log' = log,
         NEW n, MomentOk(1, n), Past(cursor', Range(buffered'), n),
         \A i \in DOMAIN wire : i # 1 /\ wire[i].type = "rows" =>
           call'[wire[i].holder] = call[wire[i].holder],
         \A i \in DOMAIN wire : i # 1 /\ wire[i].type = "history" => cursor' = cursor,
         state' = "synchronized" =>
           \A c \in log : c.seq > cursor' => Behind(wire, 1, c)
  PROVE  StreamInv'
<1>1. /\ wire \in Seq(Range(wire)) /\ DOMAIN wire \in SUBSET Nat /\ LogOk(log)
      /\ Watermark = ReadWatermark(log) /\ Watermark \in Nat
  BY WireIs
<1>2. \A i \in DOMAIN wire' : i \in Nat /\ i + 1 \in DOMAIN wire /\ i + 1 # 1 /\ 1 <= i + 1
                              /\ wire'[i] = wire[i + 1]
  BY <1>1, TailIs
<1>3. n \in Nat /\ n <= Watermark
  BY <1>1 DEF MomentOk, Sent
<1>4. ASSUME NEW i \in DOMAIN wire'
      PROVE  \E m \in Nat : MomentOk(i, m)'
  <2>1. PICK m \in Nat : MomentOk(i + 1, m)
    BY <1>2 DEF StreamInv
  <2>2. n <= m
    BY <1>1, <1>2, <2>1, SentInOrder DEF MomentOk
  <2>3. Past(cursor', Range(buffered'), m)
    BY <1>3, <2>2 DEF Past
  <2>4. Sent(log, wire', i, m)
    BY <1>1, <1>2, <2>1, SentTail DEF MomentOk
  <2>5. Tells(log, cursor, call, wire[i + 1], m)
    BY <2>1 DEF MomentOk
  <2>6. Tells(log, cursor', call', wire'[i], m)
    BY <1>2, <2>5 DEF Tells
  <2> QED
    BY <2>3, <2>4, <2>6 DEF MomentOk
<1>5. Past(cursor', Range(buffered'), Watermark')
  BY <1>1, <1>3 DEF Past, Watermark
<1>6. state' = "synchronized" =>
        \A c \in log : c.seq > cursor' => Behind(wire', 0, c)
  <2>1. \A c : Behind(wire', 0, c) <=> Behind(wire, 0 + 1, c)
    BY <1>1, BehindTail
  <2> QED
    BY <2>1
<1> QED
  BY <1>4, <1>5, <1>6 DEF StreamInv

LEMMA StreamStays ==
  ASSUME StreamInv, wire' = wire, log' = log, cursor' = cursor, buffered' = buffered,
         state' = "synchronized" => state = "synchronized",
         \A i \in DOMAIN wire : wire[i].type = "rows" =>
           call'[wire[i].holder] = call[wire[i].holder]
  PROVE  StreamInv'
<1>1. ASSUME NEW i \in DOMAIN wire, NEW n \in Nat, MomentOk(i, n)
      PROVE  MomentOk(i, n)'
  <2>1. Tells(log, cursor, call', wire[i], n)
    BY <1>1 DEF MomentOk, Tells
  <2> QED
    BY <1>1, <2>1 DEF MomentOk
<1> QED
  BY <1>1 DEF StreamInv, Watermark

LEMMA StreamCut ==
  ASSUME StreamInv, wire' = <<>>, log' = log, cursor' = cursor, buffered' = buffered,
         state' # "synchronized"
  PROVE  StreamInv'
<1>1. DOMAIN wire' = {}
  OBVIOUS
<1> QED
  BY <1>1 DEF StreamInv, Watermark

LEMMA BehindAppend ==
  ASSUME NEW S, NEW w \in Seq(S), NEW m \in S, NEW i \in Nat, NEW c
  PROVE  /\ Behind(w, i, c) => Behind(Append(w, m), i, c)
         /\ i <= Len(w) /\ m.type = "updates" /\ c \in m.updates => Behind(Append(w, m), i, c)
         /\ Behind(Append(w, m), i, c) /\ (m.type # "updates" \/ c \notin m.updates)
              => Behind(w, i, c)
<1> DEFINE r == Append(w, m)
<1>1. /\ Len(w) \in Nat /\ DOMAIN w = 1..Len(w) /\ DOMAIN r = 1..(Len(w) + 1)
      /\ \A j \in DOMAIN w : r[j] = w[j]
      /\ r[Len(w) + 1] = m
  BY SeqIs, AppendIs
<1> HIDE DEF r
<1>2. ASSUME Behind(w, i, c)
      PROVE  Behind(r, i, c)
  <2>1. PICK j \in DOMAIN w : i < j /\ w[j].type = "updates" /\ c \in w[j].updates
    BY <1>2 DEF Behind
  <2>2. j \in DOMAIN r /\ r[j] = w[j]
    BY <1>1
  <2> QED
    BY <2>1, <2>2 DEF Behind
<1>3. ASSUME i <= Len(w), m.type = "updates", c \in m.updates
      PROVE  Behind(r, i, c)
  <2>1. Len(w) + 1 \in DOMAIN r /\ i < Len(w) + 1
    BY <1>1, <1>3
  <2> QED
    BY <1>1, <1>3, <2>1 DEF Behind
<1>4. ASSUME Behind(r, i, c), m.type # "updates" \/ c \notin m.updates
      PROVE  Behind(w, i, c)
  <2>1. PICK j \in DOMAIN r : i < j /\ r[j].type = "updates" /\ c \in r[j].updates
    BY <1>4 DEF Behind
  <2>2. j # Len(w) + 1
    BY <1>1, <1>4, <2>1
  <2>3. j \in DOMAIN w /\ r[j] = w[j]
    BY <1>1, <2>1, <2>2
  <2> QED
    BY <2>1, <2>3 DEF Behind
<1> QED
  BY <1>2, <1>3, <1>4 DEF r

\* The shard sends an answer.
LEMMA StreamAnswer ==
  ASSUME SubsetsInv, StreamInv, NEW m, wire' = Append(wire, m), m.type # "updates",
         Tells(log, cursor, call, m, Watermark),
         UNCHANGED <<log, cursor, buffered, state, call>>
  PROVE  StreamInv'
<1> DEFINE S == Range(wire) \cup {m}
           r == Append(wire, m)
<1>1. /\ wire \in Seq(Range(wire)) /\ LogOk(log) /\ DOMAIN wire = 1..Len(wire)
      /\ Watermark = ReadWatermark(log) /\ Watermark \in Nat /\ Len(wire) \in Nat
      /\ (\A c \in log : c.seq \in Nat /\ c.seq <= Watermark)
      /\ (\A i \in DOMAIN wire : MessageOk(log, wire[i]))
  BY WireIs
<1>21. PICK last \in Nat : last = Len(wire) + 1
  BY <1>1
<1>2. wire \in Seq(S) /\ m \in S
  BY <1>1
<1> HIDE DEF S
<1>3. /\ DOMAIN r = 1..(Len(wire) + 1) /\ r[last] = m
      /\ \A i \in DOMAIN wire : r[i] = wire[i]
  BY <1>2, <1>21, AppendIs
<1>4. \A i \in Nat : \A c : Behind(wire, i, c) => Behind(r, i, c)
  BY <1>2, BehindAppend
<1> HIDE DEF r
<1>5. \A j \in DOMAIN r : r[j].type = "updates" => j \in DOMAIN wire /\ r[j] = wire[j]
  BY <1>1, <1>21, <1>3
<1>6. ASSUME NEW i \in DOMAIN wire, NEW n \in Nat, MomentOk(i, n)
      PROVE  MomentOk(i, n)'
  <2>1. i \in Nat
    BY <1>1
  <2>2. Sent(log, r, i, n)
    BY <1>4, <1>5, <1>6, <2>1 DEF MomentOk, Sent
  <2>3. Tells(log, cursor, call, r[i], n)
    BY <1>3, <1>6 DEF MomentOk
  <2> QED
    BY <1>6, <2>2, <2>3 DEF MomentOk, r
<1>7. ASSUME NEW n \in Nat, n = Watermark
      PROVE  MomentOk(last, n)'
  <2>1. ASSUME NEW j \in DOMAIN r, r[j].type = "updates"
        PROVE  r[j].watermark <= n /\ ~(last < j)
    <3>1. j \in DOMAIN wire /\ r[j] = wire[j] /\ MessageOk(log, wire[j])
      BY <1>1, <1>21, <1>5, <2>1
    <3>2. wire[j].watermark <= Watermark
      BY <1>1, <2>1, <3>1 DEF MessageOk, UpdatesOk
    <3> QED
      BY <1>1, <1>7, <1>21, <3>1, <3>2
  <2>2. \A c \in log : ~(c.seq > n)
    BY <1>1, <1>7
  <2>3. Sent(log, r, last, n)
    BY <1>1, <1>7, <2>1, <2>2 DEF Sent
  <2>4. Past(cursor, Range(buffered), n)
    BY <1>7 DEF StreamInv
  <2>5. Tells(log, cursor, call, r[last], n)
    BY <1>3, <1>7
  <2> QED
    BY <2>3, <2>4, <2>5 DEF MomentOk, r
<1>8. ASSUME NEW i \in DOMAIN wire'
      PROVE  \E n \in Nat : MomentOk(i, n)'
  <2>1. i \in DOMAIN wire \/ i = last
    BY <1>1, <1>21, <1>3, <1>8 DEF r
  <2>2. CASE i \in DOMAIN wire
    BY <1>6, <2>2 DEF StreamInv
  <2>3. CASE i = last
    <3>1. PICK n \in Nat : n = Watermark
      BY <1>1
    <3> QED
      BY <1>7, <2>3, <3>1
  <2> QED
    BY <2>1, <2>2, <2>3
<1>9. /\ Past(cursor, Range(buffered), Watermark)'
      /\ (state = "synchronized" => \A c \in log : c.seq > cursor => Behind(wire, 0, c))'
  BY <1>4 DEF StreamInv, Watermark, r
<1> QED
  BY <1>8, <1>9 DEF StreamInv

LEMMA PastGrows ==
  ASSUME NEW f, NEW B, NEW m \in Nat, NEW n \in Nat, m <= n, Past(f, B, m)
  PROVE  Past(f, B, n)
BY DEF Past

\* The shard sends a broadcast of the updates with which the log grows.
LEMMA StreamPush ==
  ASSUME SubsetsInv, StreamInv, NEW New, Grows(log, log', New),
         NEW m, m.type = "updates", m.updates = New, m.watermark = Watermark',
         wire' = Append(wire, m), UNCHANGED <<cursor, buffered, state, call>>
  PROVE  StreamInv'
<1> DEFINE S == Range(wire) \cup {m}
           r == Append(wire, m)
           M == log'
<1>1. /\ wire \in Seq(Range(wire)) /\ LogOk(log) /\ DOMAIN wire = 1..Len(wire)
      /\ Watermark = ReadWatermark(log) /\ Watermark \in Nat /\ Len(wire) \in Nat
      /\ (\A c \in log : c.seq \in Nat /\ c.seq <= Watermark)
      /\ (\A i \in DOMAIN wire : MessageOk(log, wire[i]))
  BY WireIs
<1>21. PICK last \in Nat : last = Len(wire) + 1
  BY <1>1
<1>2. wire \in Seq(S) /\ m \in S
  BY <1>1
<1> HIDE DEF S
<1>3. /\ DOMAIN r = 1..(Len(wire) + 1) /\ r[last] = m
      /\ \A i \in DOMAIN wire : r[i] = wire[i]
  BY <1>2, <1>21, AppendIs
<1>4. \A i \in Nat : \A c : Behind(wire, i, c) => Behind(r, i, c)
  BY <1>2, BehindAppend
<1>5. \A i \in Nat : \A c \in New : i <= Len(wire) => Behind(r, i, c)
  BY <1>2, BehindAppend
<1> HIDE DEF r
<1>6. /\ Watermark' = ReadWatermark(M) /\ Watermark' \in Nat /\ Watermark < Watermark'
      /\ M = log \cup New /\ LogOk(M)
      /\ (\A c \in M : c.seq \in Nat /\ c.seq <= Watermark')
      /\ (\A c \in New : c.seq > Watermark)
  <2>1. Watermark' = ReadWatermark(M)
    BY DEF Watermark
  <2>2. LogOk(M) /\ M = log \cup New /\ ReadWatermark(log) < ReadWatermark(M)
        /\ \A c \in New : c.seq > ReadWatermark(log)
    BY DEF Grows
  <2>3. ReadWatermark(M) \in Nat /\ \A c \in M : c.seq \in Nat /\ c.seq <= ReadWatermark(M)
    BY <2>2, TopIs DEF LogOk
  <2> QED
    BY <1>1, <2>1, <2>2, <2>3
<1> HIDE DEF M
<1>61. PICK n \in Nat : /\ n = Watermark' /\ Watermark < n /\ n = ReadWatermark(M)
                         /\ \A c \in M : c.seq \in Nat /\ c.seq <= n
  <2>1. PICK n \in Nat : n = ReadWatermark(M)
    BY <1>6
  <2>2. n = Watermark' /\ Watermark < n /\ n = ReadWatermark(M) /\ \A c \in M : c.seq \in Nat /\ c.seq <= n
    BY <1>6, <2>1
  <2> QED
    BY <2>2
<1>7. ASSUME NEW i \in DOMAIN wire, NEW p \in Nat, MomentOk(i, p)
      PROVE  MomentOk(i, p)'
  <2>1. i \in Nat /\ i <= Len(wire) /\ p <= Watermark
    BY <1>1, <1>7 DEF MomentOk, Sent
  <2>2. Sent(M, r, i, p)
    <3>1. ASSUME NEW j \in DOMAIN r, r[j].type = "updates"
          PROVE  /\ j < i => r[j].watermark <= p
                 /\ i < j => \A c \in r[j].updates : c.seq > p
      <4>1. CASE j \in DOMAIN wire
        BY <1>3, <1>7, <3>1, <4>1 DEF MomentOk, Sent
      <4>2. CASE j \notin DOMAIN wire
        <5>1. j = last /\ ~(j < i) /\ r[j] = m
          BY <1>1, <1>21, <1>3, <2>1, <4>2
        <5>2. \A c \in New : c.seq > p
          BY <1>1, <1>6, <2>1
        <5> QED
          BY <5>1, <5>2
      <4> QED
        BY <4>1, <4>2
    <3>2. ASSUME NEW c \in M, c.seq > p
          PROVE  Behind(r, i, c)
      <4>1. CASE c \in log
        BY <1>4, <1>7, <2>1, <3>2, <4>1 DEF MomentOk, Sent
      <4>2. CASE c \in New
        BY <1>5, <2>1, <4>2
      <4> QED
        BY <1>6, <4>1, <4>2
    <3>3. p <= ReadWatermark(M)
      BY <1>1, <1>6, <2>1
    <3> QED
      BY <3>1, <3>2, <3>3 DEF Sent
  <2>3. Tells(M, cursor, call, r[i], p)
    <3>1. RowsIn(M, p) = RowsIn(log, p)
      BY <1>1, <2>1, RowsGrow DEF M
    <3>2. Tells(log, cursor, call, r[i], p)
      BY <1>3, <1>7 DEF MomentOk
    <3>3. \A x : ReadIn(M, x, p) = ReadIn(log, x, p)
      BY <3>1 DEF ReadIn, AcceptedIn
    <3>4. \A a : PageOk(log, cursor, a, p) => PageOk(M, cursor, a, p)
      <4> SUFFICES ASSUME NEW a, PageOk(log, cursor, a, p) PROVE PageOk(M, cursor, a, p)
        OBVIOUS
      <4> DEFINE next == Max({cursor, a.cursors[Collection]})
      <4>1. next \in Nat /\ next <= p /\ p \in Nat
        BY DEF PageOk
      <4> HIDE DEF next
      <4>2. Between(M, cursor, next) = Between(log, cursor, next)
        <5>1. next <= ReadWatermark(log)
          BY <1>1, <2>1, <4>1
        <5> QED
          BY <1>1, <4>1, <5>1, RowsGrow DEF M
      <4> QED
        BY <4>2 DEF PageOk, next
    <3> QED
      BY <3>2, <3>3, <3>4 DEF Tells
  <2> QED
    BY <1>7, <2>2, <2>3 DEF MomentOk, r, M
<1>8. Past(cursor, Range(buffered), Watermark')
  BY <1>1, <1>6, PastGrows DEF StreamInv
<1>9. MomentOk(last, n)'
  <2>1. ASSUME NEW j \in DOMAIN r, r[j].type = "updates"
        PROVE  (j < last => r[j].watermark <= n) /\ ~(last < j)
    <3>1. j < last => j \in DOMAIN wire
      BY <1>1, <1>21, <1>3
    <3>2. ASSUME j \in DOMAIN wire
          PROVE  r[j].watermark <= n
      <4>1. r[j] = wire[j] /\ MessageOk(log, wire[j])
        BY <1>1, <1>21, <1>3, <3>2
      <4>2. wire[j].watermark \in Nat /\ wire[j].watermark <= Watermark
        BY <1>1, <2>1, <4>1 DEF MessageOk, UpdatesOk
      <4> QED
        BY <1>1, <1>61, <4>1, <4>2
    <3> QED
      BY <1>1, <1>21, <1>3, <3>1, <3>2
  <2>2. \A c \in M : ~(c.seq > n)
    BY <1>61
  <2>3. Sent(M, r, last, n)
    BY <1>61, <2>1, <2>2 DEF Sent
  <2>4. Tells(M, cursor, call, r[last], n)
    <3>1. \A c \in New : c.seq <= n
      BY <1>6, <1>61
    <3> QED
      BY <1>3, <1>61, <3>1 DEF Tells
  <2>5. Past(cursor, Range(buffered), n)
    BY <1>8, <1>61
  <2> QED
    BY <2>3, <2>4, <2>5 DEF MomentOk, r, M
<1>10. ASSUME NEW i \in DOMAIN wire'
       PROVE  \E p \in Nat : MomentOk(i, p)'
  <2>1. i \in DOMAIN wire \/ i = last
    BY <1>1, <1>21, <1>3, <1>10 DEF r
  <2>2. CASE i \in DOMAIN wire
    BY <1>7, <2>2 DEF StreamInv
  <2>3. CASE i = last
    BY <1>9, <2>3
  <2> QED
    BY <2>1, <2>2, <2>3
<1>11. (state = "synchronized" => \A c \in log : c.seq > cursor => Behind(wire, 0, c))'
  <2> SUFFICES ASSUME state = "synchronized", NEW c \in M, c.seq > cursor
               PROVE  Behind(r, 0, c)
    BY DEF M, r
  <2>1. CASE c \in log
    BY <1>4, <2>1 DEF StreamInv
  <2>2. CASE c \in New
    BY <1>1, <1>5, <2>2
  <2> QED
    BY <1>6, <2>1, <2>2
<1>12. Past(cursor', Range(buffered'), Watermark')
  BY <1>8
<1> QED
  BY <1>10, <1>11, <1>12 DEF StreamInv

LEMMA StreamPushUnseen ==
  ASSUME SubsetsInv, StreamInv, NEW New, Grows(log, log', New),
         wire = <<>>, wire' = wire, state # "synchronized",
         UNCHANGED <<cursor, buffered, state>>
  PROVE  StreamInv'
<1>1. Watermark \in Nat /\ Watermark' \in Nat /\ Watermark <= Watermark'
  <2>1. LogOk(log') /\ ReadWatermark(log) < ReadWatermark(log') /\ LogOk(log)
    BY WireIs DEF Grows
  <2>2. ReadWatermark(log) \in Nat /\ ReadWatermark(log') \in Nat
    BY <2>1, TopIs DEF LogOk
  <2> QED
    BY <2>1, <2>2 DEF Watermark
<1>2. Past(cursor, Range(buffered), Watermark')
  BY <1>1, PastGrows DEF StreamInv
<1>3. DOMAIN wire' = {}
  OBVIOUS
<1>4. Past(cursor', Range(buffered'), Watermark')
  BY <1>2
<1> QED
  BY <1>3, <1>4 DEF StreamInv

\* The request of a message that carries rows is still open.
LEMMA DueCall ==
  ASSUME SubsetsInv, NEW i \in DOMAIN wire, wire[i].type = "rows"
  PROVE  wire[i].holder \in Holders /\ call[wire[i].holder] \in Ids
<1> DEFINE h == wire[i].holder
<1>1. h \in Holders
  BY WireIs DEF MessageOk, UpdatesOk
<1>2. h \in Askers /\ h # Session /\ Answers(wire[i], h)
  BY <1>1, SessionIs DEF Answers
<1>3. h \in Due(wire)
  BY <1>2 DEF Due
<1> QED
  BY <1>1, <1>2, <1>3 DEF SubsetsInv, CallersOk

\* Nobody has two answers on the wire.
LEMMA OneAnswer ==
  ASSUME SubsetsInv, NEW i \in DOMAIN wire, NEW j \in DOMAIN wire,
         \/ /\ wire[i].type = "rows" /\ wire[j].type = "rows"
            /\ wire[i].holder = wire[j].holder
         \/ wire[i].type = "history" /\ wire[j].type = "history"
  PROVE  i = j
<1>1. OnceDue(wire)
  BY DEF SubsetsInv, PlacesOk
<1>2. CASE wire[i].type = "rows" /\ wire[j].type = "rows" /\ wire[i].holder = wire[j].holder
  <2>1. wire[i].holder \in Askers
    BY <1>2, DueCall, SessionIs
  <2> QED
    BY <1>1, <1>2, <2>1 DEF OnceDue, Answers
<1>3. CASE wire[i].type = "history" /\ wire[j].type = "history"
  BY <1>1, <1>3, SessionIs DEF OnceDue, Answers
<1> QED
  BY <1>2, <1>3

\* A history is on the wire only while the session recovers.
LEMMA HistoryDue ==
  ASSUME SubsetsInv, NEW i \in DOMAIN wire, wire[i].type = "history"
  PROVE  state # "synchronized" /\ queue = "running"
<1>1. Session \in Due(wire)
  BY SessionIs DEF Due, Answers
<1> QED
  BY <1>1 DEF SubsetsInv, CallersOk, ConnOk

\* The view follows these updates.
Applied(U) ==
  \E x \in Views : ApplyOk(View, x, U) /\ tracker' = x.tracker /\ local' = x.local

\* A broadcast arrives: a synchronized session follows the log up to it.
ReceiveOk(n) ==
  /\ n \in Nat /\ MomentOk(1, n)
  /\ state' = state /\ call' = call /\ held' = held /\ log' = log
  /\ wire # <<>> /\ wire' = Tail(wire)
  /\ IF state = "synchronized"
     THEN /\ cursor' = n /\ cursor <= n /\ Applied(Between(log, cursor, n))
          /\ buffered' = buffered
          /\ wire[1].type = "updates" /\ Between(log, cursor, n) \subseteq wire[1].updates
     ELSE View' = View /\ buffered' = Append(buffered, wire[1]) /\ wire[1].watermark = n

LEMMA ApplyNothing ==
  ASSUME NEW v \in Views
  PROVE  ApplyOk(v, v, {})
BY SameSubsetsRefl DEF ApplyOk, SameRow

LEMMA ReceiveIs ==
  ASSUME SubsetsInv, StreamInv, Deliver, Head(wire).type = "updates"
  PROVE  \E n : ReceiveOk(n)
<1> DEFINE m == wire[1]
<1>1. /\ wire # <<>> /\ wire' = Tail(wire) /\ log' = log /\ Receive(m)
      /\ m.type = "updates" /\ 1 \in DOMAIN wire
  BY HeadIs, ReceiveInv DEF Deliver
<1>2. PICK n \in Nat : MomentOk(1, n)
  BY <1>1 DEF StreamInv
<1>3. n = m.watermark /\ \A c \in m.updates : c.seq <= n
  BY <1>1, <1>2 DEF MomentOk, Tells
<1>4. state' = state /\ call' = call /\ held' = held
  BY <1>1 DEF Receive, calls
<1>5. /\ View \in Views /\ cursor \in Nat /\ View.cursor = cursor /\ LogOk(log)
      /\ \A c \in log : c.seq \in Nat
      /\ m.updates \in SUBSET log
  <2>1. MessageOk(log, m)
    BY <1>1, WireIs
  <2>2. m.updates \in SUBSET log
    BY <1>1, <2>1 DEF MessageOk, UpdatesOk
  <2>3. View \in Views /\ cursor \in Nat
    BY NowIs DEF SubsetsInv, Types
  <2> QED
    BY <2>2, <2>3, WireIs DEF View
<1>6. CASE state = "synchronized"
  <2> DEFINE v == ApplyBroadcast(View, m)
             U == {c \in m.updates : c.seq > cursor}
  <2>1. Becomes(v) /\ buffered' = buffered
    BY <1>1, <1>6 DEF Receive
  <2>2. BroadcastOk(m)
    BY <1>2, <1>3, <1>5, NumberedSubset DEF BroadcastOk, LogOk
  <2>3. cursor <= n
    BY <1>2 DEF MomentOk, Past
  <2>4. /\ v \in Views
        /\ n <= cursor => v = View
        /\ ~(n <= cursor) => \E x \in Views : ApplyOk(View, x, U)
                                              /\ v = [x EXCEPT !.cursor = n]
    <3> HIDE DEF m
    <3>1. /\ v \in Views
          /\ m.watermark <= View.cursor => v = View
          /\ ~(m.watermark <= View.cursor) =>
               \E x \in Views : ApplyOk(View, x, {c \in m.updates : c.seq > View.cursor})
                                /\ v = [x EXCEPT !.cursor = m.watermark]
      BY <1>5, <2>2, BroadcastIs
    <3>2. m.watermark = n /\ View.cursor = cursor
      BY <1>3, <1>5
    <3> HIDE DEF v
    <3> QED
      BY <3>1, <3>2
  <2>5. U = Between(log, cursor, n)
    <3>1. \A c \in U : c \in Between(log, cursor, n)
      BY <1>3, <1>5 DEF Between
    <3>2. ASSUME NEW c \in Between(log, cursor, n)
          PROVE  c \in U
      <4>1. c \in log /\ c.seq > cursor /\ ~(c.seq > n)
        BY <1>5 DEF Between
      <4>2. Behind(wire, 0, c)
        BY <1>6, <4>1 DEF StreamInv
      <4>3. PICK j \in DOMAIN wire : 0 < j /\ wire[j].type = "updates" /\ c \in wire[j].updates
        BY <4>2 DEF Behind
      <4>4. ~(1 < j)
        BY <1>2, <4>1, <4>3 DEF MomentOk, Sent
      <4>5. j = 1
        BY <4>3, <4>4, WireIs
      <4> QED
        BY <4>1, <4>3, <4>5
    <3> QED
      BY <3>1, <3>2
  <2> HIDE DEF v, U, m
  <2>6. View' = v /\ tracker' = v.tracker /\ local' = v.local /\ cursor' = v.cursor
    BY <2>1, <2>4, BecomesIs
  <2>7. CASE n <= cursor
    <3>1. cursor = n /\ v = View
      BY <1>5, <2>3, <2>4, <2>7
    <3>2. Between(log, cursor, n) = {}
      BY <1>5, <3>1 DEF Between
    <3>3. Applied(Between(log, cursor, n))
      BY <1>5, <2>6, <3>1, <3>2, ApplyNothing DEF Applied
    <3> QED
      BY <1>1, <1>2, <1>4, <1>5, <1>6, <2>1, <2>3, <2>6, <3>1, <3>2, <3>3 DEF ReceiveOk, m
  <2>8. CASE ~(n <= cursor)
    <3>1. PICK x \in Views : ApplyOk(View, x, U) /\ v = [x EXCEPT !.cursor = n]
      BY <2>4, <2>8
    <3>2. v.tracker = x.tracker /\ v.local = x.local /\ v.cursor = n
      BY <3>1, ViewIs
    <3>3. Applied(Between(log, cursor, n))
      BY <2>5, <2>6, <3>1, <3>2 DEF Applied
    <3>4. Between(log, cursor, n) \subseteq m.updates
      BY <2>5 DEF U
    <3> QED
      BY <1>1, <1>2, <1>4, <1>6, <2>1, <2>3, <2>6, <3>2, <3>3, <3>4 DEF ReceiveOk, m
  <2> QED
    BY <2>7, <2>8
<1>7. CASE state # "synchronized"
  <2>1. Becomes(View) /\ buffered' = Append(buffered, m)
    BY <1>1, <1>7 DEF Receive
  <2>2. View' = View
    BY <1>5, <2>1, BecomesIs
  <2> QED
    BY <1>1, <1>2, <1>3, <1>4, <1>7, <2>1, <2>2 DEF ReceiveOk
<1> QED
  BY <1>6, <1>7

\* The rows of a subset arrive, as they were at n.
AnsweredOk(h, n) ==
  /\ n \in Nat /\ MomentOk(1, n)
  /\ state' = state /\ held' = held /\ log' = log /\ cursor' = cursor
  /\ wire # <<>> /\ wire' = Tail(wire) /\ buffered' = buffered
  /\ h \in Holders /\ call[h] \in Ids /\ call' = [call EXCEPT ![h] = None]
  /\ wire[1].type = "rows" /\ wire[1].holder = h
  /\ InstallOk(call[h], ReadIn(log, call[h], n), View')

LEMMA AnsweredIs ==
  ASSUME SubsetsInv, StreamInv, Deliver, Head(wire).type = "rows"
  PROVE  \E h, n : AnsweredOk(h, n)
<1> DEFINE m == wire[1]
           h == m.holder
<1>1. /\ wire # <<>> /\ wire' = Tail(wire) /\ log' = log /\ Answered(m)
      /\ m.type = "rows" /\ 1 \in DOMAIN wire
  BY HeadIs, AnsweredInv DEF Deliver
<1>2. PICK n \in Nat : MomentOk(1, n)
  BY <1>1 DEF StreamInv
<1>3. m.rows = ReadIn(log, call[h], n)
  BY <1>1, <1>2 DEF MomentOk, Tells
<1>4. /\ state' = state /\ held' = held /\ buffered' = buffered
      /\ call' = [call EXCEPT ![h] = None]
  BY <1>1 DEF Answered
<1>5. h \in Holders /\ call[h] \in Ids /\ InstallOk(call[h], m.rows, View')
  BY <1>1, HeadIs, AnsweredInv
<1>6. cursor' = cursor
  BY <1>5 DEF InstallOk, View
<1> HIDE DEF m
<1> QED
  BY <1>1, <1>2, <1>3, <1>4, <1>5, <1>6 DEF AnsweredOk, m

\* A page of the history arrives: the session follows the log up to next.
CaughtUp(n, next) ==
  /\ n \in Nat /\ next \in Nat /\ MomentOk(1, n) /\ cursor <= next /\ next <= n
  /\ held' = held /\ call' = call /\ log' = log /\ wire[1].type = "history"
  /\ wire # <<>> /\ wire' = Tail(wire)
  /\ wire[1].answer.updates = Between(log, cursor, next)
  /\ cursor' = next /\ Applied(Between(log, cursor, next))
  /\ \/ state' = state /\ buffered' = buffered
     \/ next = n /\ buffered' = <<>>
  /\ state # "synchronized"

LEMMA CaughtUpIs ==
  ASSUME SubsetsInv, QuietInv, StreamInv, Deliver, Head(wire).type = "history"
  PROVE  \E n, next : CaughtUp(n, next)
<1> DEFINE m == wire[1]
           a == m.answer
           v == PageView(a)
           next == Max({cursor, a.cursors[Collection]})
<1>1. /\ wire # <<>> /\ wire' = Tail(wire) /\ log' = log /\ CatchesUp(a)
      /\ m.type = "history" /\ 1 \in DOMAIN wire
  BY HeadIs, CatchesUpIs DEF Deliver
<1>2. PICK n \in Nat : MomentOk(1, n)
  BY <1>1 DEF StreamInv
<1>3. PageOk(log, cursor, a, n)
  BY <1>1, <1>2 DEF MomentOk, Tells
<1>4. /\ next \in Nat /\ cursor <= next /\ next <= n
      /\ ~a.hasMore => next = n
      /\ a.updates = Between(log, cursor, next)
  BY <1>3 DEF PageOk
<1>5. /\ v \in Views /\ v.cursor = next
      /\ \E x \in Views : ApplyOk(View, x, a.updates) /\ v.tracker = x.tracker
                          /\ v.local = x.local
  <2>1. a.updates \in SUBSET log /\ a.cursors[Collection] \in Nat
    BY <1>1 DEF CatchesUp
  <2> QED
    BY <2>1, PageViewIs DEF SubsetsInv, Types
<1> HIDE DEF next, v
<1>6. View' = v => Applied(Between(log, cursor, next)) /\ cursor' = next
  <2>1. ASSUME View' = v
        PROVE  tracker' = v.tracker /\ local' = v.local /\ cursor' = v.cursor
    BY <2>1 DEF View
  <2> QED
    BY <1>4, <1>5, <2>1 DEF Applied
<1>7. state # "synchronized"
  BY <1>1, HistoryDue
<1>8. held' = held /\ call' = call
  BY <1>1 DEF CatchesUp
<1>9. CASE a.hasMore /\ Becomes(v) /\ UNCHANGED <<state, buffered>>
  <2>1. View' = v
    BY <1>5, <1>9, BecomesIs
  <2> HIDE DEF m
  <2> QED
    BY <1>1, <1>2, <1>4, <1>6, <1>7, <1>8, <1>9, <2>1 DEF CaughtUp, m
<1>10. CASE ~a.hasMore /\ Synchronize(v)
  <2>1. \A b \in Range(buffered) : b.watermark <= v.cursor
    BY <1>2, <1>4, <1>5, <1>10 DEF MomentOk, Past
  <2>2. View' = v /\ Settles
    BY <1>5, <1>10, <2>1, SynchronizeIs
  <2>3. buffered' = <<>> /\ next = n
    BY <1>4, <1>10, <2>2 DEF Settles
  <2> HIDE DEF m
  <2> QED
    BY <1>1, <1>2, <1>4, <1>6, <1>7, <1>8, <2>2, <2>3 DEF CaughtUp, m
<1> QED
  BY <1>1, <1>9, <1>10 DEF CatchesUp, v

LEMMA DeliverStream ==
  ASSUME SubsetsInv, QuietInv, StreamInv, Deliver
  PROVE  StreamInv'
<1>0. DOMAIN wire = 1..Len(wire) /\ LogOk(log)
  BY WireIs
<1>1. CASE Head(wire).type = "updates"
  <2>1. PICK n : ReceiveOk(n)
    BY <1>1, ReceiveIs
  <2>2. n \in Nat /\ MomentOk(1, n) /\ wire # <<>> /\ wire' = Tail(wire) /\ log' = log
    BY <2>1 DEF ReceiveOk
  <2>3. Past(cursor, Range(buffered), n) /\ \A c \in log : c.seq > n => Behind(wire, 1, c)
    BY <2>2 DEF MomentOk, Sent
  <2>4. CASE state = "synchronized"
    <3>1. cursor' = n /\ buffered' = buffered
      BY <2>1, <2>4 DEF ReceiveOk
    <3>2. Past(cursor', Range(buffered'), n)
      BY <2>2, <2>3, <3>1 DEF Past
    <3>3. \A i \in DOMAIN wire : wire[i].type # "history"
      BY <2>4, HistoryDue
    <3>4. call' = call
      BY <2>1 DEF ReceiveOk
    <3> QED
      BY <2>2, <2>3, <3>1, <3>2, <3>3, <3>4, StreamTail
  <2>5. CASE state # "synchronized"
    <3>1. /\ cursor' = cursor /\ buffered' = Append(buffered, wire[1])
          /\ wire[1].watermark = n /\ call' = call /\ state' = state
      BY <2>1, <2>5 DEF ReceiveOk, View
    <3> DEFINE S == Range(buffered) \cup {wire[1]}
    <3>2. buffered \in Seq(S) /\ wire[1] \in S
      BY SeqMonotonic DEF SubsetsInv, Types
    <3>3. Range(buffered') = Range(buffered) \cup {wire[1]}
      BY <3>1, <3>2, AppendIs
    <3>4. Past(cursor', Range(buffered'), n)
      BY <2>2, <2>3, <3>1, <3>3 DEF Past
    <3> QED
      BY <2>2, <2>3, <2>5, <3>1, <3>4, StreamTail
  <2> QED
    BY <2>4, <2>5
<1>2. CASE Head(wire).type = "rows"
  <2>1. PICK h, n : AnsweredOk(h, n)
    BY <1>2, AnsweredIs
  <2>2. /\ n \in Nat /\ MomentOk(1, n) /\ wire # <<>> /\ wire' = Tail(wire) /\ log' = log
        /\ cursor' = cursor /\ buffered' = buffered /\ state' = state
        /\ h \in Holders /\ call' = [call EXCEPT ![h] = None]
        /\ wire[1].type = "rows" /\ wire[1].holder = h
    BY <2>1 DEF AnsweredOk
  <2>3. Past(cursor', Range(buffered'), n)
    BY <2>2 DEF MomentOk
  <2>4. 1 \in DOMAIN wire
    BY <2>2, HeadIs
  <2>5. ASSUME NEW i \in DOMAIN wire, i # 1, wire[i].type = "rows"
        PROVE  call'[wire[i].holder] = call[wire[i].holder]
    <3>1. wire[i].holder \in Holders /\ wire[i].holder # h
      <4>1. wire[i].holder \in Holders
        BY <2>5, DueCall
      <4>2. ASSUME wire[i].holder = wire[1].holder
            PROVE  FALSE
        BY <2>2, <2>4, <2>5, <4>2, OneAnswer
      <4> QED
        BY <2>2, <4>1, <4>2
    <3> QED
      BY <2>2, <3>1 DEF SubsetsInv, Types
  <2>6. ASSUME state' = "synchronized", NEW c \in log, c.seq > cursor'
        PROVE  Behind(wire, 1, c)
    <3>1. Behind(wire, 0, c)
      BY <2>2, <2>6 DEF StreamInv
    <3>2. PICK j \in DOMAIN wire : 0 < j /\ wire[j].type = "updates" /\ c \in wire[j].updates
      BY <3>1 DEF Behind
    <3>3. j # 1 /\ j \in Nat
      BY <2>2, <3>2, WireIs
    <3>4. 1 < j
      BY <3>2, <3>3
    <3> QED
      BY <3>2, <3>4 DEF Behind
  <2> QED
    BY <2>2, <2>3, <2>5, <2>6, StreamTail
<1>3. CASE Head(wire).type = "history"
  <2>1. PICK n, next : CaughtUp(n, next)
    BY <1>3, CaughtUpIs
  <2>2. /\ n \in Nat /\ MomentOk(1, n) /\ wire # <<>> /\ wire' = Tail(wire) /\ log' = log
        /\ cursor' = next /\ next <= n /\ next \in Nat /\ call' = call
        /\ wire[1].type = "history" /\ state # "synchronized"
        /\ \/ state' = state /\ buffered' = buffered
           \/ next = n /\ buffered' = <<>>
    BY <2>1 DEF CaughtUp
  <2>3. Past(cursor, Range(buffered), n) /\ \A c \in log : c.seq > n => Behind(wire, 1, c)
    BY <2>2 DEF MomentOk, Sent
  <2>4. Range(<<>>) = {}
    BY DEF Range
  <2>5. Past(cursor', Range(buffered'), n)
    <3>1. Range(buffered') = Range(buffered) \/ Range(buffered') = {}
      BY <2>2, <2>4
    <3> QED
      BY <2>2, <2>3, <3>1 DEF Past
  <2>6. 1 \in DOMAIN wire
    BY <2>2, HeadIs
  <2>7. \A i \in DOMAIN wire : i # 1 /\ wire[i].type = "history" => cursor' = cursor
    BY <2>2, <2>6, OneAnswer
  <2>8. state' = "synchronized" => \A c \in log : c.seq > cursor' => Behind(wire, 1, c)
    BY <2>2, <2>3
  <2> QED
    BY <2>2, <2>5, <2>7, <2>8, StreamTail
<1>4. Head(wire).type # "reloaded"
  BY HeadIs DEF Deliver, QuietInv, NoReload
<1> QED
  BY <1>1, <1>2, <1>3, <1>4, DeliverIs

LEMMA HandleStream ==
  ASSUME SubsetsInv, QuietInv, StreamInv, NothingPruned, Handle
  PROVE  StreamInv'
<1> DEFINE m == Answer(Head(asked))
<1>1. /\ asked # <<>> /\ wire' = Append(wire, m)
      /\ UNCHANGED <<log, session, calls>>
  BY DEF Handle
<1>2. UNCHANGED <<log, cursor, buffered, state, call>>
  BY <1>1 DEF session, calls
<1>3. Head(asked) \in Range(asked)
  BY <1>1, TailIs DEF SubsetsInv, PlacesOk
<1>4. reloading = None /\ cursor <= Watermark
  BY DEF QuietInv, StreamInv, Past
<1>5. m.type # "updates" /\ Tells(log, cursor, call, m, Watermark)
  BY <1>3, <1>4, AnswerTells
<1> HIDE DEF m
<1> QED
  BY <1>1, <1>2, <1>5, StreamAnswer

LEMMA PushStream ==
  ASSUME SubsetsInv, StreamInv, NEW b \in Batches, Push(b)
  PROVE  StreamInv'
<1> DEFINE m == [type |-> "updates", updates |-> Pushed(b), watermark |-> Watermark + Len(b)]
<1>1. /\ wire' = IF connected THEN Append(wire, m) ELSE wire
      /\ UNCHANGED <<session, calls>>
  BY DEF Push, Pushed
<1>2. UNCHANGED <<cursor, buffered, state, call>>
  BY <1>1 DEF session, calls
<1>3. Grows(log, log', Pushed(b)) /\ ReadWatermark(log') = Watermark + Len(b)
  BY PushInv
<1>4. m.type = "updates" /\ m.updates = Pushed(b) /\ m.watermark = Watermark'
  BY <1>3 DEF Watermark
<1> HIDE DEF m
<1>5. CASE connected
  <2>1. wire' = Append(wire, m)
    BY <1>1, <1>5
  <2> QED
    BY <1>2, <1>3, <1>4, <2>1, StreamPush
<1>6. CASE ~connected
  <2>1. wire = <<>> /\ wire' = wire /\ state = "disconnected"
    BY <1>1, <1>6 DEF SubsetsInv, ConnOk
  <2> QED
    BY <1>2, <1>3, <2>1, StreamPushUnseen
<1> QED
  BY <1>5, <1>6

LEMMA StepStream ==
  ASSUME SubsetsInv, QuietInv, StreamInv, NothingPruned, [Next]_vars
  PROVE  StreamInv'
<1>1. CASE \E h \in Holders : Unload(h)
  <2>1. PICK h \in Holders : LetsGo(h)
    BY <1>1, UnloadInv
  <2>2. UNCHANGED <<wire, log, cursor, buffered, state, call>>
    BY <2>1 DEF LetsGo, socket
  <2> QED
    BY <2>2, StreamStays
<1>2. CASE \E h \in Holders, id \in Ids : Load(h, id)
  <2>1. PICK h \in Holders, id \in Ids : Loads(h, id)
    BY <1>2, LoadInv
  <2>2. UNCHANGED <<wire, log, cursor, buffered, state>> /\ call[h] = None
    BY <2>1 DEF Loads, session
  <2>3. call' = call \/ call' = [call EXCEPT ![h] = id]
    BY <2>1 DEF Loads, LoadRejected, LoadAccepted, calls
  <2>4. ASSUME NEW i \in DOMAIN wire, wire[i].type = "rows"
        PROVE  call'[wire[i].holder] = call[wire[i].holder]
    <3>1. wire[i].holder \in Holders /\ call[wire[i].holder] \in Ids
      BY <2>4, DueCall
    <3>2. wire[i].holder # h
      BY <2>2, <3>1, SessionIs
    <3> QED
      BY <2>3, <3>1, <3>2 DEF SubsetsInv, Types
  <2> QED
    BY <2>2, <2>4, StreamStays
<1>3. CASE Deliver
  BY <1>3, DeliverStream
<1>4. CASE Reconnect
  <2>1. UNCHANGED <<wire, log, cursor, buffered, call>> /\ state' = "catching-up"
    BY <1>4, ReconnectInv DEF Reconnect
  <2> QED
    BY <2>1, StreamStays
<1>5. CASE \E id \in Ids : Retired(id)
  <2>1. PICK id \in Ids : Expires(id)
    BY <1>5, RetiredInv
  <2>2. UNCHANGED <<wire, log, cursor, buffered, state, call>>
    BY <2>1 DEF Expires, socket, calls
  <2> QED
    BY <2>2, StreamStays
<1>6. CASE Handle
  BY <1>6, HandleStream
<1>7. CASE \E b \in Batches : Push(b)
  BY <1>7, PushStream
<1>8. CASE Drop
  <2>1. UNCHANGED <<log, cursor, buffered>> /\ wire' = <<>> /\ state' = "disconnected"
    BY <1>8 DEF Drop
  <2> QED
    BY <2>1, StreamCut
<1>9. CASE ConnectFails
  <2>1. UNCHANGED <<log, cursor, buffered, state>> /\ wire' = wire
    BY <1>9 DEF ConnectFails, socket, session
  <2>2. wire = <<>> /\ state # "synchronized"
    BY <1>9 DEF ConnectFails, SubsetsInv, ConnOk
  <2> QED
    BY <2>1, <2>2, StreamCut
<1>10. CASE UNCHANGED vars
  BY <1>10, StreamStays DEF vars, socket, session, calls
<1> QED
  BY <1>1, <1>2, <1>3, <1>4, <1>5, <1>6, <1>7, <1>8, <1>9, <1>10
     DEF Next, LiveQuery, Client, Server

LEMMA InitStream ==
  ASSUME Init
  PROVE  StreamInv
<1>1. log = {} /\ wire = <<>> /\ cursor = 0 /\ buffered = <<>> /\ SubsetsInv
  BY InitInv DEF Init
<1>2. Watermark \in Nat
  BY <1>1, WireIs
<1>3. Range(buffered) = {} /\ DOMAIN wire = {}
  BY <1>1 DEF Range
<1>4. Past(cursor, Range(buffered), Watermark)
  BY <1>1, <1>2, <1>3 DEF Past
<1> QED
  BY <1>1, <1>3, <1>4 DEF StreamInv
-----------------------------------------------------------------------------
(***************************************************************************)
(* The rows of the loaded subsets.                                         *)
(***************************************************************************)
\* The session will still be told of the change c by a page of the history.
Owed(c) ==
  /\ state # "synchronized" /\ c.seq > cursor
  /\ \A i \in DOMAIN wire : wire[i].type = "history" => ~Behind(wire, i, c)

Settled(k) == \A c \in log : c.key = k => ~Owed(c)

Complete(x, k) ==
  LET row == RowsIn(log, cursor)[k] IN
  row \in Accepts[x] => local[k] = row /\ k \in tracker.subsets[x].keys

CompleteInv ==
  \A x \in DOMAIN tracker.subsets, k \in Keys :
    tracker.subsets[x].loaded /\ Settled(k) => Complete(x, k)

\* What was owed is still owed.
OwedKept == \A c \in log : Owed(c) => Owed(c)'

LEMMA OwedStays ==
  ASSUME wire' = wire \/ wire' = <<>>, cursor' = cursor,
         state' = state \/ state' # "synchronized"
  PROVE  OwedKept
BY DEF OwedKept, Owed

LEMMA OwedTail ==
  ASSUME SubsetsInv, wire # <<>>, wire' = Tail(wire), cursor' = cursor, state' = state
  PROVE  OwedKept
<1> SUFFICES ASSUME NEW c \in log, Owed(c), NEW i \in DOMAIN wire', wire'[i].type = "history",
                    Behind(wire', i, c)
             PROVE  FALSE
  BY DEF OwedKept, Owed
<1>1. wire \in Seq(Range(wire)) /\ DOMAIN wire' \in SUBSET Nat
      /\ i + 1 \in DOMAIN wire /\ wire'[i] = wire[i + 1]
  BY WireIs, TailIs
<1>2. Behind(wire, i + 1, c)
  BY <1>1, BehindTail
<1> QED
  BY <1>1, <1>2 DEF Owed

LEMMA OwedAppend ==
  ASSUME SubsetsInv, NEW m, wire' = Append(wire, m), cursor' = cursor, state' = state,
         m.type # "updates" \/ \A c \in log : c \notin m.updates
  PROVE  OwedKept
<1> DEFINE S == Range(wire) \cup {m}
           r == Append(wire, m)
<1>1. wire \in Seq(Range(wire)) /\ DOMAIN wire = 1..Len(wire) /\ Len(wire) \in Nat
  BY WireIs
<1>2. wire \in Seq(S) /\ m \in S
  BY <1>1
<1> HIDE DEF S
<1>3. DOMAIN r = 1..(Len(wire) + 1) /\ \A i \in DOMAIN wire : r[i] = wire[i]
  BY <1>2, AppendIs
<1>4. \A i \in Nat : \A c \in log : Behind(r, i, c) => Behind(wire, i, c)
  BY <1>2, BehindAppend
<1>5. wire' = r
  OBVIOUS
<1> HIDE DEF r
<1> SUFFICES ASSUME NEW c \in log, Owed(c), NEW i \in DOMAIN r, r[i].type = "history",
                    Behind(r, i, c)
             PROVE  FALSE
  BY <1>5 DEF OwedKept, Owed
<1>6. i \in Nat /\ (i \in DOMAIN wire \/ i = Len(wire) + 1)
  BY <1>1, <1>3
<1>7. Behind(wire, i, c)
  BY <1>4, <1>6
<1>8. i \in DOMAIN wire
  BY <1>1, <1>6, <1>7 DEF Behind
<1> QED
  BY <1>3, <1>7, <1>8 DEF Owed

LEMMA SettledKept ==
  ASSUME OwedKept, log \subseteq log', NEW k, Settled(k)'
  PROVE  Settled(k)
BY DEF OwedKept, Settled

\* A key of a subset has references.
LEMMA KeyHeld ==
  ASSUME NEW t, NEW u \in Trackers, NEW k \in Keys, NEW x \in DOMAIN u.subsets,
         k \in u.subsets[x].keys
  PROVE  k \notin Removed(t, u)
<1>1. u.keyRefs[k] > 0 /\ u.keyRefs[k] \in Nat
  BY HoldingIs, TrackerIs
<1> QED
  BY <1>1 DEF Removed

\* Subsets that are dropped take their rows with them.
LEMMA CompleteDrops ==
  ASSUME CompleteInv, Drops(tracker, tracker'),
         NEW t, local' = DeleteKeys(local, Removed(t, tracker')),
         log' = log, cursor' = cursor, OwedKept
  PROVE  CompleteInv'
<1> SUFFICES ASSUME NEW x \in DOMAIN tracker'.subsets, NEW k \in Keys,
                    tracker'.subsets[x].loaded, Settled(k)',
                    RowsIn(log, cursor)[k] \in Accepts[x]
             PROVE  local'[k] = RowsIn(log, cursor)[k] /\ k \in tracker'.subsets[x].keys
  BY DEF CompleteInv, Complete
<1>1. /\ tracker' \in Trackers /\ x \in DOMAIN tracker.subsets
      /\ tracker'.subsets[x].keys = tracker.subsets[x].keys
      /\ tracker'.subsets[x].loaded = tracker.subsets[x].loaded
  BY DEF Drops
<1>2. Settled(k)
  BY SettledKept
<1>3. local[k] = RowsIn(log, cursor)[k] /\ k \in tracker.subsets[x].keys
  BY <1>1, <1>2 DEF CompleteInv, Complete
<1>4. k \notin Removed(t, tracker')
  BY <1>1, <1>3, KeyHeld
<1> QED
  BY <1>1, <1>3, <1>4 DEF DeleteKeys

\* Nothing happens to the rows.
LEMMA CompleteSame ==
  ASSUME CompleteInv, local' = local, cursor' = cursor, log \subseteq log',
         RowsIn(log', cursor) = RowsIn(log, cursor), OwedKept,
         \A x \in DOMAIN tracker'.subsets : tracker'.subsets[x].loaded =>
           /\ x \in DOMAIN tracker.subsets /\ tracker.subsets[x].loaded
           /\ tracker'.subsets[x].keys = tracker.subsets[x].keys
  PROVE  CompleteInv'
BY SettledKept DEF CompleteInv, Complete

\* The view follows the log.
LEMMA CompleteFollows ==
  ASSUME SubsetsInv, CompleteInv, NEW n \in Nat, cursor \in Nat, cursor <= n,
         Applied(Between(log, cursor, n)), cursor' = n, log' = log,
         \A k \in Keys : Settled(k)' /\ (\A c \in Between(log, cursor, n) : c.key # k)
                           => Settled(k)
  PROVE  CompleteInv'
<1> DEFINE U == Between(log, cursor, n)
<1>1. PICK w \in Views : ApplyOk(View, w, U) /\ tracker' = w.tracker /\ local' = w.local
  BY DEF Applied
<1>2. LogOk(log) /\ U \in SUBSET Entry
  BY WireIs, BetweenIs
<1>3. /\ DOMAIN tracker'.subsets = DOMAIN tracker.subsets
      /\ \A x \in DOMAIN tracker.subsets :
           tracker'.subsets[x].loaded = tracker.subsets[x].loaded
  BY <1>1 DEF ApplyOk, SameSubsets, View
<1> HIDE DEF U
<1> SUFFICES ASSUME NEW x \in DOMAIN tracker.subsets, NEW k \in Keys,
                    tracker'.subsets[x].loaded, Settled(k)',
                    RowsIn(log, n)[k] \in Accepts[x]
             PROVE  local'[k] = RowsIn(log, n)[k] /\ k \in tracker'.subsets[x].keys
  BY <1>3 DEF CompleteInv, Complete
<1>4. CASE \E b \in U : b.key = k
  <2>1. PICK c \in U : IsLast(c, U, k)
    BY <1>2, <1>4, LastIn
  <2>2. c.key = k /\ \A d \in U : d.key = c.key => d.seq <= c.seq
    BY <2>1 DEF IsLast
  <2>3. HasRow(w, k, c.value)
    BY <1>1, <2>2 DEF ApplyOk
  <2>4. RowsIn(log, n)[k] = c.value
    BY <1>2, <2>1, RowsLast DEF U
  <2> QED
    BY <1>1, <1>3, <2>3, <2>4 DEF HasRow
<1>5. CASE \A b \in U : b.key # k
  <2>1. Settled(k)
    BY <1>5 DEF U
  <2>2. RowsIn(log, n)[k] = RowsIn(log, cursor)[k]
    BY <1>2, <1>5, RowsSame DEF U
  <2>3. local[k] = RowsIn(log, n)[k] /\ k \in tracker.subsets[x].keys
    BY <1>3, <2>1, <2>2 DEF CompleteInv, Complete
  <2>4. SameRow(View, w, k)
    BY <1>1, <1>5 DEF ApplyOk
  <2> QED
    BY <1>1, <2>3, <2>4 DEF SameRow, View
<1> QED
  BY <1>4, <1>5

\* A change that was settled is not between the cursor and the answer to a read.
LEMMA NoneBetween ==
  ASSUME SubsetsInv, StreamInv, NEW h, NEW n, AnsweredOk(h, n), NEW k, Settled(k)',
         NEW c \in Between(log, cursor, n)
  PROVE  c.key # k
<1> SUFFICES ASSUME c.key = k PROVE FALSE
  OBVIOUS
<1>1. /\ n \in Nat /\ Sent(log, wire, 1, n) /\ state' = state /\ cursor' = cursor
      /\ log' = log /\ wire # <<>> /\ wire' = Tail(wire) /\ wire[1].type = "rows"
  BY DEF AnsweredOk, MomentOk
<1>2. /\ c \in log /\ c.seq > cursor /\ ~(c.seq > n)
  <2>1. c \in log /\ c.seq \in Nat /\ c.seq <= n /\ cursor < c.seq /\ cursor \in Nat
    BY WireIs, NowIs DEF Between, SubsetsInv, Types
  <2> QED
    BY <1>1, <2>1
<1>3. ~Owed(c)'
  BY <1>1, <1>2 DEF Settled
<1>4. /\ wire \in Seq(Range(wire)) /\ DOMAIN wire \in SUBSET Nat
      /\ \A i \in DOMAIN wire' : i \in Nat
  BY <1>1, WireIs, TailIs
<1>5. \A j \in DOMAIN wire : wire[j].type = "updates" /\ c \in wire[j].updates => ~(1 < j)
  BY <1>1, <1>2 DEF Sent
<1>6. CASE state = "synchronized"
  <2>1. Behind(wire, 0, c)
    BY <1>2, <1>6 DEF StreamInv
  <2>2. PICK j \in DOMAIN wire : 0 < j /\ wire[j].type = "updates" /\ c \in wire[j].updates
    BY <2>1 DEF Behind
  <2>3. j # 1 /\ j \in Nat
    BY <1>1, <1>4, <2>2
  <2> QED
    BY <1>5, <2>2, <2>3
<1>7. CASE state # "synchronized"
  <2>1. PICK i \in DOMAIN wire' : Behind(wire', i, c)
    BY <1>1, <1>2, <1>3, <1>7 DEF Owed
  <2>2. i \in Nat /\ Behind(wire, i + 1, c) /\ 1 \in DOMAIN wire
    BY <1>1, <1>4, <2>1, BehindTail, HeadIs
  <2>3. PICK j \in DOMAIN wire : i + 1 < j /\ wire[j].type = "updates" /\ c \in wire[j].updates
    BY <2>2 DEF Behind
  <2>4. i # 0 \/ i = 0
    OBVIOUS
  <2>5. 1 < j
    BY <1>4, <2>2, <2>3
  <2> QED
    BY <1>5, <2>3, <2>5
<1> QED
  BY <1>6, <1>7

LEMMA CompleteAnswered ==
  ASSUME SubsetsInv, StreamInv, CompleteInv, NEW h, NEW n, AnsweredOk(h, n)
  PROVE  CompleteInv'
<1> DEFINE id == call[h]
           read == ReadIn(log, id, n)
           keys == AcceptedIn(log, id, n)
<1>1. /\ n \in Nat /\ cursor <= n /\ cursor \in Nat /\ state' = state /\ cursor' = cursor
      /\ log' = log /\ wire # <<>> /\ wire' = Tail(wire) /\ id \in Ids
      /\ InstallOk(id, read, View') /\ LogOk(log)
  BY NowIs DEF AnsweredOk, MomentOk, Past, SubsetsInv, Types
<1>2. OwedKept
  BY <1>1, OwedTail
<1>3. DOMAIN read = keys /\ \A k \in keys : read[k] = RowsIn(log, n)[k]
  BY DEF ReadIn
<1> HIDE DEF id, read
<1>4. /\ ReplaceOk(tracker, tracker', id, keys)
      /\ \A k \in Keys : local'[k] = IF k \in keys THEN RowsIn(log, n)[k]
                                     ELSE IF k \in Removed(tracker, tracker') THEN Gone
                                     ELSE local[k]
  BY <1>1, <1>3 DEF InstallOk, View
<1>5. /\ tracker' \in Trackers /\ DOMAIN tracker'.subsets = DOMAIN tracker.subsets \cup {id}
      /\ tracker'.subsets[id].keys = keys
      /\ \A x \in DOMAIN tracker.subsets \ {id} : tracker'.subsets[x] = tracker.subsets[x]
  BY <1>4 DEF ReplaceOk
<1> SUFFICES ASSUME NEW x \in DOMAIN tracker'.subsets, NEW k \in Keys,
                    tracker'.subsets[x].loaded, Settled(k)',
                    RowsIn(log, cursor)[k] \in Accepts[x]
             PROVE  local'[k] = RowsIn(log, cursor)[k] /\ k \in tracker'.subsets[x].keys
  BY <1>1 DEF CompleteInv, Complete
<1>6. RowsIn(log, n)[k] = RowsIn(log, cursor)[k]
  <2>1. \A c \in Between(log, cursor, n) : c.key # k
    BY NoneBetween
  <2> QED
    BY <1>1, <2>1, RowsSame
<1>7. CASE x = id
  <2>1. k \in keys
    BY <1>6, <1>7 DEF AcceptedIn
  <2> QED
    BY <1>4, <1>5, <1>6, <1>7, <2>1
<1>8. CASE x # id
  <2>1. x \in DOMAIN tracker.subsets /\ tracker'.subsets[x] = tracker.subsets[x]
    BY <1>5, <1>8
  <2>2. Settled(k)
    BY <1>1, <1>2, SettledKept
  <2>3. local[k] = RowsIn(log, cursor)[k] /\ k \in tracker.subsets[x].keys
    BY <2>1, <2>2 DEF CompleteInv, Complete
  <2>4. k \notin Removed(tracker, tracker')
    BY <1>5, <2>1, <2>3, KeyHeld
  <2> QED
    BY <1>4, <1>6, <2>1, <2>3, <2>4
<1> QED
  BY <1>7, <1>8

\* Of the changes that a page tells of, none is owed any more; a later one
\* is owed unless the page was the last.
LEMMA SettledBefore ==
  ASSUME SubsetsInv, NEW n, NEW next, CaughtUp(n, next), NEW k, Settled(k)',
         \A c \in Between(log, cursor, next) : c.key # k
  PROVE  Settled(k)
<1> SUFFICES ASSUME NEW c \in log, c.key = k, Owed(c)
             PROVE  FALSE
  BY DEF Settled
<1>1. /\ n \in Nat /\ next \in Nat /\ Sent(log, wire, 1, n) /\ cursor' = next /\ log' = log
      /\ wire[1].type = "history" /\ wire # <<>> /\ wire' = Tail(wire)
      /\ state' = state \/ next = n
      /\ state # "synchronized" /\ 1 \in DOMAIN wire
  BY HeadIs DEF CaughtUp, MomentOk
<1>2. c.seq \in Nat /\ cursor \in Nat /\ cursor < c.seq
  BY WireIs, NowIs DEF Owed, SubsetsInv, Types
<1>3. ~(c.seq > n)
  BY <1>1 DEF Owed, Sent
<1>4. ~(c.seq <= next)
  BY <1>2 DEF Between
<1>5. next # n /\ c.seq > next
  BY <1>1, <1>2, <1>3, <1>4
<1>6. ~Owed(c)'
  BY <1>1 DEF Settled
<1>7. PICK i \in DOMAIN wire' : wire'[i].type = "history"
  BY <1>1, <1>5, <1>6 DEF Owed
<1>8. i + 1 \in DOMAIN wire /\ wire'[i] = wire[i + 1] /\ i \in Nat /\ i # 0
  BY <1>1, WireIs, TailIs
<1>9. i + 1 = 1
  BY <1>1, <1>7, <1>8, OneAnswer
<1> QED
  BY <1>8, <1>9

LEMMA CompleteDeliver ==
  ASSUME SubsetsInv, QuietInv, StreamInv, CompleteInv, Deliver
  PROVE  CompleteInv'
<1>0. cursor \in Nat
  BY NowIs DEF SubsetsInv, Types
<1>1. CASE Head(wire).type = "updates"
  <2>1. PICK n : ReceiveOk(n)
    BY <1>1, ReceiveIs
  <2>2. n \in Nat /\ wire # <<>> /\ wire' = Tail(wire) /\ log' = log /\ state' = state
    BY <2>1 DEF ReceiveOk
  <2>3. CASE state = "synchronized"
    <3>1. cursor' = n /\ cursor <= n /\ Applied(Between(log, cursor, n))
      BY <2>1, <2>3 DEF ReceiveOk
    <3>2. \A k : Settled(k)
      BY <2>3 DEF Settled, Owed
    <3> QED
      BY <1>0, <2>2, <3>1, <3>2, CompleteFollows
  <2>4. CASE state # "synchronized"
    <3>1. View' = View
      BY <2>1, <2>4 DEF ReceiveOk
    <3>2. tracker' = tracker /\ local' = local /\ cursor' = cursor
      BY <3>1 DEF View
    <3>3. OwedKept
      BY <2>2, <3>2, OwedTail
    <3> QED
      BY <2>2, <3>2, <3>3, CompleteSame
  <2> QED
    BY <2>3, <2>4
<1>2. CASE Head(wire).type = "rows"
  BY <1>2, AnsweredIs, CompleteAnswered
<1>3. CASE Head(wire).type = "history"
  <2>1. PICK n, next : CaughtUp(n, next)
    BY <1>3, CaughtUpIs
  <2>2. next \in Nat /\ cursor <= next /\ cursor' = next /\ log' = log
        /\ Applied(Between(log, cursor, next))
    BY <2>1 DEF CaughtUp
  <2>3. \A k \in Keys : Settled(k)' /\ (\A c \in Between(log, cursor, next) : c.key # k)
                          => Settled(k)
    BY <2>1, SettledBefore
  <2> QED
    BY <1>0, <2>2, <2>3, CompleteFollows
<1>4. Head(wire).type # "reloaded"
  BY HeadIs DEF Deliver, QuietInv, NoReload
<1> QED
  BY <1>1, <1>2, <1>3, <1>4, DeliverIs

LEMMA PushOwed ==
  ASSUME SubsetsInv, StreamInv, NEW b \in Batches, Push(b)
  PROVE  OwedKept /\ log \subseteq log' /\ RowsIn(log', cursor) = RowsIn(log, cursor)
<1> DEFINE m == [type |-> "updates", updates |-> Pushed(b), watermark |-> Watermark + Len(b)]
<1>1. /\ wire' = IF connected THEN Append(wire, m) ELSE wire
      /\ UNCHANGED <<session, calls, rows>>
  BY DEF Push, Pushed
<1>2. UNCHANGED <<cursor, state>>
  BY <1>1 DEF session
<1>3. Grows(log, log', Pushed(b))
  BY PushInv
<1>4. m.updates = Pushed(b)
  OBVIOUS
<1>5. \A c \in log : c \notin Pushed(b)
  <2> SUFFICES ASSUME NEW c \in log, c \in Pushed(b) PROVE FALSE
    OBVIOUS
  <2>1. c.seq \in Nat /\ c.seq <= ReadWatermark(log) /\ ReadWatermark(log) \in Nat
    BY WireIs
  <2>2. c.seq > ReadWatermark(log)
    BY <1>3 DEF Grows
  <2> QED
    BY <2>1, <2>2
<1> HIDE DEF m
<1>6. OwedKept
  <2>1. CASE connected
    BY <1>1, <1>2, <1>4, <1>5, <2>1, OwedAppend
  <2>2. CASE ~connected
    BY <1>1, <1>2, <2>2, OwedStays
  <2> QED
    BY <2>1, <2>2
<1>7. log \subseteq log' /\ RowsIn(log', cursor) = RowsIn(log, cursor)
  <2>1. log \subseteq log'
    BY <1>3 DEF Grows
  <2>2. cursor \in Nat /\ cursor <= ReadWatermark(log) /\ LogOk(log)
    BY WireIs DEF StreamInv, Past
  <2> QED
    BY <1>3, <2>1, <2>2, RowsGrow
<1> QED
  BY <1>6, <1>7

LEMMA CompletePush ==
  ASSUME SubsetsInv, StreamInv, CompleteInv, NEW b \in Batches, Push(b)
  PROVE  CompleteInv'
<1>1. UNCHANGED <<cursor, state, local, tracker>>
  BY DEF Push, session, rows
<1>2. OwedKept /\ log \subseteq log' /\ RowsIn(log', cursor) = RowsIn(log, cursor)
  BY PushOwed
<1> QED
  BY <1>1, <1>2, CompleteSame

LEMMA CompleteLoad ==
  ASSUME SubsetsInv, CompleteInv, NEW h \in Holders, NEW id \in Ids, Load(h, id)
  PROVE  CompleteInv'
<1>1. Loads(h, id)
  BY LoadInv
<1>2. log' = log /\ cursor' = cursor /\ wire' = wire /\ state' = state
  BY <1>1 DEF Loads, session
<1>3. OwedKept
  BY <1>2, OwedStays
<1>4. CASE LoadRejected(id)
  BY <1>2, <1>3, <1>4, CompleteDrops DEF LoadRejected
<1>5. CASE LoadAccepted(h, id)
  <2>1. RetainOk(tracker, tracker', id) /\ local' = local
    BY <1>5 DEF LoadAccepted
  <2>2. \A x \in DOMAIN tracker'.subsets : tracker'.subsets[x].loaded =>
          /\ x \in DOMAIN tracker.subsets /\ tracker.subsets[x].loaded
          /\ tracker'.subsets[x].keys = tracker.subsets[x].keys
    BY <2>1 DEF RetainOk
  <2> QED
    BY <1>2, <1>3, <2>1, <2>2, CompleteSame
<1> QED
  BY <1>1, <1>4, <1>5 DEF Loads

LEMMA RejectDrops ==
  ASSUME NEW F, RejectsOf(F)
  PROVE  Drops(tracker, tracker')
BY DEF RejectsOf, RejectOk, Drops

LEMMA StepComplete ==
  ASSUME SubsetsInv, QuietInv, StreamInv, CompleteInv, [Next]_vars
  PROVE  CompleteInv'
<1>1. CASE \E h \in Holders : Unload(h)
  <2>1. PICK h \in Holders : LetsGo(h)
    BY <1>1, UnloadInv
  <2>2. /\ Drops(tracker, tracker') /\ local' = DeleteKeys(local, Removed(tracker, tracker'))
        /\ UNCHANGED <<wire, log, cursor, state>>
    BY <2>1 DEF LetsGo, socket
  <2> QED
    BY <2>2, OwedStays, CompleteDrops
<1>2. CASE \E h \in Holders, id \in Ids : Load(h, id)
  BY <1>2, CompleteLoad
<1>3. CASE Deliver
  BY <1>3, CompleteDeliver
<1>4. CASE Reconnect
  <2>1. UNCHANGED <<wire, log, cursor, tracker, local>> /\ state' = "catching-up"
    BY <1>4, ReconnectInv DEF Reconnect, rows
  <2> QED
    BY <2>1, OwedStays, CompleteSame
<1>5. CASE \E id \in Ids : Retired(id)
  <2>1. PICK id \in Ids : Expires(id) /\ Drops(tracker, tracker')
    BY <1>5, RetiredInv
  <2>2. /\ local' = DeleteKeys(local, Removed(tracker, tracker'))
        /\ UNCHANGED <<wire, log, cursor, state>>
    BY <2>1 DEF Expires, socket
  <2> QED
    BY <2>1, <2>2, OwedStays, CompleteDrops
<1>6. CASE Handle
  <2> DEFINE m == Answer(Head(asked))
  <2>1. /\ wire' = Append(wire, m) /\ log' = log /\ cursor' = cursor /\ state' = state
        /\ tracker' = tracker /\ local' = local
    BY <1>6 DEF Handle, session, rows
  <2>2. Head(asked) \in Range(asked)
    BY <1>6, TailIs DEF Handle, SubsetsInv, PlacesOk
  <2>3. m.type # "updates"
    BY <2>2, AnswerIs
  <2> HIDE DEF m
  <2>4. OwedKept
    BY <2>1, <2>3, OwedAppend
  <2> QED
    BY <2>1, <2>4, CompleteSame
<1>7. CASE \E b \in Batches : Push(b)
  BY <1>7, CompletePush
<1>8. CASE Drop
  <2>1. UNCHANGED <<log, cursor>> /\ wire' = <<>> /\ state' = "disconnected"
    BY <1>8 DEF Drop
  <2>2. PICK F : RejectsOf(F)
    BY <1>8, DropInv
  <2> QED
    BY <2>1, <2>2, OwedStays, RejectDrops, CompleteDrops DEF RejectsOf
<1>9. CASE ConnectFails
  <2>1. UNCHANGED <<log, cursor, wire, state>>
    BY <1>9 DEF ConnectFails, socket, session
  <2>2. PICK F : RejectsOf(F)
    BY <1>9, ConnectFailsInv
  <2> QED
    BY <2>1, <2>2, OwedStays, RejectDrops, CompleteDrops DEF RejectsOf
<1>10. CASE UNCHANGED vars
  <2>1. UNCHANGED <<wire, log, cursor, state, tracker, local>>
    BY <1>10 DEF vars, socket, session, rows
  <2> QED
    BY <2>1, OwedStays, CompleteSame
<1> QED
  BY <1>1, <1>2, <1>3, <1>4, <1>5, <1>6, <1>7, <1>8, <1>9, <1>10
     DEF Next, LiveQuery, Client, Server

\* The subset of a live query that does not wait for it is loaded.
ServedInv == \A h \in Holders : Served(h) => Loaded(tracker, held[h])

LEMMA HeldThere ==
  ASSUME SubsetsInv', RefInv', NEW h \in Holders, held'[h] # None
  PROVE  held'[h] \in DOMAIN tracker'.subsets
<1> DEFINE id == held'[h]
           H == {g \in Holders : held'[g] = id}
<1>1. id \in Ids
  BY DEF SubsetsInv, Types
<1>2. Cardinality(H) = RefsOf(tracker', id)
  BY <1>1 DEF RefInv, HoldersOf
<1>3. H # {} /\ IsFiniteSet(H) /\ Cardinality(H) \in Nat
  BY HoldersFinite
<1>4. Cardinality(H) # 0
  BY <1>3, FS_EmptySet
<1> QED
  BY <1>2, <1>4 DEF RefsOf

LEMMA ServedKept ==
  ASSUME SubsetsInv', RefInv', ServedInv,
         \A x \in DOMAIN tracker'.subsets : Loaded(tracker, x) => Loaded(tracker', x),
         \A h \in Holders : Served(h)' =>
           (Served(h) /\ held'[h] = held[h]) \/ Loaded(tracker', held'[h])
  PROVE  ServedInv'
<1> SUFFICES ASSUME NEW h \in Holders, Served(h)'
             PROVE  Loaded(tracker', held'[h])
  BY DEF ServedInv, Loaded
<1>1. held'[h] \in DOMAIN tracker'.subsets
  BY HeldThere DEF Served
<1> QED
  BY <1>1 DEF ServedInv

LEMMA ServedSame ==
  ASSUME SubsetsInv', RefInv', ServedInv, SameSubsets(tracker, tracker'),
         held' = held, call' = call
  PROVE  ServedInv'
<1>1. \A x \in DOMAIN tracker'.subsets : Loaded(tracker, x) => Loaded(tracker', x)
  BY DEF SameSubsets, Loaded
<1>2. \A h \in Holders : Served(h)' => Served(h) /\ held'[h] = held[h]
  BY DEF Served
<1> QED
  BY <1>1, <1>2, ServedKept

LEMMA ServedDrops ==
  ASSUME SubsetsInv', RefInv', ServedInv, Drops(tracker, tracker'),
         \A h \in Holders : Served(h)' => Served(h) /\ held'[h] = held[h]
  PROVE  ServedInv'
<1>1. \A x \in DOMAIN tracker'.subsets : Loaded(tracker, x) => Loaded(tracker', x)
  BY DEF Drops, Loaded
<1> QED
  BY <1>1, ServedKept

LEMMA ServedRejects ==
  ASSUME SubsetsInv', RefInv', ServedInv, RefInv, NEW F, RejectsOf(F)
  PROVE  ServedInv'
<1>1. ASSUME NEW h \in Holders, Served(h)'
      PROVE  Served(h) /\ held'[h] = held[h]
  <2>1. h \notin F
    BY <1>1 DEF Served, RejectsOf
  <2> QED
    BY <1>1, <2>1 DEF Served, RejectsOf
<1> QED
  BY <1>1, RejectDrops, ServedDrops

LEMMA ServedAnswered ==
  ASSUME SubsetsInv, RefInv, SubsetsInv', RefInv', ServedInv, Deliver,
         Head(wire).type = "rows"
  PROVE  ServedInv'
<1> DEFINE g == Head(wire).holder
           id == call[g]
<1>1. /\ g \in Holders /\ id \in Ids /\ InstallOk(id, Head(wire).rows, View')
      /\ Answered(Head(wire))
  BY AnsweredInv
<1>2. held' = held /\ call' = [call EXCEPT ![g] = None]
  BY <1>1, Zenon DEF Answered
<1>3. ReplaceOk(tracker, tracker', id, DOMAIN Head(wire).rows)
  BY <1>1 DEF InstallOk, View
<1>4. id # None /\ held[g] = id
  BY <1>1, SessionIs DEF RefInv
<1> HIDE DEF g, id
<1>5. Loaded(tracker', id)
  BY <1>3 DEF ReplaceOk, Loaded
<1>6. \A x \in DOMAIN tracker'.subsets : Loaded(tracker, x) => Loaded(tracker', x)
  BY <1>3, <1>5 DEF ReplaceOk, Loaded
<1>7. \A h \in Holders : h # g => call'[h] = call[h]
  BY <1>1, <1>2 DEF SubsetsInv, Types
<1>8. \A h \in Holders : Served(h)' =>
        (Served(h) /\ held'[h] = held[h]) \/ Loaded(tracker', held'[h])
  BY <1>2, <1>4, <1>5, <1>7 DEF Served
<1> QED
  BY <1>6, <1>8, ServedKept

LEMMA ServedLoad ==
  ASSUME SubsetsInv, SubsetsInv', RefInv', ServedInv, NEW g \in Holders, NEW id \in Ids,
         Load(g, id)
  PROVE  ServedInv'
<1>1. Loads(g, id)
  BY LoadInv
<1>2. CASE LoadRejected(id)
  <2>1. Drops(tracker, tracker') /\ held' = held /\ call' = call
    BY <1>2 DEF LoadRejected, calls
  <2> QED
    BY <2>1, ServedDrops DEF Served
<1>3. CASE LoadAccepted(g, id)
  <2>1. /\ RetainOk(tracker, tracker', id) /\ held' = [held EXCEPT ![g] = id]
        /\ \/ Loaded(tracker, id) /\ call' = call
           \/ call' = [call EXCEPT ![g] = id]
    BY <1>3 DEF LoadAccepted
  <2>2. \A x \in DOMAIN tracker'.subsets : Loaded(tracker, x) => Loaded(tracker', x)
    BY <2>1 DEF RetainOk, Loaded
  <2>3. ASSUME NEW h \in Holders, Served(h)'
        PROVE  (Served(h) /\ held'[h] = held[h]) \/ Loaded(tracker', held'[h])
    <3>1. CASE h = g
      <4>1. call'[g] = None /\ held'[g] = id
        BY <2>1, <2>3, <3>1 DEF Served, SubsetsInv, Types
      <4>2. Loaded(tracker, id)
        BY <2>1, <4>1, SessionIs DEF SubsetsInv, Types
      <4>3. id \in DOMAIN tracker'.subsets
        BY <2>1 DEF RetainOk
      <4> QED
        BY <2>2, <3>1, <4>1, <4>2, <4>3
    <3>2. CASE h # g
      <4>1. held'[h] = held[h] /\ call'[h] = call[h]
        BY <2>1, <3>2 DEF SubsetsInv, Types
      <4> QED
        BY <2>3, <4>1 DEF Served
    <3> QED
      BY <3>1, <3>2
  <2> QED
    BY <2>2, <2>3, ServedKept
<1> QED
  BY <1>1, <1>2, <1>3 DEF Loads

LEMMA StepServed ==
  ASSUME SubsetsInv, RefInv, QuietInv, ServedInv, SubsetsInv', RefInv', [Next]_vars
  PROVE  ServedInv'
<1>0. SameSubsets(tracker, tracker)
  BY SameSubsetsRefl
<1>1. CASE \E h \in Holders : Unload(h)
  <2>1. PICK h \in Holders : LetsGo(h)
    BY <1>1, UnloadInv
  <2>2. /\ Drops(tracker, tracker') /\ held' = [held EXCEPT ![h] = None]
        /\ call' = call
    BY <2>1 DEF LetsGo
  <2>3. ASSUME NEW g \in Holders, Served(g)'
        PROVE  Served(g) /\ held'[g] = held[g]
    <3>1. g # h
      BY <2>2, <2>3 DEF Served, SubsetsInv, Types
    <3>2. held'[g] = held[g]
      BY <2>2, <3>1 DEF SubsetsInv, Types
    <3> QED
      BY <2>2, <2>3, <3>2 DEF Served
  <2> QED
    BY <2>2, <2>3, ServedDrops
<1>2. CASE \E h \in Holders, id \in Ids : Load(h, id)
  BY <1>2, ServedLoad
<1>3. CASE Deliver
  <2>1. CASE Head(wire).type = "updates"
    <3>1. SameSubsets(tracker, tracker') /\ held' = held /\ call' = call
      BY <1>3, <2>1, ReceiveInv DEF Receive, calls
    <3> QED
      BY <3>1, ServedSame
  <2>2. CASE Head(wire).type = "rows"
    BY <1>3, <2>2, ServedAnswered
  <2>3. CASE Head(wire).type = "history"
    BY <1>3, <2>3, CatchUpTracker, ServedSame
  <2>4. Head(wire).type # "reloaded"
    BY <1>3, HeadIs DEF Deliver, QuietInv, NoReload
  <2> QED
    BY <1>3, <2>1, <2>2, <2>3, <2>4, DeliverIs
<1>4. CASE Reconnect
  BY <1>0, <1>4, ReconnectInv, ServedSame DEF rows
<1>5. CASE \E id \in Ids : Retired(id)
  <2>1. PICK id \in Ids : Expires(id) /\ Drops(tracker, tracker')
    BY <1>5, RetiredInv
  <2>2. held' = held /\ call' = call
    BY <2>1 DEF Expires, calls
  <2> QED
    BY <2>1, <2>2, ServedDrops DEF Served
<1>6. CASE Handle
  BY <1>0, <1>6, ServedSame DEF Handle, calls, rows
<1>7. CASE \E b \in Batches : Push(b)
  BY <1>0, <1>7, ServedSame DEF Push, calls, rows
<1>8. CASE Drop
  BY <1>8, DropInv, ServedRejects
<1>9. CASE ConnectFails
  BY <1>9, ConnectFailsInv, ServedRejects
<1>10. CASE UNCHANGED vars
  BY <1>0, <1>10, ServedSame DEF vars, calls, rows
<1> QED
  BY <1>1, <1>2, <1>3, <1>4, <1>5, <1>6, <1>7, <1>8, <1>9, <1>10
     DEF Next, LiveQuery, Client, Server

LEMMA InitRows ==
  ASSUME Init
  PROVE  CompleteInv /\ ServedInv
<1>1. DOMAIN tracker.subsets = {} /\ held = [h \in Holders |-> None]
  BY DEF Init
<1> QED
  BY <1>1 DEF CompleteInv, ServedInv, Served

RowsInv ==
  SubsetsInv /\ RefInv /\ QuietInv /\ StreamInv /\ CompleteInv /\ ServedInv

LEMMA StepRows ==
  ASSUME RowsInv, ~Impatient, NothingPruned, [Next]_vars
  PROVE  RowsInv'
<1>1. SubsetsInv'
  BY StepInv DEF RowsInv
<1>2. RefInv'
  BY StepRefs DEF RowsInv
<1>3. QuietInv' /\ StreamInv' /\ CompleteInv'
  BY StepQuiet, StepStream, StepComplete DEF RowsInv
<1>4. ServedInv'
  BY <1>1, <1>2, StepServed DEF RowsInv
<1> QED
  BY <1>1, <1>2, <1>3, <1>4 DEF RowsInv

(* When the session is synchronized, a live query whose subset was loaded  *)
(* has all the rows of it that the shard had at the cursor, whatever       *)
(* broadcasts crossed the answers to its reads and whatever it missed when *)
(* it had no socket (collection.ts, collection-broadcast.ts, subsets.ts),  *)
(* when live queries wait for their subsets and the session need not       *)
(* reload them.                                                            *)
THEOREM SubsetsAreComplete ==
  ASSUME ~Impatient, NothingPruned
  PROVE  Spec => []SubsetsComplete
<1>1. Init => RowsInv
  BY InitInv, InitRefs, InitQuiet, InitStream, InitRows DEF RowsInv
<1>2. RowsInv /\ [Next]_vars => RowsInv'
  BY StepRows
<1>3. RowsInv => SubsetsComplete
  <2> SUFFICES ASSUME RowsInv, state = "synchronized", NEW h \in Holders, Served(h),
                      NEW k \in Keys, RowsAt(cursor)[k] \in Accepts[held[h]]
               PROVE  /\ local[k] = RowsAt(cursor)[k]
                      /\ k \in tracker.subsets[held[h]].keys
    BY DEF SubsetsComplete
  <2>1. Loaded(tracker, held[h])
    BY DEF RowsInv, ServedInv
  <2>2. Settled(k)
    BY DEF Settled, Owed
  <2>3. RowsAt(cursor) = RowsIn(log, cursor)
    BY RowsAtIs
  <2> QED
    BY <2>1, <2>2, <2>3 DEF RowsInv, CompleteInv, Complete, Loaded
<1> QED
  BY <1>1, <1>2, <1>3, PTL DEF Spec
-----------------------------------------------------------------------------
(***************************************************************************)
(* No stale rows, when a row is written once in a batch and in a page.     *)
(***************************************************************************)
SingleWrites ==
  /\ ChangesLimit = 1
  /\ \A b \in Batches : \A i, j \in DOMAIN b : b[i].key = b[j].key => i = j

OnceEach(U) == \A c, d \in U : c.key = d.key => c = d

WritesOnce(m) ==
  /\ m.type = "updates" => OnceEach(m.updates)
  /\ m.type = "history" => OnceEach(m.answer.updates)

OnceInv == \A i \in DOMAIN wire : WritesOnce(wire[i])

LEMMA PageOnce ==
  ASSUME LogOk(log), NEW at, ChangesLimit = 1, PageOf(at).type = "changes"
  PROVE  OnceEach(PageOf(at).updates)
<1> DEFINE latest == [s \in {Collection} |-> Watermark]
           req == [s \in {Collection} |-> at]
           stale == {s \in DOMAIN req : IsCursorStale(log, latest, s, req[s])}
           wanted == {c \in log : c.scope \in DOMAIN req /\ c.seq > req[c.scope]}
           found == FirstRows(wanted, ChangesLimit + 1)
           page == FirstRows(found, ChangesLimit)
           last(s) == IF InScope(page, s) = {} THEN req[s]
                      ELSE Max(SeqNumbers(InScope(page, s)))
           more == Cardinality(found) > ChangesLimit
           p == PageOf(at)
<1>1. p = IF stale # {}
          THEN [type |-> "resyncRequired", collections |-> stale,
                watermark |-> ReadWatermark(log)]
          ELSE [type |-> "changes", updates |-> page, watermark |-> ReadWatermark(log),
                hasMore |-> more,
                cursors |-> [s \in DOMAIN req |->
                               IF more THEN last(s) ELSE ReadWatermark(log)]]
  BY Zenon DEF PageOf, ReadChanges, SelectChanges
<1>2. p.type = "changes"
  OBVIOUS
<1>3. Numbered(wanted) /\ ChangesLimit \in Nat /\ ChangesLimit + 1 \in Nat
  <2>1. wanted \in SUBSET log
    OBVIOUS
  <2> QED
    BY <2>1, NumberedSubset, SubsetsAssumption DEF LogOk
<1> HIDE DEF p, stale, wanted
<1>4. Numbered(found)
  <2>1. found \in SUBSET wanted
    BY <1>3, FirstRowsAre
  <2> HIDE DEF found
  <2> QED
    BY <1>3, <2>1, NumberedSubset
<1> HIDE DEF found
<1>5. IsFiniteSet(page) /\ Cardinality(page) \in Nat /\ Cardinality(page) <= 1
  <2>1. /\ IsFiniteSet(page) /\ Cardinality(found) \in Nat
        /\ Cardinality(page) = IF Cardinality(found) <= ChangesLimit
                               THEN Cardinality(found) ELSE ChangesLimit
    BY <1>3, <1>4, FirstRowsAre
  <2> HIDE DEF page
  <2> QED
    BY <2>1
<1>6. p.updates = page
  <2> HIDE DEF page, more
  <2> QED
    BY <1>1, <1>2
<1> HIDE DEF page
<1>7. \A c, d \in page : c = d
  <2>1. CASE Cardinality(page) = 0
    BY <1>5, <2>1, FS_EmptySet
  <2>2. CASE Cardinality(page) = 1
    <3>1. \E x : page = {x}
      BY <1>5, <2>2, FS_Singleton
    <3> QED
      BY <3>1
  <2> QED
    BY <1>5, <2>1, <2>2
<1> QED
  BY <1>6, <1>7 DEF OnceEach, p

LEMMA AnswerOnce ==
  ASSUME SubsetsInv, QuietInv, StreamInv, NothingPruned, SingleWrites,
         NEW who \in Range(asked)
  PROVE  WritesOnce(Answer(who))
<1> DEFINE m == Answer(who)
<1>1. LogOk(log) /\ cursor \in Nat /\ who \in Askers /\ reloading = None
      /\ cursor <= Watermark
  BY NowIs, SeqIs DEF SubsetsInv, Types, PlacesOk, QuietInv, StreamInv, Past
<1>2. CASE who # Session
  <2>1. m = [type |-> "rows", holder |-> who, rows |-> ReadRows(call[who])]
    BY <1>2 DEF Answer
  <2>2. m.type = "rows"
    BY <2>1
  <2> HIDE DEF m
  <2> QED
    BY <2>2 DEF WritesOnce, m
<1>3. CASE who = Session
  <2>1. m = [type |-> "history", answer |-> ReadChanges(Changes,
               [s \in {Collection} |-> Watermark], [s \in {Collection} |-> cursor],
               ChangesLimit)]
    BY <1>1, <1>3, Zenon DEF Answer
  <2>2. m = [type |-> "history", answer |-> PageOf(cursor)]
    BY <1>1, <2>1, AllKept DEF PageOf
  <2>3. m.type = "history" /\ m.answer = PageOf(cursor)
    BY <2>2
  <2>4. PageOf(cursor).type = "changes"
    BY <1>1, PageIs DEF PageOk
  <2>5. OnceEach(PageOf(cursor).updates)
    BY <1>1, <2>4, PageOnce DEF SingleWrites
  <2> HIDE DEF m
  <2> QED
    BY <2>3, <2>5 DEF WritesOnce, m
<1> QED
  BY <1>2, <1>3

LEMMA PushedOnce ==
  ASSUME SubsetsInv, SingleWrites, NEW b \in Batches
  PROVE  OnceEach(Pushed(b))
<1> SUFFICES ASSUME NEW i \in DOMAIN b, NEW j \in DOMAIN b, b[i].key = b[j].key
             PROVE  i = j
  BY DEF OnceEach, Pushed
<1> QED
  BY DEF SingleWrites

LEMMA OnceAppend ==
  ASSUME SubsetsInv, OnceInv, NEW m, WritesOnce(m), wire' = Append(wire, m)
  PROVE  OnceInv'
<1> DEFINE S == Range(wire) \cup {m}
           r == Append(wire, m)
<1>1. wire \in Seq(Range(wire)) /\ DOMAIN wire = 1..Len(wire) /\ Len(wire) \in Nat
  BY WireIs
<1>2. wire \in Seq(S) /\ m \in S
  BY <1>1
<1> HIDE DEF S
<1>3. /\ DOMAIN r = 1..(Len(wire) + 1) /\ r[Len(wire) + 1] = m
      /\ \A i \in DOMAIN wire : r[i] = wire[i]
  BY <1>2, AppendIs
<1>4. wire' = r
  OBVIOUS
<1> HIDE DEF r
<1>5. \A i \in DOMAIN r : i \in DOMAIN wire \/ i = Len(wire) + 1
  BY <1>1, <1>3
<1> QED
  BY <1>3, <1>4, <1>5 DEF OnceInv

LEMMA StepOnce ==
  ASSUME SubsetsInv, QuietInv, StreamInv, OnceInv, NothingPruned, SingleWrites, [Next]_vars
  PROVE  OnceInv'
<1>0. wire' = wire => OnceInv'
  BY DEF OnceInv
<1>1. CASE \E h \in Holders : Unload(h)
  BY <1>0, <1>1, UnloadInv DEF LetsGo, socket
<1>2. CASE \E h \in Holders, id \in Ids : Load(h, id)
  BY <1>0, <1>2, LoadInv DEF Loads
<1>3. CASE Deliver
  <2>1. wire # <<>> /\ wire' = Tail(wire)
    BY <1>3 DEF Deliver
  <2>2. \A i \in DOMAIN wire' : \E j \in DOMAIN wire : wire'[i] = wire[j]
    BY <2>1, HeadIs
  <2> QED
    BY <2>2 DEF OnceInv
<1>4. CASE Reconnect
  BY <1>0, <1>4, ReconnectInv
<1>5. CASE \E id \in Ids : Retired(id)
  BY <1>0, <1>5, RetiredInv DEF Expires, socket
<1>6. CASE Handle
  <2> DEFINE m == Answer(Head(asked))
  <2>1. wire' = Append(wire, m)
    BY <1>6 DEF Handle
  <2>2. Head(asked) \in Range(asked)
    BY <1>6, TailIs DEF Handle, SubsetsInv, PlacesOk
  <2>3. WritesOnce(m)
    BY <2>2, AnswerOnce
  <2> HIDE DEF m
  <2> QED
    BY <2>1, <2>3, OnceAppend
<1>7. CASE \E b \in Batches : Push(b)
  <2>1. PICK b \in Batches : Push(b)
    BY <1>7
  <2> DEFINE m == [type |-> "updates", updates |-> Pushed(b),
                   watermark |-> Watermark + Len(b)]
  <2>2. wire' = IF connected THEN Append(wire, m) ELSE wire
    BY <2>1 DEF Push, Pushed
  <2>3. WritesOnce(m)
    <3>1. m.type = "updates" /\ m.updates = Pushed(b)
      OBVIOUS
    <3> HIDE DEF m
    <3> QED
      BY <3>1, PushedOnce DEF WritesOnce
  <2> HIDE DEF m
  <2> QED
    BY <1>0, <2>2, <2>3, OnceAppend
<1>8. CASE Drop
  <2>1. DOMAIN wire' = {}
    BY <1>8 DEF Drop
  <2> QED
    BY <2>1 DEF OnceInv
<1>9. CASE ConnectFails
  BY <1>0, <1>9 DEF ConnectFails, socket
<1>10. CASE UNCHANGED vars
  BY <1>0, <1>10 DEF vars, socket
<1> QED
  BY <1>1, <1>2, <1>3, <1>4, <1>5, <1>6, <1>7, <1>8, <1>9, <1>10
     DEF Next, LiveQuery, Client, Server

\* The client has the row as it is, or not at all.
Exact(k) == local[k] = Gone \/ local[k] = RowsIn(log, cursor)[k]
ExactInv == \A k \in Keys : Settled(k) => Exact(k)

\* Rows are deleted, or nothing happens to them.
LEMMA ExactKept ==
  ASSUME ExactInv, cursor' = cursor, log \subseteq log',
         RowsIn(log', cursor) = RowsIn(log, cursor), OwedKept,
         \A k \in Keys : local'[k] = Gone \/ local'[k] = local[k]
  PROVE  ExactInv'
BY SettledKept DEF ExactInv, Exact

LEMMA RowsDeletedAre ==
  ASSUME NEW K, local' = DeleteKeys(local, K)
  PROVE  \A k \in Keys : local'[k] = Gone \/ local'[k] = local[k]
BY DEF DeleteKeys

LEMMA ExactFollows ==
  ASSUME SubsetsInv, ExactInv, NEW n \in Nat, cursor \in Nat, cursor <= n,
         Applied(Between(log, cursor, n)), cursor' = n, log' = log,
         OnceEach(Between(log, cursor, n)),
         \A k \in Keys : Settled(k)' /\ (\A c \in Between(log, cursor, n) : c.key # k)
                           => Settled(k)
  PROVE  ExactInv'
<1> DEFINE U == Between(log, cursor, n)
<1>1. PICK w \in Views : ApplyOk(View, w, U) /\ local' = w.local
  BY DEF Applied
<1>2. LogOk(log) /\ U \in SUBSET Entry
  BY WireIs, BetweenIs
<1> HIDE DEF U
<1> SUFFICES ASSUME NEW k \in Keys, Settled(k)'
             PROVE  local'[k] = Gone \/ local'[k] = RowsIn(log, n)[k]
  BY DEF ExactInv, Exact
<1>3. CASE \E b \in U : b.key = k
  <2>1. PICK c \in U : IsLast(c, U, k)
    BY <1>2, <1>3, LastIn
  <2>2. c.key = k /\ \A d \in U : d.key = c.key => d = c
    BY <2>1 DEF IsLast, OnceEach, U
  <2>3. w.local[k] \in {Gone, c.value}
    BY <1>1, <2>2 DEF ApplyOk
  <2>4. RowsIn(log, n)[k] = c.value
    BY <1>2, <2>1, RowsLast DEF U
  <2> QED
    BY <1>1, <2>3, <2>4
<1>4. CASE \A b \in U : b.key # k
  <2>1. Settled(k)
    BY <1>4 DEF U
  <2>2. RowsIn(log, n)[k] = RowsIn(log, cursor)[k]
    BY <1>2, <1>4, RowsSame DEF U
  <2>3. SameRow(View, w, k)
    BY <1>1, <1>4 DEF ApplyOk
  <2> QED
    BY <1>1, <2>1, <2>2, <2>3 DEF SameRow, View, ExactInv, Exact
<1> QED
  BY <1>3, <1>4

LEMMA ExactAnswered ==
  ASSUME SubsetsInv, StreamInv, ExactInv, NEW h, NEW n, AnsweredOk(h, n)
  PROVE  ExactInv'
<1> DEFINE id == call[h]
           read == ReadIn(log, id, n)
           keys == AcceptedIn(log, id, n)
<1>1. /\ n \in Nat /\ cursor <= n /\ cursor \in Nat /\ state' = state /\ cursor' = cursor
      /\ log' = log /\ wire # <<>> /\ wire' = Tail(wire)
      /\ InstallOk(id, read, View') /\ LogOk(log)
  BY NowIs DEF AnsweredOk, MomentOk, Past, SubsetsInv, Types
<1>2. OwedKept
  BY <1>1, OwedTail
<1>3. DOMAIN read = keys /\ \A k \in keys : read[k] = RowsIn(log, n)[k]
  BY DEF ReadIn
<1> HIDE DEF id, read
<1>4. \A k \in Keys : local'[k] = IF k \in keys THEN RowsIn(log, n)[k]
                                  ELSE IF k \in Removed(tracker, tracker') THEN Gone
                                  ELSE local[k]
  BY <1>1, <1>3 DEF InstallOk, View
<1> SUFFICES ASSUME NEW k \in Keys, Settled(k)'
             PROVE  local'[k] = Gone \/ local'[k] = RowsIn(log, cursor)[k]
  BY <1>1 DEF ExactInv, Exact
<1>5. RowsIn(log, n)[k] = RowsIn(log, cursor)[k]
  <2>1. \A c \in Between(log, cursor, n) : c.key # k
    BY NoneBetween
  <2> QED
    BY <1>1, <2>1, RowsSame
<1>6. Settled(k)
  BY <1>1, <1>2, SettledKept
<1> QED
  BY <1>4, <1>5, <1>6 DEF ExactInv, Exact

LEMMA ExactDeliver ==
  ASSUME SubsetsInv, QuietInv, StreamInv, OnceInv, ExactInv, Deliver
  PROVE  ExactInv'
<1>0. cursor \in Nat /\ 1 \in DOMAIN wire
  BY NowIs, HeadIs DEF SubsetsInv, Types, Deliver
<1>1. CASE Head(wire).type = "updates"
  <2>1. PICK n : ReceiveOk(n)
    BY <1>1, ReceiveIs
  <2>2. n \in Nat /\ wire # <<>> /\ wire' = Tail(wire) /\ log' = log /\ state' = state
    BY <2>1 DEF ReceiveOk
  <2>3. CASE state = "synchronized"
    <3>1. /\ cursor' = n /\ cursor <= n /\ Applied(Between(log, cursor, n))
          /\ wire[1].type = "updates" /\ Between(log, cursor, n) \subseteq wire[1].updates
      BY <2>1, <2>3 DEF ReceiveOk
    <3>2. \A k : Settled(k)
      BY <2>3 DEF Settled, Owed
    <3>3. OnceEach(Between(log, cursor, n))
      BY <1>0, <3>1 DEF OnceInv, WritesOnce, OnceEach
    <3> QED
      BY <1>0, <2>2, <3>1, <3>2, <3>3, ExactFollows
  <2>4. CASE state # "synchronized"
    <3>1. View' = View
      BY <2>1, <2>4 DEF ReceiveOk
    <3>2. local' = local /\ cursor' = cursor
      BY <3>1 DEF View
    <3>3. OwedKept
      BY <2>2, <3>2, OwedTail
    <3> QED
      BY <2>2, <3>2, <3>3, ExactKept
  <2> QED
    BY <2>3, <2>4
<1>2. CASE Head(wire).type = "rows"
  BY <1>2, AnsweredIs, ExactAnswered
<1>3. CASE Head(wire).type = "history"
  <2>1. PICK n, next : CaughtUp(n, next)
    BY <1>3, CaughtUpIs
  <2>2. /\ next \in Nat /\ cursor <= next /\ cursor' = next /\ log' = log
        /\ Applied(Between(log, cursor, next)) /\ wire[1].type = "history"
        /\ wire[1].answer.updates = Between(log, cursor, next)
    BY <2>1 DEF CaughtUp
  <2>3. \A k \in Keys : Settled(k)' /\ (\A c \in Between(log, cursor, next) : c.key # k)
                          => Settled(k)
    BY <2>1, SettledBefore
  <2>4. OnceEach(Between(log, cursor, next))
    BY <1>0, <2>2 DEF OnceInv, WritesOnce
  <2> QED
    BY <1>0, <2>2, <2>3, <2>4, ExactFollows
<1>4. Head(wire).type # "reloaded"
  BY HeadIs DEF Deliver, QuietInv, NoReload
<1> QED
  BY <1>1, <1>2, <1>3, <1>4, DeliverIs

LEMMA ExactPush ==
  ASSUME SubsetsInv, StreamInv, ExactInv, NEW b \in Batches, Push(b)
  PROVE  ExactInv'
<1>1. UNCHANGED <<cursor, state, local>>
  BY DEF Push, session, rows
<1>2. OwedKept /\ log \subseteq log' /\ RowsIn(log', cursor) = RowsIn(log, cursor)
  BY PushOwed
<1> QED
  BY <1>1, <1>2, ExactKept

LEMMA StepExact ==
  ASSUME SubsetsInv, QuietInv, StreamInv, OnceInv, ExactInv, [Next]_vars
  PROVE  ExactInv'
<1>0. ASSUME UNCHANGED <<log, cursor>>, OwedKept,
             \A k \in Keys : local'[k] = Gone \/ local'[k] = local[k]
      PROVE  ExactInv'
  BY <1>0, ExactKept
<1>1. CASE \E h \in Holders : Unload(h)
  <2>1. PICK h \in Holders : LetsGo(h)
    BY <1>1, UnloadInv
  <2>2. /\ local' = DeleteKeys(local, Removed(tracker, tracker'))
        /\ UNCHANGED <<wire, log, cursor, state>>
    BY <2>1 DEF LetsGo, socket
  <2> QED
    BY <1>0, <2>2, OwedStays, RowsDeletedAre
<1>2. CASE \E h \in Holders, id \in Ids : Load(h, id)
  <2>1. PICK h \in Holders, id \in Ids : Loads(h, id)
    BY <1>2, LoadInv
  <2>2. UNCHANGED <<wire, log, cursor, state>>
    BY <2>1 DEF Loads, session
  <2>3. \A k \in Keys : local'[k] = Gone \/ local'[k] = local[k]
    BY <2>1, RowsDeletedAre DEF Loads, LoadRejected, LoadAccepted
  <2> QED
    BY <1>0, <2>2, <2>3, OwedStays
<1>3. CASE Deliver
  BY <1>3, ExactDeliver
<1>4. CASE Reconnect
  <2>1. UNCHANGED <<wire, log, cursor, local>> /\ state' = "catching-up"
    BY <1>4, ReconnectInv DEF Reconnect, rows
  <2> QED
    BY <1>0, <2>1, OwedStays
<1>5. CASE \E id \in Ids : Retired(id)
  <2>1. PICK id \in Ids : Expires(id)
    BY <1>5, RetiredInv
  <2>2. /\ local' = DeleteKeys(local, Removed(tracker, tracker'))
        /\ UNCHANGED <<wire, log, cursor, state>>
    BY <2>1 DEF Expires, socket
  <2> QED
    BY <1>0, <2>2, OwedStays, RowsDeletedAre
<1>6. CASE Handle
  <2> DEFINE m == Answer(Head(asked))
  <2>1. /\ wire' = Append(wire, m) /\ log' = log /\ cursor' = cursor /\ state' = state
        /\ local' = local
    BY <1>6 DEF Handle, session, rows
  <2>2. Head(asked) \in Range(asked)
    BY <1>6, TailIs DEF Handle, SubsetsInv, PlacesOk
  <2>3. m.type # "updates"
    BY <2>2, AnswerIs
  <2> HIDE DEF m
  <2>4. OwedKept
    BY <2>1, <2>3, OwedAppend
  <2> QED
    BY <1>0, <2>1, <2>4
<1>7. CASE \E b \in Batches : Push(b)
  BY <1>7, ExactPush
<1>8. CASE Drop
  <2>1. UNCHANGED <<log, cursor>> /\ wire' = <<>> /\ state' = "disconnected"
    BY <1>8 DEF Drop
  <2>2. PICK F : RejectsOf(F)
    BY <1>8, DropInv
  <2> QED
    BY <1>0, <2>1, <2>2, OwedStays, RowsDeletedAre DEF RejectsOf
<1>9. CASE ConnectFails
  <2>1. UNCHANGED <<log, cursor, wire, state>>
    BY <1>9 DEF ConnectFails, socket, session
  <2>2. PICK F : RejectsOf(F)
    BY <1>9, ConnectFailsInv
  <2> QED
    BY <1>0, <2>1, <2>2, OwedStays, RowsDeletedAre DEF RejectsOf
<1>10. CASE UNCHANGED vars
  <2>1. UNCHANGED <<wire, log, cursor, state, local>>
    BY <1>10 DEF vars, socket, session, rows
  <2> QED
    BY <1>0, <2>1, OwedStays
<1> QED
  BY <1>1, <1>2, <1>3, <1>4, <1>5, <1>6, <1>7, <1>8, <1>9, <1>10
     DEF Next, LiveQuery, Client, Server

LEMMA InitExact ==
  ASSUME Init
  PROVE  OnceInv /\ ExactInv
<1>1. wire = <<>> /\ local = [k \in Keys |-> Gone]
  BY DEF Init
<1>2. DOMAIN wire = {}
  BY <1>1
<1> QED
  BY <1>1, <1>2 DEF OnceInv, ExactInv, Exact

CopyInv == SubsetsInv /\ QuietInv /\ StreamInv /\ OnceInv /\ ExactInv

LEMMA StepCopy ==
  ASSUME CopyInv, NothingPruned, SingleWrites, [Next]_vars
  PROVE  CopyInv'
<1>1. SubsetsInv' /\ QuietInv' /\ StreamInv'
  BY StepInv, StepQuiet, StepStream DEF CopyInv
<1>2. OnceInv' /\ ExactInv'
  BY StepOnce, StepExact DEF CopyInv
<1> QED
  BY <1>1, <1>2 DEF CopyInv

(* When the session is synchronized, no row that was deleted and no older  *)
(* content of a row matches the predicate of a live query: also when live  *)
(* queries unmount before their rows are there.  A batch or a page that    *)
(* writes a row twice is excluded, since applyCollectionBroadcast asks     *)
(* whether the client has the row before it writes any of them             *)
(* (collection-broadcast.ts); and the session need not reload.             *)
THEOREM SubsetsAreExact ==
  ASSUME NothingPruned, SingleWrites
  PROVE  Spec => []SubsetsExact
<1>1. Init => CopyInv
  BY InitInv, InitQuiet, InitStream, InitExact DEF CopyInv
<1>2. CopyInv /\ [Next]_vars => CopyInv'
  BY StepCopy
<1>3. CopyInv => SubsetsExact
  <2> SUFFICES ASSUME CopyInv, state = "synchronized", NEW h \in Holders, Served(h),
                      NEW k \in Keys, local[k] \in Accepts[held[h]]
               PROVE  local[k] = RowsAt(cursor)[k]
    BY DEF SubsetsExact
  <2>1. held[h] \in Ids
    BY DEF CopyInv, SubsetsInv, Types, Served
  <2>2. local[k] # Gone
    BY <2>1, AcceptsValues
  <2>3. Settled(k)
    BY DEF Settled, Owed
  <2>4. RowsAt(cursor) = RowsIn(log, cursor)
    BY RowsAtIs
  <2> QED
    BY <2>2, <2>3, <2>4 DEF CopyInv, ExactInv, Exact
<1> QED
  BY <1>1, <1>2, <1>3, PTL DEF Spec

=============================================================================
