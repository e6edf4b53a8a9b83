--------------------------- MODULE ChangeLogProofs ---------------------------
(***************************************************************************)
(* Lemmas about the queries of ChangeLog, and about numbers and folds.     *)
(***************************************************************************)
EXTENDS ChangeLog, WellFoundedInduction, FiniteSetTheorems, TLAPS

LEMMA LeastNumber ==
  ASSUME NEW S \in SUBSET Nat, S # {}
  PROVE  \E m \in S : \A n \in S : m <= n
<1> DEFINE less == OpToRel(<, Nat)
<1>1. \A m, n \in Nat : <<m, n>> \in less <=> m < n
  BY DEF OpToRel
<1>2. IsWellFoundedOn(less, Nat)
  BY NatLessThanWellFounded
<1> HIDE DEF less
<1>3. PICK m \in S : \A n \in S : ~(<<n, m>> \in less)
  BY <1>2, WFMin
<1>4. ASSUME NEW n \in S
      PROVE  m <= n
  <2>1. m \in Nat /\ n \in Nat
    OBVIOUS
  <2>2. ~(n < m)
    BY <1>1, <1>3, <2>1
  <2> QED
    BY <2>1, <2>2
<1> QED
  BY <1>4

LEMMA GreatestNumber ==
  ASSUME NEW S \in SUBSET Nat, S # {}, NEW bound \in Nat,
         \A n \in S : n <= bound
  PROVE  \E m \in S : \A n \in S : n <= m
<1> DEFINE mirror == {bound - n : n \in S}
<1>1. mirror \in SUBSET Nat /\ mirror # {}
  <2>1. \A n \in S : bound - n \in Nat
    <3> TAKE n \in S
    <3>1. n \in Nat /\ n <= bound
      OBVIOUS
    <3> QED
      BY <3>1
  <2> QED
    BY <2>1
<1>2. PICK k \in mirror : \A n \in mirror : k <= n
  BY <1>1, LeastNumber
<1>3. PICK m \in S : k = bound - m
  BY <1>2
<1>4. \A n \in S : n <= m
  <2> SUFFICES ASSUME NEW n \in S
               PROVE  n <= m
    OBVIOUS
  <2>1. bound - n \in mirror
    OBVIOUS
  <2>2. bound - m <= bound - n
    BY <1>2, <1>3, <2>1
  <2> QED
    BY <2>2
<1> QED
  BY <1>4

LEMMA MinIsLeast ==
  ASSUME NEW S \in SUBSET Nat, S # {}
  PROVE  Min(S) \in S /\ \A n \in S : Min(S) <= n
BY LeastNumber DEF Min

LEMMA MaxIsGreatest ==
  ASSUME NEW S \in SUBSET Nat, S # {}, NEW bound \in Nat,
         \A n \in S : n <= bound
  PROVE  Max(S) \in S /\ \A n \in S : n <= Max(S)
<1>1. \E m \in S : \A n \in S : m >= n
  BY GreatestNumber
<1>2. Max(S) \in S /\ \A n \in S : Max(S) >= n
  BY <1>1 DEF Max
<1> QED
  BY <1>2

-----------------------------------------------------------------------------
(* Rows of the table: finitely many, each under a number of its own.       *)
Numbered(rows) ==
  /\ IsFiniteSet(rows)
  /\ \A c \in rows : c.seq \in Nat
  /\ \A c, d \in rows : c.seq = d.seq => c = d

(* The rows that ORDER BY places up to a row.                              *)
UpTo(rows, c) == {d \in rows : d.seq <= c.seq}

LEMMA NumberedSubset ==
  ASSUME NEW rows, Numbered(rows), NEW some \in SUBSET rows
  PROVE  Numbered(some)
BY FS_Subset DEF Numbered

(* The position of a row in the order is a bijection.                      *)
LEMMA Positions ==
  ASSUME NEW rows, Numbered(rows)
  PROVE  LET n == Cardinality(rows)
             position == [c \in rows |-> Cardinality(UpTo(rows, c))]
         IN  /\ n \in Nat
             /\ position \in Injection(rows, 1..n)
             /\ position \in Surjection(rows, 1..n)
<1> DEFINE n == Cardinality(rows)
           position == [c \in rows |-> Cardinality(UpTo(rows, c))]
<1>1. n \in Nat
  BY FS_CardinalityType DEF Numbered
<1>2. \A c \in rows : /\ IsFiniteSet(UpTo(rows, c))
                      /\ Cardinality(UpTo(rows, c)) \in 1..n
  <2> TAKE c \in rows
  <2>1. UpTo(rows, c) \in SUBSET rows /\ c \in UpTo(rows, c)
    BY DEF UpTo, Numbered
  <2>2. IsFiniteSet(UpTo(rows, c)) /\ Cardinality(UpTo(rows, c)) <= n
    BY <2>1, FS_Subset DEF Numbered
  <2>3. Cardinality(UpTo(rows, c)) \in Nat /\ Cardinality(UpTo(rows, c)) # 0
    BY <2>1, <2>2, FS_CardinalityType, FS_EmptySet
  <2> QED
    BY <1>1, <2>2, <2>3
<1>3. position \in [rows -> 1..n]
  BY <1>2
<1>4. ASSUME NEW c \in rows, NEW d \in rows, c.seq < d.seq
      PROVE  Cardinality(UpTo(rows, c)) # Cardinality(UpTo(rows, d))
  <2>1. UpTo(rows, c) \in SUBSET UpTo(rows, d)
    BY <1>4 DEF UpTo, Numbered
  <2>2. d \in UpTo(rows, d) /\ d \notin UpTo(rows, c)
    BY <1>4 DEF UpTo, Numbered
  <2> QED
    BY <1>2, <2>1, <2>2, FS_Subset
<1>5. ASSUME NEW c \in rows, NEW d \in rows, position[c] = position[d]
      PROVE  c = d
  <2>1. ~(c.seq < d.seq) /\ ~(d.seq < c.seq)
    BY <1>4, <1>5
  <2> QED
    BY <2>1 DEF Numbered
<1>6. position \in Injection(rows, 1..n)
  BY <1>3, <1>5 DEF Injection, IsInjective
<1>7. IsFiniteSet(1..n) /\ Cardinality(1..n) = n
  BY <1>1, FS_Interval
<1>8. position \in Surjection(rows, 1..n)
  BY <1>6, <1>7, FS_Injection
<1> QED
  BY <1>1, <1>6, <1>8

(* What ORDER BY sequence LIMIT limit returns: rows before which there is  *)
(* none that it leaves out, and as many as there are or as it may.         *)
LEMMA FirstRowsAre ==
  ASSUME NEW rows, Numbered(rows), NEW limit \in Nat
  PROVE  LET first == FirstRows(rows, limit) IN
         /\ first \in SUBSET rows /\ IsFiniteSet(first)
         /\ \A c \in first, d \in rows : d.seq <= c.seq => d \in first
         /\ Cardinality(rows) \in Nat
         /\ Cardinality(first) = IF Cardinality(rows) <= limit
                                 THEN Cardinality(rows) ELSE limit
         /\ Cardinality(rows) <= limit => first = rows
<1> DEFINE first == FirstRows(rows, limit)
           n == Cardinality(rows)
           position == [c \in rows |-> Cardinality(UpTo(rows, c))]
           m == IF n <= limit THEN n ELSE limit
           part == [c \in first |-> position[c]]
<1>1. /\ n \in Nat
      /\ position \in Injection(rows, 1..n)
      /\ position \in Surjection(rows, 1..n)
  BY Positions
<1>2. first = {c \in rows : position[c] <= limit}
  BY DEF FirstRows, UpTo
<1>3. first \in SUBSET rows /\ IsFiniteSet(first)
  BY <1>2, FS_Subset DEF Numbered
<1>4. ASSUME NEW c \in first, NEW d \in rows, d.seq <= c.seq
      PROVE  d \in first
  <2>1. UpTo(rows, d) \in SUBSET UpTo(rows, c)
    BY <1>3, <1>4 DEF UpTo, Numbered
  <2>2. IsFiniteSet(UpTo(rows, c))
    BY FS_Subset DEF UpTo, Numbered
  <2>3. Cardinality(UpTo(rows, d)) <= Cardinality(UpTo(rows, c))
    BY <2>1, <2>2, FS_Subset
  <2>4. position[c] <= limit /\ position[c] \in Nat /\ position[d] \in Nat
    BY <1>1, <1>2 DEF Injection
  <2>5. position[d] <= position[c]
    BY <1>3, <2>3
  <2> QED
    BY <1>2, <2>4, <2>5
<1> HIDE DEF first, n, position
<1>5. /\ part \in [first -> 1..m]
      /\ \A c, d \in first : part[c] = part[d] => c = d
  BY <1>1, <1>2 DEF Injection, IsInjective
<1>6. \A k \in 1..m : \E c \in first : part[c] = k
  <2> TAKE k \in 1..m
  <2>1. PICK c \in rows : position[c] = k
    BY <1>1 DEF Surjection
  <2> QED
    BY <1>1, <1>2, <2>1
<1>7. part \in Injection(first, 1..m) /\ part \in Surjection(first, 1..m)
  BY <1>5, <1>6 DEF Injection, Surjection, IsInjective
<1>8. m \in Nat /\ IsFiniteSet(1..m) /\ Cardinality(1..m) = m
  BY <1>1, FS_Interval
<1>9. Cardinality(first) = m
  BY <1>7, <1>8, FS_Injection
<1>10. n <= limit => first = rows
  BY <1>1, <1>2 DEF Injection
<1> QED
  BY <1>1, <1>3, <1>4, <1>9, <1>10 DEF first, n
-----------------------------------------------------------------------------
(* Folds.  FoldLeft of the community modules is a recursive function over  *)
(* the sets of positions; the equation of that function has a solution     *)
(* when the operator that is folded is a function on a set of values.      *)
IsFold(it, base, step, n) ==
  \A s \in SUBSET (1..n) :
    it[s] = IF s = {} THEN base ELSE step[<<it[s \ {Max(s)}], Max(s)>>]

LEMMA WithoutMax ==
  ASSUME NEW n \in Nat, NEW s \in SUBSET (1..n), s # {}
  PROVE  /\ Max(s) \in s /\ IsFiniteSet(s)
         /\ s \ {Max(s)} \in SUBSET (1..n)
         /\ Cardinality(s) \in Nat \ {0}
         /\ Cardinality(s \ {Max(s)}) = Cardinality(s) - 1
<1>1. Max(s) \in s
  <2>1. s \in SUBSET Nat /\ \A i \in s : i <= n
    OBVIOUS
  <2> QED
    BY <2>1, MaxIsGreatest
<1>0. IsFiniteSet(1..n)
  BY FS_Interval
<1>2. IsFiniteSet(s)
  BY <1>0, FS_Subset
<1>3. Cardinality(s) \in Nat /\ Cardinality(s) # 0
  BY <1>2, FS_CardinalityType, FS_EmptySet
<1> QED
  BY <1>1, <1>2, <1>3, FS_RemoveElement

LEMMA FoldExists ==
  ASSUME NEW X, NEW n \in Nat, NEW base \in X,
         NEW step \in [X \X (1..n) -> X]
  PROVE  \E it \in [SUBSET (1..n) -> X] : IsFold(it, base, step, n)
<1> DEFINE Sets(k) == {s \in SUBSET (1..n) : Cardinality(s) <= k}
           Up(it, k) ==
             /\ it \in [Sets(k) -> X]
             /\ \A s \in Sets(k) :
                  it[s] = IF s = {} THEN base
                          ELSE step[<<it[s \ {Max(s)}], Max(s)>>]
           stuck == {k \in Nat : ~ \E it : Up(it, k)}
<1>0. IsFiniteSet(1..n) /\ Cardinality(1..n) = n
  BY FS_Interval
<1>1. ASSUME NEW s \in SUBSET (1..n)
      PROVE  /\ IsFiniteSet(s)
             /\ Cardinality(s) \in Nat /\ Cardinality(s) <= n
  <2>1. IsFiniteSet(s) /\ Cardinality(s) <= Cardinality(1..n)
    BY <1>0, FS_Subset
  <2>2. Cardinality(s) \in Nat
    BY <2>1, FS_CardinalityType
  <2> QED
    BY <1>0, <2>1, <2>2
<1>2. \A k \in Nat : {} \in Sets(k)
  BY FS_EmptySet
<1>3. \A k \in Nat \ {0} : \A s \in Sets(k) :
        s # {} => /\ s \ {Max(s)} \in Sets(k - 1)
                  /\ s \ {Max(s)} \in Sets(k)
                  /\ Max(s) \in 1..n
  <2> TAKE k \in Nat \ {0}
  <2> TAKE s \in Sets(k)
  <2> HAVE s # {}
  <2>1. s \in SUBSET (1..n) /\ Cardinality(s) <= k
    OBVIOUS
  <2>2. /\ Max(s) \in s /\ s \ {Max(s)} \in SUBSET (1..n)
        /\ Cardinality(s) \in Nat \ {0}
        /\ Cardinality(s \ {Max(s)}) = Cardinality(s) - 1
    BY <2>1, WithoutMax
  <2>3. Cardinality(s \ {Max(s)}) <= k - 1 /\ Cardinality(s \ {Max(s)}) <= k
    BY <2>1, <2>2
  <2> QED
    BY <2>1, <2>2, <2>3
<1>4. \A s \in Sets(0) : s = {}
  <2> TAKE s \in Sets(0)
  <2>1. IsFiniteSet(s) /\ Cardinality(s) = 0
    BY <1>1
  <2> QED
    BY <2>1, FS_EmptySet
<1>5. \A k \in Nat \ {0} : Sets(k - 1) \subseteq Sets(k)
  BY <1>1
<1>6. \E it : Up(it, 0)
  <2> DEFINE it == [s \in Sets(0) |-> base]
  <2> HIDE DEF Sets
  <2>1. it \in [Sets(0) -> X]
    OBVIOUS
  <2>2. \A s \in Sets(0) : s = {} /\ it[s] = base
    BY <1>4
  <2>3. Up(it, 0)
    BY <2>1, <2>2
  <2> QED
    BY <2>3
<1> HIDE DEF Sets
<1>7. ASSUME NEW k \in Nat \ {0}, NEW f, Up(f, k - 1)
      PROVE  \E it : Up(it, k)
  <2> DEFINE it == [s \in Sets(k) |->
                      IF s = {} THEN base
                      ELSE step[<<f[s \ {Max(s)}], Max(s)>>]]
  <2>1. \A s \in Sets(k - 1) : s \in Sets(k) /\ it[s] = f[s]
    BY <1>5, <1>7
  <2>2. it \in [Sets(k) -> X]
    <3> SUFFICES ASSUME NEW s \in Sets(k), s # {}
                 PROVE  step[<<f[s \ {Max(s)}], Max(s)>>] \in X
      OBVIOUS
    <3>1. f[s \ {Max(s)}] \in X /\ Max(s) \in 1..n
      BY <1>3, <1>7
    <3> QED
      BY <3>1
  <2>3. ASSUME NEW s \in Sets(k), s # {}
        PROVE  it[s] = step[<<it[s \ {Max(s)}], Max(s)>>]
    <3>1. it[s] = step[<<f[s \ {Max(s)}], Max(s)>>]
      BY <2>3
    <3>2. it[s \ {Max(s)}] = f[s \ {Max(s)}]
      BY <1>3, <2>1, <2>3
    <3> QED
      BY <3>1, <3>2
  <2>4. {} \in Sets(k) => it[{}] = base
    OBVIOUS
  <2> HIDE DEF it
  <2>5. Up(it, k)
    BY <2>2, <2>3, <2>4
  <2> QED
    BY <2>5
<1>8. ASSUME stuck # {}
      PROVE  FALSE
  <2> HIDE DEF Up
  <2>1. PICK m \in stuck : \A k \in stuck : m <= k
    BY <1>8, LeastNumber
  <2>2. m # 0
    BY <1>6, <2>1
  <2>3. m \in Nat \ {0} /\ m - 1 \in Nat /\ m - 1 \notin stuck
    BY <2>1, <2>2
  <2>4. PICK f : Up(f, m - 1)
    BY <2>3
  <2>5. \E it : Up(it, m)
    BY <1>7, <2>3, <2>4
  <2> QED
    BY <2>1, <2>5
<1>9. PICK it : Up(it, n)
  <2> HIDE DEF Up
  <2> QED
    BY <1>8
<1>10. Sets(n) = SUBSET (1..n)
  BY <1>1 DEF Sets
<1>11. it \in [SUBSET (1..n) -> X]
  BY <1>9, <1>10
<1>12. IsFold(it, base, step, n)
  BY <1>9, <1>10 DEF IsFold
<1> QED
  BY <1>11, <1>12

(* A fold over a sequence, as the values after each of its elements.       *)
FoldsOn(fold, X, base, step, n) ==
  /\ fold[{}] = base
  /\ \A s \in SUBSET (1..n) :
       s # {} /\ fold[s \ {Max(s)}] \in X
         => fold[s] = step[<<fold[s \ {Max(s)}], Max(s)>>]

IsTrace(t, base, step, n) ==
  t[0] = base /\ \A i \in 1..n : t[i] = step[<<t[i - 1], i>>]

EndsTrace(rest, X, base, step, n) ==
  \E t \in [0..n -> X] : IsTrace(t, base, step, n) /\ t[n] = rest

LEMMA FoldTrace ==
  ASSUME NEW X, NEW n \in Nat, NEW base \in X,
         NEW step \in [X \X (1..n) -> X], NEW fold,
         FoldsOn(fold, X, base, step, n)
  PROVE  EndsTrace(fold[1..n], X, base, step, n)
<1> DEFINE t == [i \in 0..n |-> fold[1..i]]
           bad == {i \in 0..n : t[i] \notin X}
<1>1. t[0] = base
  <2>1. 1..0 = {}
    OBVIOUS
  <2> QED
    BY <2>1 DEF FoldsOn
<1>2. ASSUME NEW i \in 1..n, t[i - 1] \in X
      PROVE  t[i] = step[<<t[i - 1], i>>] /\ t[i] \in X
  <2>1. 1..i \in SUBSET Nat /\ i \in Nat /\ i \in 1..i /\ \A m \in 1..i : m <= i
    OBVIOUS
  <2>2. Max(1..i) \in 1..i /\ \A m \in 1..i : m <= Max(1..i)
    BY <2>1, MaxIsGreatest
  <2>3. Max(1..i) = i
    BY <2>1, <2>2
  <2>4. 1..i \in SUBSET (1..n) /\ 1..i # {} /\ (1..i) \ {Max(1..i)} = 1..(i - 1)
    <3> HIDE DEF t, bad
    <3>1. (1..i) \ {i} = 1..(i - 1)
      BY <2>1
    <3>2. 1..i \in SUBSET (1..n)
      BY <2>1
    <3>3. 1..i # {}
      BY <2>1
    <3> QED
      BY <2>3, <3>1, <3>2, <3>3
  <2>5. i \in 0..n /\ i - 1 \in 0..n
    OBVIOUS
  <2>6. fold[(1..i) \ {Max(1..i)}] \in X
    BY <1>2, <2>4, <2>5
  <2>7. fold[1..i] = step[<<fold[(1..i) \ {Max(1..i)}], Max(1..i)>>]
    BY <2>4, <2>6 DEF FoldsOn
  <2>8. t[i] = step[<<t[i - 1], i>>]
    BY <2>3, <2>4, <2>5, <2>7
  <2> QED
    BY <1>2, <2>8
<1>3. \A i \in 0..n : t[i] \in X
  <2> SUFFICES ASSUME bad # {} PROVE FALSE
    OBVIOUS
  <2>0. bad \in SUBSET (0..n)
    OBVIOUS
  <2> HIDE DEF t
  <2>1. bad \in SUBSET Nat
    BY <2>0
  <2>2. PICK i \in bad : \A j \in bad : i <= j
    BY <2>1, LeastNumber
  <2>3. i # 0
    BY <1>1
  <2>4. i \in 1..n /\ i - 1 \in 0..n /\ i - 1 \notin bad
    BY <2>0, <2>2, <2>3
  <2>5. t[i - 1] \in X
    BY <2>4
  <2> QED
    BY <1>2, <2>2, <2>4, <2>5
<1>4. \A i \in 1..n : i - 1 \in 0..n
  OBVIOUS
<1>5. t \in [0..n -> X] /\ t[n] = fold[1..n]
  BY <1>3
<1> HIDE DEF t
<1> QED
  BY <1>1, <1>2, <1>3, <1>4, <1>5 DEF IsTrace, EndsTrace
=============================================================================
