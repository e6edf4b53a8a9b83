-------------------------- MODULE SyncSessionProofs --------------------------
(***************************************************************************)
(* The rows of a session are right, for all constants that satisfy the     *)
(* hypothesis OnePage: AtCursor and Converged of SyncSession.              *)
(*                                                                         *)
(* The invariant SessionInv says what is where: for every message on the   *)
(* wire, what was sent before it and after it (Sent); that every answer    *)
(* fits the request that the session waits for and the log at a moment     *)
(* (AnswerOk); and that an update which the rows, the running load or the  *)
(* catch-up do not have is on the wire or in the buffer (LoadOk, SyncOk).  *)
(* TLC has checked it on the instance of the run.                          *)
(***************************************************************************)
EXTENDS SyncSession, ChangeLogProofs, SequenceTheorems

(***************************************************************************)
(* The hypothesis.  Without it the rows of a first load can be wrong, as   *)
(* counterexamples show: the load has to fit on one page (rows move        *)
(* between pages by offset), there are no initial rows (a load that is     *)
(* interrupted never reads them), nothing is awaited between the last page *)
(* and its rows (Offline), and the history keeps something.                *)
(***************************************************************************)
OnePage ==
  /\ ~Offline /\ Seeded = {} /\ MaxChanges # 0
  /\ IsFiniteSet(Keys) /\ Cardinality(Keys) < ReadLimit

-----------------------------------------------------------------------------
(* The parts of the inductive invariant, over a log L and a wire w.        *)

Of(L) == InScope(L, Collection)
RowsIn(L, n) == ApplyUpdates(Seed, {c \in Of(L) : c.seq <= n})
Between(L, m, n) == {c \in Of(L) : m < c.seq /\ c.seq <= n}

LogOk(L) == L \in SUBSET Entry /\ Numbered(L)

IsSequence(s) == s \in Seq(ToSet(s))

Updates(m) == IF m.type = "updates" THEN m.updates ELSE {}
OnWire(w, c) == \E i \in DOMAIN w : c \in Updates(w[i])

\* A broadcast: some updates of the collection and a later watermark.
Broadcast(L, b) ==
  /\ b.type = "updates"
  /\ b.updates \in SUBSET Of(L) /\ b.updates # {}
  /\ b.watermark \in Nat /\ b.watermark <= ReadWatermark(L)
  /\ \A c \in b.updates : c.seq <= b.watermark

\* The message at position i was sent when the log had reached n: what
\* comes before is older, and what comes after is everything newer.
Sent(L, w, i, n) ==
  /\ n \in Nat /\ n <= ReadWatermark(L)
  /\ \A j \in DOMAIN w : (j < i /\ w[j].type = "updates") => w[j].watermark <= n
  /\ \A j \in DOMAIN w : j > i => \A c \in Updates(w[j]) : c.seq > n
  /\ \A c \in Of(L) : c.seq > n => \E j \in DOMAIN w : j > i /\ c \in Updates(w[j])

WireOk(L, w) ==
  /\ IsSequence(w)
  /\ \A i \in DOMAIN w :
       /\ w[i].type \in {"replayed", "updates", "answer"}
       /\ w[i].type = "updates" => Broadcast(L, w[i]) /\ Sent(L, w, i, w[i].watermark)

\* An answer p to the request of a job, computed when the log had reached n.
AnswerOk(L, what, from, at, p, n) ==
  \/ what = "establish" /\ p.watermark = n
  \/ /\ what \in {"load", "reload"} /\ from <= n
     /\ Len(p.rows) # ReadLimit
     /\ WriteRows(Empty, <<>> \o p.rows) = RowsIn(L, n)
  \/ /\ what = "catchUp" /\ p.type = "resyncRequired" /\ p.watermark = n
  \/ /\ what = "catchUp" /\ p.type = "changes"
     /\ LET next == Max({at, p.cursors[Collection]}) IN
        /\ next \in Nat /\ at <= next /\ next <= n
        /\ p.hasMore \in BOOLEAN /\ (~p.hasMore => next = n)
        /\ p.updates = Between(L, at, next)

\* There is one answer, to the request that the session waits for.
NoAnswer(w) == \A i \in DOMAIN w : w[i].type # "answer"
OneAnswer(w) ==
  \A i, j \in DOMAIN w : w[i].type = "answer" /\ w[j].type = "answer" => i = j
AnswerAt(L, w, held, i, what, from, at) ==
  \E n \in Nat : /\ Sent(L, w, i, n)
                 /\ \A b \in held : b.watermark <= n
                 /\ AnswerOk(L, what, from, at, w[i].payload, n)
AnswersOk ==
  /\ OneAnswer(wire)
  /\ \A i \in DOMAIN wire : wire[i].type = "answer" =>
       /\ request # NoRequest /\ request.answered
       /\ AnswerAt(log, wire, ToSet(buffered), i, job, base, cursor)

\* b is the older one of two broadcasts.
After(d, b) == \A c \in d.updates : c.seq > b.watermark

\* The buffered broadcasts are in an order, and older than those on the wire.
HeldOk(L, held) ==
  \A b \in held : Broadcast(L, b) /\ \A d \in held : b = d \/ After(b, d) \/ After(d, b)
Older(held, w) ==
  \A b \in held : \A i \in DOMAIN w : \A c \in Updates(w[i]) : c.seq > b.watermark

Up == {"subscribed", "open"}
From(n) == [s \in {Collection} |-> n]

JobOk ==
  /\ conn \in {"closed", "connecting", "replaying", "subscribed", "open"}
  /\ wire # <<>> => conn \in Up
  /\ job \in {"none", "ready", "establish", "load", "reload", "catchUp"}
  /\ job \in {"establish", "load", "reload"} => conn \in Up
  /\ job \in {"ready", "establish", "load"} => cursor = 0
  /\ rows = <<>>
  /\ \/ ~Waiting /\ request = NoRequest
     \/ job = "establish" /\ request \in [type : {"changes"}, requested : {<<>>}, sent : {TRUE}, answered : BOOLEAN]
     \/ job \in {"load", "reload"} /\ request \in [type : {"read"}, offset : {0}, sent : {TRUE}, answered : BOOLEAN]
     \/ job = "catchUp" /\ request \in [type : {"changes"}, requested : {From(cursor)}, sent : BOOLEAN, answered : BOOLEAN]

RowsOk ==
  /\ cursor \in Nat /\ cursor <= ReadWatermark(log)
  /\ base \in Nat /\ base <= ReadWatermark(log)
  /\ local = RowsIn(log, cursor)

\* What a running load has not read is buffered or on its way.
LoadOk ==
  job \in {"load", "reload"} =>
    \A c \in Of(log) : c.seq > base =>
      OnWire(wire, c) \/ \E b \in ToSet(buffered) : c \in b.updates

\* What a synchronized session does not have is on its way.
SyncOk ==
  state = "synchronized" =>
    /\ job = "none" /\ conn \in Up
    /\ \A c \in Of(log) : c.seq > cursor => OnWire(wire, c)

SessionInv ==
  /\ LogOk(log) /\ WireOk(log, wire) /\ AnswersOk
  /\ IsSequence(buffered) /\ HeldOk(log, ToSet(buffered)) /\ Older(ToSet(buffered), wire)
  /\ JobOk /\ RowsOk /\ LoadOk /\ SyncOk

-----------------------------------------------------------------------------
(* What flush and writeRows leave behind.                                  *)
View == [local : [Keys -> Content], cursor : Nat]

Flushed(view, sorted) == FoldLeft(ApplyBroadcast, view, sorted)
IsFlush(t, view, sorted, n) ==
  t[0] = view /\ \A i \in 1..n : t[i] = ApplyBroadcast(t[i - 1], sorted[i])
Flushes(end, view, sorted, n) ==
  \E t \in [0..n -> View] : IsFlush(t, view, sorted, n) /\ t[n] = end

LEMMA FlushTrace ==
  ASSUME NEW n \in Nat, NEW view \in View, NEW sorted, DOMAIN sorted = 1..n,
         \A v \in View, i \in 1..n : ApplyBroadcast(v, sorted[i]) \in View
  PROVE  Flushes(Flushed(view, sorted), view, sorted, n)
<1> DEFINE step == [p \in View \X (1..n) |-> ApplyBroadcast(p[1], sorted[p[2]])]
<1>1. step \in [View \X (1..n) -> View]
  OBVIOUS
<1>2. \A v \in View, i \in 1..n : step[<<v, i>>] = ApplyBroadcast(v, sorted[i])
  OBVIOUS
<1> HIDE DEF step
<1>3. PICK it \in [SUBSET (1..n) -> View] : IsFold(it, view, step, n)
  BY <1>1, FoldExists
<1> DEFINE D(f) == [s \in SUBSET (DOMAIN sorted) |->
                      IF s = {} THEN view
                      ELSE LET x == Max(s) IN ApplyBroadcast(f[s \ {x}], sorted[x])]
           E(f) == [s \in SUBSET (1..n) |->
                      IF s = {} THEN view
                      ELSE ApplyBroadcast(f[s \ {Max(s)}], sorted[Max(s)])]
           fold == CHOOSE f : f = D(f)
<1>4. Flushed(view, sorted) = fold[1..n]
  BY DEF Flushed, FoldLeft, MapThenFoldSet
<1>5. \A f : D(f) = E(f)
  BY Zenon
<1>6. it = E(it)
  <2>1. \A s \in SUBSET (1..n) : s # {} =>
          Max(s) \in 1..n /\ s \ {Max(s)} \in SUBSET (1..n)
    BY WithoutMax
  <2>2. ASSUME NEW s \in SUBSET (1..n)
        PROVE  it[s] = E(it)[s]
    <3>1. CASE s = {}
      BY <1>3, <3>1 DEF IsFold
    <3>2. CASE s # {}
      <4>1. it[s] = step[<<it[s \ {Max(s)}], Max(s)>>]
        BY <1>3, <3>2 DEF IsFold
      <4> QED
        BY <1>2, <1>3, <2>1, <4>1, <3>2
    <3> QED
      BY <3>1, <3>2
  <2> QED
    BY <1>3, <2>2
<1>7. fold = E(fold)
  <2> HIDE DEF D, E
  <2>1. \E f : f = D(f)
    BY <1>5, <1>6
  <2> QED
    BY <1>5, <2>1
<1> HIDE DEF fold
<1>8. fold[{}] = view
  <2>1. {} \in SUBSET (1..n)
    OBVIOUS
  <2> QED
    BY <1>7, <2>1
<1>9. ASSUME NEW s \in SUBSET (1..n), s # {}, fold[s \ {Max(s)}] \in View
      PROVE  fold[s] = step[<<fold[s \ {Max(s)}], Max(s)>>]
  <2>1. Max(s) \in 1..n
    BY <1>9, WithoutMax
  <2>2. fold[s] = ApplyBroadcast(fold[s \ {Max(s)}], sorted[Max(s)])
    BY <1>7, <1>9
  <2> QED
    BY <1>2, <1>9, <2>1, <2>2
<1>10. FoldsOn(fold, View, view, step, n)
  BY <1>8, <1>9 DEF FoldsOn
<1>11. EndsTrace(fold[1..n], View, view, step, n)
  BY <1>1, <1>10, FoldTrace
<1>13. PICK t \in [0..n -> View] : IsTrace(t, view, step, n) /\ t[n] = fold[1..n]
  BY <1>11 DEF EndsTrace
<1>12. \A i \in 1..n : t[i - 1] \in View
  OBVIOUS
<1>14. ASSUME NEW i \in 1..n
       PROVE  t[i] = ApplyBroadcast(t[i - 1], sorted[i])
  <2>1. t[i] = step[<<t[i - 1], i>>]
    BY <1>13 DEF IsTrace
  <2> QED
    BY <1>2, <1>12, <2>1
<1>15. IsFlush(t, view, sorted, n)
  BY <1>13, <1>14 DEF IsTrace, IsFlush
<1> QED
  BY <1>4, <1>13, <1>15 DEF Flushes

IsWrite(t, view, page, n) ==
  /\ t[0] = view
  /\ \A i \in 1..n : t[i] = [t[i - 1] EXCEPT ![page[i].key] = page[i].content]
Writes(end, X, view, page, n) ==
  \E t \in [0..n -> X] : IsWrite(t, view, page, n) /\ t[n] = end

LEMMA WriteTrace ==
  ASSUME NEW n \in Nat, NEW X, NEW view \in X, NEW page, DOMAIN page = 1..n,
         \A v \in X, i \in 1..n : [v EXCEPT ![page[i].key] = page[i].content] \in X
  PROVE  Writes(WriteRows(view, page), X, view, page, n)
<1> DEFINE step == [p \in X \X (1..n) |->
                      [p[1] EXCEPT ![page[p[2]].key] = page[p[2]].content]]
           D(f) == [s \in SUBSET (DOMAIN page) |->
                      IF s = {} THEN view
                      ELSE LET x == Max(s) IN
                           [f[s \ {x}] EXCEPT ![page[x].key] = page[x].content]]
           E(f) == [s \in SUBSET (1..n) |->
                      IF s = {} THEN view
                      ELSE [f[s \ {Max(s)}] EXCEPT
                              ![page[Max(s)].key] = page[Max(s)].content]]
           fold == CHOOSE f : f = D(f)
<1>1. step \in [X \X (1..n) -> X]
  OBVIOUS
<1>2. \A v \in X, i \in 1..n :
        step[<<v, i>>] = [v EXCEPT ![page[i].key] = page[i].content]
  OBVIOUS
<1> HIDE DEF step
<1>3. PICK it \in [SUBSET (1..n) -> X] : IsFold(it, view, step, n)
  BY <1>1, FoldExists
<1>4. WriteRows(view, page) = fold[1..n]
  BY DEF WriteRows, FoldLeft, MapThenFoldSet
<1>5. \A f : D(f) = E(f)
  BY Zenon
<1>6. it = E(it)
  <2>1. \A s \in SUBSET (1..n) : s # {} =>
          Max(s) \in 1..n /\ s \ {Max(s)} \in SUBSET (1..n)
    BY WithoutMax
  <2>2. ASSUME NEW s \in SUBSET (1..n)
        PROVE  it[s] = E(it)[s]
    <3>1. CASE s = {}
      BY <1>3, <3>1 DEF IsFold
    <3>2. CASE s # {}
      <4>1. it[s] = step[<<it[s \ {Max(s)}], Max(s)>>]
        BY <1>3, <3>2 DEF IsFold
      <4> QED
        BY <1>2, <1>3, <2>1, <4>1, <3>2
    <3> QED
      BY <3>1, <3>2
  <2> QED
    BY <1>3, <2>2
<1>7. fold = E(fold)
  <2> HIDE DEF D, E
  <2>1. \E f : f = D(f)
    BY <1>5, <1>6
  <2> QED
    BY <1>5, <2>1
<1> HIDE DEF fold
<1>8. fold[{}] = view
  <2>1. {} \in SUBSET (1..n)
    OBVIOUS
  <2> QED
    BY <1>7, <2>1
<1>9. ASSUME NEW s \in SUBSET (1..n), s # {}, fold[s \ {Max(s)}] \in X
      PROVE  fold[s] = step[<<fold[s \ {Max(s)}], Max(s)>>]
  <2>1. Max(s) \in 1..n
    BY <1>9, WithoutMax
  <2>2. fold[s] = [fold[s \ {Max(s)}] EXCEPT
                     ![page[Max(s)].key] = page[Max(s)].content]
    BY <1>7, <1>9
  <2> QED
    BY <1>2, <1>9, <2>1, <2>2
<1>10. FoldsOn(fold, X, view, step, n)
  BY <1>8, <1>9 DEF FoldsOn
<1>11. EndsTrace(fold[1..n], X, view, step, n)
  BY <1>1, <1>10, FoldTrace
<1>13. PICK t \in [0..n -> X] : IsTrace(t, view, step, n) /\ t[n] = fold[1..n]
  BY <1>11 DEF EndsTrace
<1>12. \A i \in 1..n : t[i - 1] \in X
  OBVIOUS
<1> QED
  BY <1>2, <1>4, <1>13, <1>12 DEF IsTrace, IsWrite, Writes

-----------------------------------------------------------------------------
(* The rows of a log.                                                      *)
ContentOf(c) == IF c.put THEN c.seq ELSE Gone

LEMMA TopIs ==
  ASSUME NEW L, LogOk(L)
  PROVE  /\ ReadWatermark(L) \in Nat
         /\ \A c \in L : c.seq \in Nat /\ 1 <= c.seq /\ c.seq <= ReadWatermark(L)
         /\ \/ L = {} /\ ReadWatermark(L) = 0
            \/ \E c \in L : c.seq = ReadWatermark(L)
<1> DEFINE S == SeqNumbers(L)
<1>1. MaxSequence \in Nat
  BY SessionAssumption
<1>2. \A c \in L : c.seq \in 1..MaxSequence
  BY DEF LogOk, Entry
<1>3. \A c \in L : c.seq \in Nat /\ 1 <= c.seq /\ c.seq <= MaxSequence
  BY <1>1, <1>2
<1>4. CASE L = {}
  BY <1>4 DEF ReadWatermark
<1>5. CASE L # {}
  <2>1. S \in SUBSET Nat /\ S # {} /\ \A n \in S : n <= MaxSequence
    BY <1>3, <1>5 DEF SeqNumbers
  <2>2. Max(S) \in S /\ \A n \in S : n <= Max(S)
    BY <1>1, <2>1, MaxIsGreatest
  <2>3. ReadWatermark(L) = Max(S)
    BY <1>5 DEF ReadWatermark
  <2>4. \A c \in L : c.seq \in S
    BY DEF SeqNumbers
  <2>5. PICK c \in L : c.seq = Max(S)
    BY <2>2 DEF SeqNumbers
  <2> HIDE DEF S
  <2> QED
    BY <1>3, <2>1, <2>2, <2>3, <2>4, <2>5
<1> QED
  BY <1>4, <1>5

LEMMA LastIs ==
  ASSUME NEW L, LogOk(L), NEW U \in SUBSET L, U # {}
  PROVE  \E c \in U : \A d \in U : d.seq <= c.seq
<1> DEFINE S == SeqNumbers(U)
<1>1. \A c \in U : c.seq \in Nat /\ c.seq <= ReadWatermark(L)
  BY TopIs
<1>2. ReadWatermark(L) \in Nat
  BY TopIs
<1>3. S \in SUBSET Nat /\ S # {} /\ \A n \in S : n <= ReadWatermark(L)
  BY <1>1 DEF SeqNumbers
<1>4. PICK m \in S : \A n \in S : n <= m
  BY <1>2, <1>3, GreatestNumber
<1>5. PICK c \in U : c.seq = m
  BY DEF SeqNumbers
<1>6. \A d \in U : d.seq \in S
  BY DEF SeqNumbers
<1> QED
  BY <1>4, <1>5, <1>6

\* c is the last of the updates of a row.
IsLast(c, U, k) == c \in U /\ c.key = k /\ \A d \in U : d.key = k => d.seq <= c.seq

LEMMA AppliedNone ==
  ASSUME NEW U, NEW view, NEW k \in Keys, \A c \in U : c.key # k
  PROVE  ApplyUpdates(view, U)[k] = view[k]
<1>1. {c \in U : c.key = k} = {}
  OBVIOUS
<1> QED
  BY <1>1 DEF ApplyUpdates

LEMMA AppliedLast ==
  ASSUME NEW L, LogOk(L), NEW U \in SUBSET L, NEW view, NEW k \in Keys,
         NEW c, IsLast(c, U, k)
  PROVE  ApplyUpdates(view, U)[k] = ContentOf(c)
<1> DEFINE written == {d \in U : d.key = k}
           last == CHOOSE d \in written : \A e \in written : e.seq <= d.seq
<1>1. ApplyUpdates(view, U)[k] =
        IF written = {} THEN view[k] ELSE IF last.put THEN last.seq ELSE Gone
  BY DEF ApplyUpdates
<1>2. c \in written /\ \A d \in written : d.seq <= c.seq
  BY DEF IsLast
<1>3. last \in written /\ \A d \in written : d.seq <= last.seq
  BY <1>2
<1>4. c.seq \in Nat /\ last.seq \in Nat /\ last \in L /\ c \in L
  BY <1>2, <1>3, TopIs
<1>5. last.seq = c.seq
  BY <1>2, <1>3, <1>4
<1>6. last = c
  BY <1>4, <1>5 DEF LogOk, Numbered
<1> HIDE DEF written, last
<1> QED
  BY <1>1, <1>2, <1>6 DEF ContentOf

LEMMA LastOfRow ==
  ASSUME NEW L, LogOk(L), NEW U \in SUBSET L, NEW k, \E c \in U : c.key = k
  PROVE  \E c : IsLast(c, U, k)
<1> DEFINE written == {d \in U : d.key = k}
<1>1. written \in SUBSET L /\ written # {}
  OBVIOUS
<1>2. PICK c \in written : \A d \in written : d.seq <= c.seq
  BY <1>1, LastIs
<1> QED
  BY <1>2 DEF IsLast

LEMMA OfIs ==
  ASSUME NEW L, LogOk(L)
  PROVE  /\ Of(L) \in SUBSET L
         /\ \A c \in Of(L) : /\ c.seq \in Nat /\ 1 <= c.seq /\ c.seq <= ReadWatermark(L)
                             /\ c.key \in Keys /\ ContentOf(c) \in Content
<1>1. Of(L) \in SUBSET L
  BY DEF Of, InScope
<1>2. \A c \in L : c.key \in Keys /\ c.seq \in 1..MaxSequence
  BY DEF LogOk, Entry
<1>3. \A c \in L : ContentOf(c) \in Content
  BY <1>2 DEF ContentOf, Content
<1> QED
  BY <1>1, <1>2, <1>3, TopIs

LEMMA ApplyType ==
  ASSUME NEW L, LogOk(L), NEW U \in SUBSET Of(L), NEW view \in [Keys -> Content]
  PROVE  ApplyUpdates(view, U) \in [Keys -> Content]
<1>1. \A k \in Keys : ApplyUpdates(view, U)[k] \in Content
  <2> TAKE k \in Keys
  <2>1. U \in SUBSET L
    BY OfIs
  <2>2. CASE \A c \in U : c.key # k
    <3>1. ApplyUpdates(view, U)[k] = view[k]
      BY <2>2, AppliedNone
    <3> QED
      BY <3>1
  <2>3. CASE \E c \in U : c.key = k
    <3>1. PICK c : IsLast(c, U, k)
      BY <2>1, <2>3, LastOfRow
    <3>2. ApplyUpdates(view, U)[k] = ContentOf(c)
      BY <2>1, <3>1, AppliedLast
    <3>3. c \in Of(L)
      BY <3>1 DEF IsLast
    <3> QED
      BY <3>2, <3>3, OfIs
  <2> QED
    BY <2>2, <2>3
<1>2. ApplyUpdates(view, U) = [k \in Keys |-> ApplyUpdates(view, U)[k]]
  BY DEF ApplyUpdates
<1> QED
  BY <1>1, <1>2

LEMMA RowsType ==
  ASSUME NEW L, LogOk(L), NEW n
  PROVE  RowsIn(L, n) \in [Keys -> Content] /\ Empty \in [Keys -> Content]
<1>1. Seed \in [Keys -> Content] /\ Empty \in [Keys -> Content]
  BY DEF Seed, Content, Empty
<1> QED
  BY <1>1, ApplyType DEF RowsIn

(* The updates between m and n, applied to any rows: what they write is as *)
(* it was at n, and what they do not write has not changed since m.        *)
LEMMA RowsStep ==
  ASSUME NEW L, LogOk(L), NEW m \in Nat, NEW n \in Nat, m <= n,
         NEW k \in Keys, NEW view
  PROVE  LET U == Between(L, m, n) IN
         /\ (\E c \in U : c.key = k) => ApplyUpdates(view, U)[k] = RowsIn(L, n)[k]
         /\ (\A c \in U : c.key # k) => /\ ApplyUpdates(view, U)[k] = view[k]
                                        /\ RowsIn(L, n)[k] = RowsIn(L, m)[k]
<1> DEFINE U == Between(L, m, n)
           A(i) == {c \in Of(L) : c.seq <= i}
<1>0. Of(L) \in SUBSET L /\ \A c \in Of(L) : c.seq \in Nat
  BY OfIs
<1>1. U \in SUBSET L /\ A(m) \in SUBSET L /\ A(n) \in SUBSET L
  BY <1>0 DEF Between
<1>9. \A c : c \in U <=> c \in Of(L) /\ m < c.seq /\ c.seq <= n
  BY DEF Between
<1> HIDE DEF U
<1>2. RowsIn(L, m) = ApplyUpdates(Seed, A(m)) /\ RowsIn(L, n) = ApplyUpdates(Seed, A(n))
  BY DEF RowsIn
<1>3. ASSUME \E c \in U : c.key = k
      PROVE  ApplyUpdates(view, U)[k] = RowsIn(L, n)[k]
  <2>1. PICK c : IsLast(c, U, k)
    BY <1>1, <1>3, LastOfRow
  <2>2. ApplyUpdates(view, U)[k] = ContentOf(c)
    BY <1>1, <2>1, AppliedLast
  <2>3. c \in A(n) /\ c.key = k /\ c \in U
    BY <1>9, <2>1 DEF IsLast
  <2>4. ASSUME NEW d \in A(n), d.key = k
        PROVE  d.seq <= c.seq
    <3>1. CASE d.seq <= m
      BY <1>0, <1>9, <2>3, <3>1
    <3>2. CASE ~(d.seq <= m)
      <4>1. d \in U
        BY <1>0, <1>9, <2>4, <3>2
      <4> QED
        BY <2>1, <2>4, <4>1 DEF IsLast
    <3> QED
      BY <3>1, <3>2
  <2>5. IsLast(c, A(n), k)
    BY <2>3, <2>4 DEF IsLast
  <2> HIDE DEF A
  <2>6. ApplyUpdates(Seed, A(n))[k] = ContentOf(c)
    BY <1>1, <2>5, AppliedLast
  <2> QED
    BY <1>2, <2>2, <2>6
<1>4. ASSUME \A c \in U : c.key # k
      PROVE  ApplyUpdates(view, U)[k] = view[k] /\ RowsIn(L, n)[k] = RowsIn(L, m)[k]
  <2>1. ApplyUpdates(view, U)[k] = view[k]
    BY <1>4, AppliedNone
  <2>2. \A c \in A(n) : c.key = k => c \in A(m)
    BY <1>0, <1>9, <1>4
  <2>3. A(m) \in SUBSET A(n)
    BY <1>0
  <2> HIDE DEF A
  <2>4. CASE \A c \in A(n) : c.key # k
    <3>1. \A c \in A(m) : c.key # k
      BY <2>3, <2>4
    <3>2. ApplyUpdates(Seed, A(n))[k] = Seed[k]
      BY <2>4, AppliedNone
    <3>3. ApplyUpdates(Seed, A(m))[k] = Seed[k]
      BY <3>1, AppliedNone
    <3> QED
      BY <1>2, <2>1, <3>2, <3>3
  <2>5. CASE \E c \in A(n) : c.key = k
    <3>1. PICK c : IsLast(c, A(n), k)
      BY <1>1, <2>5, LastOfRow
    <3>2. IsLast(c, A(m), k)
      BY <2>2, <2>3, <3>1 DEF IsLast
    <3>3. ApplyUpdates(Seed, A(n))[k] = ContentOf(c)
      BY <1>1, <3>1, AppliedLast
    <3>4. ApplyUpdates(Seed, A(m))[k] = ContentOf(c)
      BY <1>1, <3>2, AppliedLast
    <3> QED
      BY <1>2, <2>1, <3>3, <3>4
  <2> QED
    BY <2>4, <2>5
<1> QED
  BY <1>3, <1>4 DEF U

-----------------------------------------------------------------------------
(* flush: the buffered broadcasts over rows that may have some of them.    *)

\* The rows were those of n, then the updates from m to `at` were applied.
Partly(L, m, n, at, view) ==
  \A k \in Keys :
    view[k] = IF \E c \in Of(L) : c.key = k /\ m < c.seq /\ c.seq <= at
              THEN RowsIn(L, at)[k] ELSE RowsIn(L, n)[k]

LEMMA PartlyStep ==
  ASSUME NEW L, LogOk(L), NEW m \in Nat, NEW n \in Nat, NEW at \in Nat,
         NEW next \in Nat, m <= at, at <= next, next <= n,
         NEW view, Partly(L, m, n, at, view)
  PROVE  Partly(L, m, n, next, ApplyUpdates(view, Between(L, at, next)))
<1> DEFINE U == Between(L, at, next)
<1> SUFFICES ASSUME NEW k \in Keys
             PROVE  ApplyUpdates(view, U)[k] =
                      IF \E c \in Of(L) : c.key = k /\ m < c.seq /\ c.seq <= next
                      THEN RowsIn(L, next)[k] ELSE RowsIn(L, n)[k]
  BY DEF Partly
<1>0. \A c \in Of(L) : c.seq \in Nat
  BY OfIs
<1>9. \A c : c \in U <=> c \in Of(L) /\ at < c.seq /\ c.seq <= next
  BY DEF Between
<1>1. CASE \E c \in U : c.key = k
  <2>1. ApplyUpdates(view, U)[k] = RowsIn(L, next)[k]
    BY <1>1, RowsStep
  <2>2. \E c \in Of(L) : c.key = k /\ m < c.seq /\ c.seq <= next
    BY <1>0, <1>9, <1>1
  <2> QED
    BY <2>1, <2>2
<1>2. CASE \A c \in U : c.key # k
  <2>1. ApplyUpdates(view, U)[k] = view[k] /\ RowsIn(L, next)[k] = RowsIn(L, at)[k]
    BY <1>2, RowsStep
  <2>2. (\E c \in Of(L) : c.key = k /\ m < c.seq /\ c.seq <= next)
          <=> (\E c \in Of(L) : c.key = k /\ m < c.seq /\ c.seq <= at)
    BY <1>0, <1>9, <1>2
  <2>3. view[k] = IF \E c \in Of(L) : c.key = k /\ m < c.seq /\ c.seq <= at
                  THEN RowsIn(L, at)[k] ELSE RowsIn(L, n)[k]
    BY DEF Partly
  <2> QED
    BY <2>1, <2>2, <2>3
<1> QED
  BY <1>1, <1>2

LEMMA PartlyStart ==
  ASSUME NEW L, LogOk(L), NEW m \in Nat, NEW n \in Nat
  PROVE  Partly(L, m, n, m, RowsIn(L, n))
<1>1. \A c \in Of(L) : c.seq \in Nat
  BY OfIs
<1> QED
  BY <1>1 DEF Partly

LEMMA PartlyEnd ==
  ASSUME NEW L, LogOk(L), NEW m \in Nat, NEW n \in Nat, NEW at \in Nat,
         m <= at, at <= n, NEW view \in [Keys -> Content], Partly(L, m, n, at, view),
         \A c \in Of(L) : m < c.seq /\ c.seq <= n => c.seq <= at
  PROVE  view = RowsIn(L, at)
<1>0. \A c \in Of(L) : c.seq \in Nat
  BY OfIs
<1>1. ASSUME NEW k \in Keys
      PROVE  view[k] = RowsIn(L, at)[k]
  <2>1. CASE \E c \in Of(L) : c.key = k /\ m < c.seq /\ c.seq <= at
    BY <2>1 DEF Partly
  <2>2. CASE ~ \E c \in Of(L) : c.key = k /\ m < c.seq /\ c.seq <= at
    <3>1. \A c \in Between(L, at, n) : c.key # k
      BY <1>0, <2>2 DEF Between
    <3>2. RowsIn(L, n)[k] = RowsIn(L, at)[k]
      BY <3>1, RowsStep
    <3> QED
      BY <2>2, <3>2 DEF Partly
  <2> QED
    BY <2>1, <2>2
<1>2. RowsIn(L, at) \in [Keys -> Content]
  BY RowsType
<1> QED
  BY <1>1, <1>2

(* A set in the order of an attribute.                                     *)
LEMMA OrderExists ==
  ASSUME NEW S, IsFiniteSet(S), NEW f \in [S -> Nat],
         \A x, y \in S : f[x] = f[y] => x = y
  PROVE  \E s \in SetToSeqs(S) :
           \A i, j \in DOMAIN s : i < j => f[s[i]] < f[s[j]]
<1> DEFINE table == {[seq |-> f[x], elem |-> x] : x \in S}
           n == Cardinality(S)
           rowOf == [x \in S |-> [seq |-> f[x], elem |-> x]]
<1>1. rowOf \in [S -> table]
  OBVIOUS
<1>2. \A x, y \in S : rowOf[x] = rowOf[y] => x = y
  <2> SUFFICES ASSUME NEW x \in S, NEW y \in S, rowOf[x] = rowOf[y]
               PROVE  x = y
    OBVIOUS
  <2>1. rowOf[x].elem = x /\ rowOf[y].elem = y
    OBVIOUS
  <2> QED
    BY <2>1
<1>3. \A r \in table : \E x \in S : rowOf[x] = r
  OBVIOUS
<1>4. rowOf \in Injection(S, table) /\ rowOf \in Surjection(S, table)
  BY <1>1, <1>2, <1>3 DEF Injection, Surjection, IsInjective
<1>5. IsFiniteSet(table) /\ Cardinality(table) = n
  BY <1>4, FS_Surjection
<1>6. \A r \in table : r.seq \in Nat
  OBVIOUS
<1>7. \A r, q \in table : r.seq = q.seq => r = q
  OBVIOUS
<1>8. Numbered(table)
  BY <1>5, <1>6, <1>7 DEF Numbered
<1> DEFINE position == [r \in table |-> Cardinality(UpTo(table, r))]
<1>9. /\ n \in Nat
      /\ position \in Injection(table, 1..n)
      /\ position \in Surjection(table, 1..n)
  BY <1>5, <1>8, Positions
<1>10. ASSUME NEW r \in table, NEW q \in table, position[r] < position[q]
       PROVE  r.seq < q.seq
  <2>1. CASE r.seq <= q.seq
    <3>1. r.seq # q.seq
      BY <1>7, <1>9, <1>10 DEF Injection
    <3> QED
      BY <1>6, <2>1, <3>1
  <2>2. CASE ~(r.seq <= q.seq)
    <3>1. UpTo(table, q) \in SUBSET UpTo(table, r)
      BY <1>6, <2>2 DEF UpTo
    <3>2. UpTo(table, r) \in SUBSET table
      BY DEF UpTo
    <3>3. IsFiniteSet(UpTo(table, r))
      BY <1>5, <3>2, FS_Subset
    <3>4. Cardinality(UpTo(table, q)) <= Cardinality(UpTo(table, r))
      BY <3>1, <3>3, FS_Subset
    <3>5. position[r] \in Nat /\ position[q] \in Nat
      BY <1>9 DEF Injection
    <3> QED
      BY <1>10, <3>4, <3>5
  <2> QED
    BY <2>1, <2>2
<1> HIDE DEF position, table
<1> DEFINE s == [i \in 1..n |-> CHOOSE x \in S : position[rowOf[x]] = i]
<1>11. \A i \in 1..n : \E x \in S : position[rowOf[x]] = i
  BY <1>3, <1>9 DEF Surjection
<1>12. \A i \in 1..n : s[i] \in S /\ position[rowOf[s[i]]] = i
  BY <1>11
<1>13. \A i, j \in 1..n : i # j => s[i] # s[j]
  BY <1>12
<1>14. s \in [1..n -> S]
  BY <1>12
<1>15. s \in SetToSeqs(S)
  BY <1>13, <1>14 DEF SetToSeqs
<1>16. ASSUME NEW i \in 1..n, NEW j \in 1..n, i < j
       PROVE  f[s[i]] < f[s[j]]
  <2>1. position[rowOf[s[i]]] < position[rowOf[s[j]]]
    BY <1>12, <1>16
  <2>2. rowOf[s[i]] \in table /\ rowOf[s[j]] \in table
    BY <1>1, <1>12
  <2>3. rowOf[s[i]].seq < rowOf[s[j]].seq
    BY <1>10, <2>1, <2>2
  <2>4. rowOf[s[i]].seq = f[s[i]] /\ rowOf[s[j]].seq = f[s[j]]
    BY <1>12
  <2> QED
    BY <2>3, <2>4
<1> HIDE DEF s
<1>17. DOMAIN s = 1..n
  BY <1>14
<1> QED
  BY <1>15, <1>16, <1>17

LEMMA ListsAre ==
  ASSUME NEW S, IsFiniteSet(S), NEW s \in SetToSeqs(S)
  PROVE  /\ Cardinality(S) \in Nat /\ DOMAIN s = 1..Cardinality(S)
         /\ s \in [1..Cardinality(S) -> S]
         /\ \A x \in S : \E i \in DOMAIN s : s[i] = x
<1> DEFINE n == Cardinality(S)
<1>1. n \in Nat
  BY FS_CardinalityType
<1>2. s \in [1..n -> S] /\ \A i, j \in 1..n : i # j => s[i] # s[j]
  BY DEF SetToSeqs
<1>3. s \in Injection(1..n, S)
  BY <1>2 DEF Injection, IsInjective
<1>4. IsFiniteSet(1..n) /\ Cardinality(1..n) = n
  BY <1>1, FS_Interval
<1>5. s \in Surjection(1..n, S)
  BY <1>3, <1>4, FS_Injection
<1> QED
  BY <1>1, <1>2, <1>5 DEF Surjection

LEMMA HeldDiffer ==
  ASSUME NEW L, LogOk(L), NEW H, HeldOk(L, H), NEW b \in H, NEW d \in H
  PROVE  /\ b.watermark \in Nat
         /\ b.watermark = d.watermark => b = d
         /\ b.watermark < d.watermark => After(d, b)
<1>1. /\ Broadcast(L, b) /\ Broadcast(L, d)
      /\ b = d \/ After(b, d) \/ After(d, b)
  BY DEF HeldOk
<1>2. \A c \in Of(L) : c.seq \in Nat
  BY OfIs
<1>3. /\ b.watermark \in Nat /\ d.watermark \in Nat
      /\ \A c \in b.updates : c.seq \in Nat /\ c.seq <= b.watermark
      /\ \A c \in d.updates : c.seq \in Nat /\ c.seq <= d.watermark
      /\ b.updates # {} /\ d.updates # {}
  BY <1>1, <1>2 DEF Broadcast
<1>4. PICK x \in b.updates : TRUE
  BY <1>3
<1>5. PICK y \in d.updates : TRUE
  BY <1>3
<1>6. After(b, d) => d.watermark < b.watermark
  BY <1>3, <1>4 DEF After
<1>7. After(d, b) => b.watermark < d.watermark
  BY <1>3, <1>5 DEF After
<1>8. b.watermark = d.watermark => b = d
  BY <1>1, <1>3, <1>6, <1>7
<1>9. b.watermark < d.watermark => After(d, b)
  BY <1>1, <1>3, <1>6
<1> QED
  BY <1>3, <1>8, <1>9

LEMMA FlushOrder ==
  ASSUME NEW L, LogOk(L), NEW H, IsFiniteSet(H), HeldOk(L, H)
  PROVE  LET sorted == InOrderOf(LAMBDA b : b.watermark, H) IN
         /\ sorted \in SetToSeqs(H)
         /\ \A i, j \in DOMAIN sorted :
              i < j => sorted[i].watermark < sorted[j].watermark
<1> DEFINE f == [b \in H |-> b.watermark]
<1>1. \A b \in H : b.watermark \in Nat
  BY HeldDiffer
<1>2. \A b, d \in H : f[b] = f[d] => b = d
  BY HeldDiffer
<1>3. f \in [H -> Nat]
  BY <1>1
<1>4. \A b \in H : f[b] = b.watermark
  OBVIOUS
<1> HIDE DEF f
<1>5. PICK s \in SetToSeqs(H) : \A i, j \in DOMAIN s : i < j => f[s[i]] < f[s[j]]
  BY <1>2, <1>3, OrderExists
<1>6. DOMAIN s = 1..Cardinality(H) /\ s \in [1..Cardinality(H) -> H]
  BY ListsAre
<1>7. \A i \in DOMAIN s : s[i] \in H
  BY <1>6
<1>8. \A i, j \in DOMAIN s : i < j => s[i].watermark < s[j].watermark
  BY <1>4, <1>5, <1>7
<1>9. \E q \in SetToSeqs(H) : \A i, j \in DOMAIN q : i < j => q[i].watermark < q[j].watermark
  BY <1>5, <1>8
<1> QED
  BY <1>9 DEF InOrderOf

LEMMA FlushIs ==
  ASSUME NEW L, LogOk(L), NEW m \in Nat, NEW n \in Nat, m <= n,
         NEW H, IsFiniteSet(H), HeldOk(L, H),
         \A b \in H : b.watermark <= n,
         \A c \in Between(L, m, n) : \E b \in H : c \in b.updates
  PROVE  LET sorted == InOrderOf(LAMBDA b : b.watermark, H)
             end == Flushed([local |-> RowsIn(L, n), cursor |-> m], sorted)
         IN  /\ end.cursor \in Nat /\ m <= end.cursor /\ end.cursor <= n
             /\ end.local = RowsIn(L, end.cursor)
             /\ \A b \in H : b.watermark <= end.cursor
<1> DEFINE sorted == InOrderOf(LAMBDA b : b.watermark, H)
           first == [local |-> RowsIn(L, n), cursor |-> m]
           N == Cardinality(H)
<1>1. /\ sorted \in SetToSeqs(H)
      /\ \A i, j \in DOMAIN sorted : i < j => sorted[i].watermark < sorted[j].watermark
  BY FlushOrder
<1> HIDE DEF sorted
<1>2. /\ N \in Nat /\ DOMAIN sorted = 1..N /\ sorted \in [1..N -> H]
      /\ \A b \in H : \E i \in 1..N : sorted[i] = b
  BY <1>1, ListsAre
<1> HIDE DEF N
<1>3. \A i \in 1..N : sorted[i] \in H /\ Broadcast(L, sorted[i])
  BY <1>2 DEF HeldOk
<1>4. first \in View
  BY RowsType DEF View
<1>5. ASSUME NEW v \in View, NEW i \in 1..N
      PROVE  ApplyBroadcast(v, sorted[i]) \in View
  <2> DEFINE new == {c \in sorted[i].updates : c.seq > v.cursor}
  <2>1. sorted[i].updates \in SUBSET Of(L) /\ sorted[i].watermark \in Nat
    BY <1>3 DEF Broadcast
  <2>2. new \in SUBSET Of(L)
    BY <2>1
  <2>3. ApplyUpdates(v.local, new) \in [Keys -> Content]
    BY <2>2, ApplyType DEF View
  <2> QED
    BY <2>1, <2>3 DEF ApplyBroadcast, View
<1> HIDE DEF first
<1>6. PICK t \in [0..N -> View] :
        IsFlush(t, first, sorted, N) /\ t[N] = Flushed(first, sorted)
  <2>1. \A v \in View, i \in 1..N : ApplyBroadcast(v, sorted[i]) \in View
    BY <1>5
  <2>2. Flushes(Flushed(first, sorted), first, sorted, N)
    BY <1>2, <1>4, <2>1, FlushTrace
  <2> QED
    BY <2>2 DEF Flushes
<1> DEFINE Good(i) == /\ t[i].cursor \in Nat /\ m <= t[i].cursor /\ t[i].cursor <= n
                      /\ Partly(L, m, n, t[i].cursor, t[i].local)
                      /\ \A j \in 1..i : sorted[j].watermark <= t[i].cursor
           bad == {i \in 0..N : ~Good(i)}
<1>7. Good(0)
  <2>1. t[0].cursor = m /\ t[0].local = RowsIn(L, n)
    BY <1>6 DEF first, IsFlush
  <2>2. Partly(L, m, n, m, RowsIn(L, n))
    BY PartlyStart
  <2> QED
    BY <2>1, <2>2
<1>8. ASSUME NEW i \in 1..N, Good(i - 1)
      PROVE  Good(i)
  <2> DEFINE b == sorted[i]
             at == t[i - 1].cursor
             w == b.watermark
  <2>1. /\ b \in H /\ Broadcast(L, b) /\ w \in Nat /\ w <= n
        /\ at \in Nat /\ m <= at /\ at <= n
        /\ Partly(L, m, n, at, t[i - 1].local)
        /\ \A j \in 1..(i - 1) : sorted[j].watermark <= at
    BY <1>3, <1>8 DEF Broadcast
  <2>2. t[i] = ApplyBroadcast(t[i - 1], b)
    BY <1>6 DEF IsFlush
  <2> HIDE DEF b, at, w
  <2>3. CASE w <= at
    <3>1. t[i] = t[i - 1]
      BY <2>2, <2>3 DEF ApplyBroadcast, at, w
    <3>2. \A j \in 1..i : j \in 1..(i - 1) \/ j = i
      OBVIOUS
    <3>3. \A j \in 1..i : sorted[j].watermark <= at
      BY <2>1, <2>3, <3>2 DEF b, w
    <3> QED
      BY <2>1, <3>1, <3>3 DEF at
  <2>4. CASE ~(w <= at)
    <3> DEFINE new == {c \in b.updates : c.seq > at}
    <3>1. t[i] = [local |-> ApplyUpdates(t[i - 1].local, new), cursor |-> w]
      BY <2>2, <2>4 DEF ApplyBroadcast, at, w
    <3>2. \A c \in Of(L) : c.seq \in Nat
      BY OfIs
    <3>3. ASSUME NEW c \in Of(L), at < c.seq, c.seq <= w
          PROVE  c \in b.updates
      <4>1. c \in Between(L, m, n)
        BY <2>1, <3>2, <3>3 DEF Between
      <4>2. PICK d \in H : c \in d.updates
        BY <4>1
      <4>3. PICK j \in 1..N : sorted[j] = d
        BY <1>2
      <4>4. Broadcast(L, d) /\ d.watermark \in Nat /\ c.seq <= d.watermark
        BY <1>3, <4>2, <4>3 DEF Broadcast
      <4>5. ~(j < i)
        <5>1. j < i => j \in 1..(i - 1)
          OBVIOUS
        <5> QED
          BY <2>1, <3>2, <3>3, <4>3, <4>4, <5>1
      <4>6. ~(i < j)
        <5> SUFFICES ASSUME i < j PROVE FALSE
          OBVIOUS
        <5>1. w < d.watermark
          BY <1>1, <1>2, <4>3 DEF w, b
        <5>2. After(d, b)
          BY <2>1, <5>1, HeldDiffer DEF w
        <5>3. c.seq > w
          BY <4>2, <5>2 DEF After, w
        <5> QED
          BY <2>1, <3>2, <3>3, <5>3
      <4>7. j = i
        BY <4>5, <4>6
      <4> QED
        BY <4>2, <4>3, <4>7 DEF b
    <3>4. new = Between(L, at, w)
      <4>1. \A c \in new : c \in Between(L, at, w)
        BY <2>1, <3>2 DEF Between, Broadcast, w
      <4>2. \A c \in Between(L, at, w) : c \in new
        BY <3>2, <3>3, <2>1 DEF Between
      <4> QED
        BY <4>1, <4>2
    <3>5. at <= w
      BY <2>1, <2>4
    <3>6. Partly(L, m, n, w, ApplyUpdates(t[i - 1].local, Between(L, at, w)))
      BY <2>1, <3>5, PartlyStep
    <3> HIDE DEF new
    <3>7. t[i].cursor = w /\ t[i].local = ApplyUpdates(t[i - 1].local, Between(L, at, w))
      BY <3>1, <3>4
    <3>8. \A j \in 1..i : j \in 1..(i - 1) \/ j = i
      OBVIOUS
    <3>9. \A j \in 1..(i - 1) : sorted[j].watermark <= w
      <4>1. \A j \in 1..(i - 1) : j \in 1..N /\ j < i
        BY <1>2
      <4>2. \A j \in 1..(i - 1) : sorted[j].watermark < w
        BY <1>1, <1>2, <4>1 DEF w, b
      <4>3. \A j \in 1..(i - 1) : sorted[j].watermark \in Nat
        BY <1>3, <4>1 DEF Broadcast
      <4> QED
        BY <2>1, <4>2, <4>3
    <3>10. \A j \in 1..i : sorted[j].watermark <= w
      BY <2>1, <3>8, <3>9 DEF b, w
    <3> QED
      BY <2>1, <3>5, <3>6, <3>7, <3>10
  <2> QED
    BY <2>3, <2>4
<1>9. Good(N)
  <2> SUFFICES ASSUME bad # {} PROVE FALSE
    BY <1>2
  <2> HIDE DEF Good
  <2>1. bad \in SUBSET Nat /\ bad \in SUBSET (0..N)
    OBVIOUS
  <2>2. PICK i \in bad : \A j \in bad : i <= j
    BY <2>1, LeastNumber
  <2>3. i # 0
    BY <1>7, <2>2
  <2>4. i \in 1..N /\ i - 1 \in 0..N /\ i - 1 \notin bad
    BY <1>2, <2>1, <2>2, <2>3
  <2>5. Good(i - 1)
    BY <2>4
  <2>6. Good(i)
    BY <1>8, <2>4, <2>5
  <2> QED
    BY <2>2, <2>6
<1>10. t[N] \in View
  BY <1>2
<1>11. \A b \in H : b.watermark <= t[N].cursor
  BY <1>2, <1>9
<1>12. t[N].local = RowsIn(L, t[N].cursor)
  <2>1. t[N].local \in [Keys -> Content]
    BY <1>10 DEF View
  <2>2. ASSUME NEW c \in Of(L), m < c.seq, c.seq <= n
        PROVE  c.seq <= t[N].cursor
    <3>1. PICK b \in H : c \in b.updates
      BY <2>2 DEF Between
    <3>2. Broadcast(L, b)
      BY DEF HeldOk
    <3>3. c.seq \in Nat /\ b.watermark \in Nat /\ c.seq <= b.watermark
      BY <3>1, <3>2, OfIs DEF Broadcast
    <3> QED
      BY <1>9, <1>11, <3>3
  <2> QED
    BY <1>9, <2>1, <2>2, PartlyEnd
<1> QED
  BY <1>6, <1>9, <1>11, <1>12 DEF first, sorted

-----------------------------------------------------------------------------
(* A load whose rows fit on one page.                                      *)
LEMMA WholePage ==
  ASSUME NEW R \in [Keys -> Content],
         NEW P \in SUBSET Keys, IsFiniteSet(P), \A k \in Keys \ P : R[k] = Gone,
         NEW keys \in SetToSeqs(P),
         NEW page, page = [i \in 1..Cardinality(P) |->
                             [key |-> keys[i], content |-> R[keys[i]]]]
  PROVE  WriteRows(Empty, page) = R
<1> DEFINE n == Cardinality(P)
           X == [Keys -> Content]
<1>1. P \in SUBSET Keys
  OBVIOUS
<1>2. /\ n \in Nat /\ keys \in [1..n -> P]
      /\ \A k \in P : \E i \in 1..n : keys[i] = k
  BY ListsAre
<1>0. page = [i \in 1..n |-> [key |-> keys[i], content |-> R[keys[i]]]]
  OBVIOUS
<1> HIDE DEF n
<1>3. \A i \in 1..n : keys[i] \in P
  BY <1>2
<1>4. \A i \in 1..n : page[i].key = keys[i] /\ page[i].content = R[keys[i]]
  <2> TAKE i \in 1..n
  <2>1. page[i] = [key |-> keys[i], content |-> R[keys[i]]]
    BY <1>0
  <2> QED
    BY <2>1
<1>5. DOMAIN page = 1..n
  BY <1>0
<1>6. Empty \in X
  BY DEF Empty, Content
<1>7. \A v \in X, i \in 1..n : [v EXCEPT ![page[i].key] = page[i].content] \in X
  BY <1>1, <1>3, <1>4
<1>8. Writes(WriteRows(Empty, page), X, Empty, page, n)
  <2> HIDE DEF X
  <2> QED
    BY <1>2, <1>5, <1>6, <1>7, WriteTrace
<1>9. PICK t \in [0..n -> X] : IsWrite(t, Empty, page, n) /\ t[n] = WriteRows(Empty, page)
  BY <1>8 DEF Writes
<1> DEFINE Good(i) == \A k \in Keys :
                        t[i][k] = IF \E j \in 1..i : keys[j] = k THEN R[k] ELSE Gone
           bad == {i \in 0..n : ~Good(i)}
<1>10. Good(0)
  BY <1>9 DEF IsWrite, Empty
<1>11. ASSUME NEW i \in 1..n, Good(i - 1)
       PROVE  Good(i)
  <2> SUFFICES ASSUME NEW k \in Keys
               PROVE  t[i][k] = IF \E j \in 1..i : keys[j] = k THEN R[k] ELSE Gone
    OBVIOUS
  <2>1. t[i] = [t[i - 1] EXCEPT ![keys[i]] = R[keys[i]]]
    BY <1>4, <1>9 DEF IsWrite
  <2>2. t[i - 1] \in X
    <3>1. i - 1 \in 0..n
      BY <1>2
    <3> HIDE DEF X
    <3> QED
      BY <3>1
  <2>3. t[i - 1][k] = IF \E j \in 1..(i - 1) : keys[j] = k THEN R[k] ELSE Gone
    BY <1>11
  <2>4. t[i][k] = IF k = keys[i] THEN R[k] ELSE t[i - 1][k]
    BY <2>1, <2>2
  <2>5. \A j : j \in 1..i <=> j \in 1..(i - 1) \/ j = i
    BY <1>2
  <2> HIDE DEF X
  <2> QED
    BY <2>3, <2>4, <2>5
<1>12. Good(n)
  <2> HIDE DEF Good
  <2> SUFFICES ASSUME bad # {} PROVE FALSE
    BY <1>2
  <2>1. bad \in SUBSET Nat /\ bad \in SUBSET (0..n)
    OBVIOUS
  <2>2. PICK i \in bad : \A j \in bad : i <= j
    BY <2>1, LeastNumber
  <2>3. i # 0
    BY <1>10, <2>2
  <2>4. i \in 1..n /\ i - 1 \in 0..n /\ i - 1 \notin bad
    BY <1>2, <2>1, <2>2, <2>3
  <2>5. Good(i - 1)
    BY <2>4
  <2>6. Good(i)
    BY <1>11, <2>4, <2>5
  <2> QED
    BY <2>2, <2>6
<1>13. \A k \in Keys : t[n][k] = R[k]
  BY <1>2, <1>12
<1>14. t[n] \in X
  BY <1>2
<1> HIDE DEF Good
<1> QED
  BY <1>9, <1>13, <1>14

LEMMA PageIs ==
  ASSUME OnePage, LogOk(log)
  PROVE  /\ Len(ReadRows(0)) # ReadLimit
         /\ WriteRows(Empty, <<>> \o ReadRows(0)) = RowsIn(log, ReadWatermark(log))
<1>0. PICK R : R = Rows
  OBVIOUS
<1>1. R = RowsIn(log, ReadWatermark(log))
  BY <1>0 DEF Rows, RowsAt, RowsIn, Watermark, Of
<1>2. R \in [Keys -> Content]
  BY <1>1, RowsType
<1> DEFINE P == {k \in Keys : R[k] # Gone}
           n == Cardinality(P)
           keys == InOrderOf(LAMBDA k : k, P)
           last == Min({0 + ReadLimit, Len(keys)})
           page == SubSeq(keys, 0 + 1, last)
           read == [i \in DOMAIN page |-> [key |-> page[i], content |-> R[page[i]]]]
<1>3. ReadRows(0) = read
  BY <1>0 DEF ReadRows
<1>4. IsFiniteSet(P) /\ P \in SUBSET Keys /\ n \in Nat /\ n <= Cardinality(Keys)
  BY FS_Subset, FS_CardinalityType DEF OnePage
<1>5. ReadLimit \in Nat /\ n < ReadLimit
  BY <1>4, SessionAssumption, FS_CardinalityType DEF OnePage
<1>6. keys \in SetToSeqs(P)
  <2> DEFINE f == [k \in P |-> k]
  <2>1. P \in SUBSET Nat
    BY <1>4, SessionAssumption
  <2>2. f \in [P -> Nat] /\ \A x, y \in P : f[x] = f[y] => x = y
    BY <2>1
  <2>3. \A x \in P : f[x] = x
    OBVIOUS
  <2> HIDE DEF f, P
  <2>4. PICK s \in SetToSeqs(P) : \A i, j \in DOMAIN s : i < j => f[s[i]] < f[s[j]]
    BY <1>4, <2>2, OrderExists
  <2>5. \A i \in DOMAIN s : s[i] \in P
    BY <1>4, ListsAre
  <2>6. \E s1 \in SetToSeqs(P) : \A i, j \in DOMAIN s1 : i < j => s1[i] < s1[j]
    BY <2>3, <2>4, <2>5
  <2> QED
    BY <2>6 DEF InOrderOf
<1> HIDE DEF keys
<1>7. keys \in [1..n -> P] /\ DOMAIN keys = 1..n
  BY <1>4, <1>6, ListsAre
<1> HIDE DEF n, P
<1>8. keys \in Seq(P) /\ Len(keys) = n
  BY <1>4, <1>7
<1>9. last = n
  <2>1. \A x \in {ReadLimit, n} : n <= x
    BY <1>4, <1>5
  <2> DEFINE S == {0 + ReadLimit, Len(keys)}
  <2>2. S = {ReadLimit, n} /\ S \in SUBSET Nat /\ S # {} /\ n \in S
    BY <1>4, <1>5, <1>8
  <2> HIDE DEF S
  <2>3. Min(S) \in S /\ \A x \in S : Min(S) <= x
    BY <2>2, MinIsLeast
  <2>4. Min(S) = n
    BY <1>4, <1>5, <2>1, <2>2, <2>3
  <2> QED
    BY <2>4 DEF S
<1> HIDE DEF last
<1>10. page = keys
  <2>1. page \in Seq(P) /\ Len(page) = n /\ \A i \in 1..n : page[i] = keys[i]
    BY <1>4, <1>8, <1>9, SubSeqProperties
  <2> HIDE DEF page
  <2> QED
    BY <1>4, <1>7, <1>8, <2>1
<1> HIDE DEF page
<1>11. read = [i \in 1..n |-> [key |-> keys[i], content |-> R[keys[i]]]]
  BY <1>7, <1>10
<1> HIDE DEF read
<1>12. WriteRows(Empty, read) = R
  <2>2. \A k \in Keys \ P : R[k] = Gone
    BY DEF P
  <2> QED
    BY <1>2, <1>4, <1>6, <1>11, <2>2, WholePage DEF n
<1>13. read \in Seq(P \X Content \cup {read[i] : i \in 1..n}) /\ Len(read) = n
  BY <1>4, <1>11
<1>14. <<>> \o read = read
  BY <1>13
<1> QED
  BY <1>1, <1>3, <1>5, <1>4, <1>12, <1>13, <1>14

-----------------------------------------------------------------------------
(* A page of the history.                                                  *)
LEMMA LogPart ==
  ASSUME NEW L, LogOk(L), NEW C \in SUBSET L
  PROVE  LogOk(C)
BY NumberedSubset DEF LogOk

LEMMA LargerIs ==
  ASSUME NEW a \in Nat, NEW b \in Nat
  PROVE  Max({a, b}) = IF a <= b THEN b ELSE a
<1> DEFINE S == {a, b}
           top == IF a <= b THEN b ELSE a
<1>1. S \in SUBSET Nat /\ S # {} /\ \A x \in S : x <= top
  OBVIOUS
<1>2. top \in Nat /\ top \in S
  OBVIOUS
<1>3. Max(S) \in S /\ \A x \in S : x <= Max(S)
  BY <1>1, <1>2, MaxIsGreatest
<1> HIDE DEF S, top
<1>4. Max(S) = top
  <2>1. Max(S) \in Nat /\ Max(S) <= top
    BY <1>1, <1>3
  <2>2. top <= Max(S)
    BY <1>2, <1>3
  <2> QED
    BY <1>2, <2>1, <2>2
<1> QED
  BY <1>4 DEF S, top

LEMMA KeptTop ==
  ASSUME NEW L, LogOk(L), MaxChanges # 0,
         NEW C, C = PruneChanges(L, ReadWatermark(L), MaxChanges)
  PROVE  C \in SUBSET L /\ ReadWatermark(C) = ReadWatermark(L)
<1> DEFINE W == ReadWatermark(L)
<1>0. MaxChanges \in Int
  BY SessionAssumption
<1>1. C = IF MaxChanges < 0 THEN L ELSE {c \in L : c.seq > W - MaxChanges}
  BY DEF PruneChanges
<1>2. C \in SUBSET L /\ \A c \in L : MaxChanges < 0 \/ c.seq > W - MaxChanges => c \in C
  BY <1>1
<1>3. LogOk(C)
  BY <1>2, LogPart
<1>4. CASE L = {}
  <2>1. C = {}
    BY <1>2, <1>4
  <2> QED
    BY <1>2, <1>4, <2>1
<1>5. CASE L # {}
  <2>1. W \in Nat /\ \A c \in L : c.seq \in Nat /\ c.seq <= W
    BY TopIs
  <2>2. PICK c \in L : c.seq = W
    BY <1>5, TopIs
  <2>3. c \in C
    BY <1>0, <1>2, <2>1, <2>2
  <2>4. /\ ReadWatermark(C) \in Nat /\ W <= ReadWatermark(C)
        /\ \E d \in C : d.seq = ReadWatermark(C)
    BY <1>3, <2>2, <2>3, TopIs
  <2>5. ReadWatermark(C) <= W
    BY <1>2, <2>1, <2>4
  <2> QED
    BY <1>2, <2>1, <2>4, <2>5
<1> QED
  BY <1>4, <1>5

LEMMA KeptSuffices ==
  ASSUME NEW L, LogOk(L), NEW at \in Nat,
         NEW C, C = PruneChanges(L, ReadWatermark(L), MaxChanges),
         NEW latest, latest[Collection] = ReadWatermark(Of(L)),
         ~IsCursorStale(C, latest, Collection, at)
  PROVE  \A c \in Of(L) : c.seq > at => c \in C
<1> SUFFICES ASSUME NEW c \in Of(L), c.seq > at
             PROVE  c \in C
  OBVIOUS
<1> DEFINE W == ReadWatermark(L)
           kept == InScope(C, Collection)
<1>0. MaxChanges \in Int
  BY SessionAssumption
<1>1. C = IF MaxChanges < 0 THEN L ELSE {d \in L : d.seq > W - MaxChanges}
  BY DEF PruneChanges
<1>2. Of(L) \in SUBSET L /\ C \in SUBSET L /\ LogOk(Of(L)) /\ W \in Nat
  BY <1>1, OfIs, LogPart, TopIs
<1>3. /\ latest[Collection] \in Nat
      /\ c.seq \in Nat /\ 1 <= c.seq /\ c.seq <= latest[Collection]
  BY <1>2, TopIs
<1>4. latest[Collection] # 0
  BY <1>3
<1>5. ~(IF kept = {} THEN at < latest[Collection]
                     ELSE at < Min(SeqNumbers(kept)) - 1)
  BY <1>4 DEF IsCursorStale
<1>6. kept # {}
  BY <1>3, <1>5
<1> DEFINE S == SeqNumbers(kept)
<1>7. kept \in SUBSET C /\ kept \in SUBSET L
  BY <1>2 DEF InScope
<1>8. S \in SUBSET Nat /\ S # {}
  BY <1>6, <1>7, TopIs DEF SeqNumbers
<1>9. Min(S) \in S
  BY <1>8, MinIsLeast
<1>10. PICK d \in kept : d.seq = Min(S)
  BY <1>9 DEF SeqNumbers
<1> HIDE DEF S
<1>11. d \in C /\ d.seq \in Nat /\ d.seq <= c.seq
  BY <1>3, <1>5, <1>6, <1>7, <1>8, <1>10, TopIs DEF S
<1>12. MaxChanges < 0 \/ d.seq > W - MaxChanges
  BY <1>1, <1>11
<1>13. MaxChanges < 0 \/ c.seq > W - MaxChanges
  BY <1>0, <1>2, <1>3, <1>11, <1>12
<1> QED
  BY <1>1, <1>2, <1>13

\* The history that the shard reads, and what it answers.
KeptOf(L) == PruneChanges(L, ReadWatermark(L), MaxChanges)
LatestOf(L) == [s \in Scopes |-> ReadWatermark(InScope(L, s))]
ChangesAfter(L, requested) ==
  ReadChanges(KeptOf(L), LatestOf(L), requested, ChangesLimit)

LEMMA ChangesWatermark ==
  ASSUME NEW L, LogOk(L), MaxChanges # 0, NEW requested
  PROVE  ChangesAfter(L, requested).watermark = ReadWatermark(L)
<1>1. ReadWatermark(KeptOf(L)) = ReadWatermark(L)
  BY KeptTop DEF KeptOf
<1> QED
  BY <1>1 DEF ChangesAfter, ReadChanges

LEMMA ChangesAre ==
  ASSUME NEW L, LogOk(L), MaxChanges # 0, NEW at \in Nat, at <= ReadWatermark(L),
         NEW from
  PROVE  AnswerOk(L, "catchUp", from, at, ChangesAfter(L, From(at)), ReadWatermark(L))
<1> DEFINE W == ReadWatermark(L)
           C == KeptOf(L)
           latest == LatestOf(L)
           req == From(at)
           stale == {s \in DOMAIN req : IsCursorStale(C, latest, s, req[s])}
           wanted == {c \in C : c.scope \in DOMAIN req /\ c.seq > req[c.scope]}
           found == FirstRows(wanted, ChangesLimit + 1)
           page == FirstRows(found, ChangesLimit)
           more == Cardinality(found) > ChangesLimit
           last(s) == IF InScope(page, s) = {} THEN req[s]
                      ELSE Max(SeqNumbers(InScope(page, s)))
           p == ChangesAfter(L, From(at))
<1>1. /\ C \in SUBSET L /\ ReadWatermark(C) = W
  BY KeptTop DEF KeptOf
<1>2. DOMAIN req = {Collection} /\ req[Collection] = at
  BY DEF From
<1>3. p = IF stale # {}
          THEN [type |-> "resyncRequired", collections |-> stale, watermark |-> W]
          ELSE [type |-> "changes", updates |-> page, watermark |-> W,
                hasMore |-> more,
                cursors |-> [s \in DOMAIN req |-> IF more THEN last(s) ELSE W]]
  BY <1>1 DEF ChangesAfter, ReadChanges, SelectChanges
<1> HIDE DEF p
<1>4. CASE stale # {}
  <2>1. p.type = "resyncRequired" /\ p.watermark = W
    BY <1>3, <1>4
  <2> QED
    BY <2>1 DEF AnswerOk, p
<1>5. CASE stale = {}
  <2>1. ~IsCursorStale(C, latest, Collection, at)
    BY <1>2, <1>5
  <2>2. latest[Collection] = ReadWatermark(Of(L))
    BY SessionAssumption DEF LatestOf, Of
  <2>3. \A c \in Of(L) : c.seq > at => c \in C
    BY <2>1, <2>2, KeptSuffices DEF KeptOf
  <2>4. /\ p.type = "changes" /\ p.updates = page /\ p.hasMore = more
        /\ p.cursors[Collection] = IF more THEN last(Collection) ELSE W
    BY <1>2, <1>3, <1>5
  <2>5. W \in Nat /\ \A c \in L : c.seq \in Nat /\ c.seq <= W
    BY TopIs
  <2>6. Of(L) \in SUBSET L /\ \A c \in L : c \in Of(L) <=> c.scope = Collection
    BY DEF Of, InScope
  <2>7. wanted = Between(L, at, W)
    <3>1. \A c \in wanted : c \in Between(L, at, W)
      BY <1>1, <1>2, <2>5, <2>6 DEF Between
    <3>2. \A c \in Between(L, at, W) : c \in wanted
      BY <1>1, <1>2, <2>3, <2>5, <2>6 DEF Between
    <3> QED
      BY <3>1, <3>2
  <2>8. wanted \in SUBSET L
    BY <1>1
  <2> HIDE DEF wanted, stale, W, C, latest, req
  <2>9. Numbered(wanted) /\ ChangesLimit \in Nat /\ ChangesLimit + 1 \in Nat
    BY <2>8, LogPart, SessionAssumption DEF LogOk
  <2>10. /\ found \in SUBSET wanted
         /\ \A c \in found, d \in wanted : d.seq <= c.seq => d \in found
         /\ Cardinality(wanted) \in Nat
         /\ Cardinality(found) = IF Cardinality(wanted) <= ChangesLimit + 1
                                 THEN Cardinality(wanted) ELSE ChangesLimit + 1
         /\ Cardinality(wanted) <= ChangesLimit + 1 => found = wanted
    BY <2>9, FirstRowsAre
  <2> HIDE DEF found
  <2>11. Numbered(found)
    BY <2>9, <2>10, NumberedSubset
  <2>12. /\ page \in SUBSET found
         /\ \A c \in page, d \in found : d.seq <= c.seq => d \in page
         /\ Cardinality(found) <= ChangesLimit => page = found
    BY <2>9, <2>11, FirstRowsAre
  <2> HIDE DEF page
  <2> DEFINE next == Max({at, p.cursors[Collection]})
  <2>13. CASE ~more
    <3>1. page = Between(L, at, W)
      BY <2>7, <2>9, <2>10, <2>12, <2>13
    <3>2. next = W
      BY <2>4, <2>5, <2>13, LargerIs DEF W
    <3> HIDE DEF next
    <3> QED
      BY <2>4, <2>5, <2>13, <3>1, <3>2 DEF AnswerOk, p, W, next
  <2>14. CASE more
    <3>1. \A c \in page : c \in Of(L) /\ at < c.seq /\ c.seq <= W /\ c.scope = Collection
      BY <2>6, <2>7, <2>10, <2>12 DEF Between
    <3>2. InScope(page, Collection) = page
      BY <3>1 DEF InScope
    <3>3. CASE page = {}
      <4>1. next = at
        BY <1>2, <2>4, <2>14, <3>2, <3>3, LargerIs
      <4>2. Between(L, at, at) = {}
        BY <2>5, <2>6 DEF Between
      <4> HIDE DEF next
      <4> QED
        BY <2>4, <2>14, <3>3, <4>1, <4>2 DEF AnswerOk, p, W, next
    <3>4. CASE page # {}
      <4> DEFINE S == SeqNumbers(page)
                 g == Max(S)
      <4>1. S \in SUBSET Nat /\ S # {} /\ \A x \in S : x <= W
        BY <2>5, <2>6, <3>1, <3>4 DEF SeqNumbers
      <4>2. g \in S /\ \A x \in S : x <= g
        BY <2>5, <4>1, MaxIsGreatest
      <4>3. PICK e \in page : e.seq = g
        BY <4>2 DEF SeqNumbers
      <4>4. \A c \in page : c.seq \in S
        BY DEF SeqNumbers
      <4> HIDE DEF S, g
      <4>5. g \in Nat /\ at < g /\ g <= W
        BY <3>1, <4>1, <4>2, <4>3
      <4>6. next = g
        BY <2>4, <2>14, <3>2, <3>4, <4>5, LargerIs DEF g, S
      <4>7. page = Between(L, at, g)
        <5>1. \A c \in page : c \in Between(L, at, g)
          BY <3>1, <4>2, <4>4 DEF Between
        <5>2. ASSUME NEW c \in Between(L, at, g)
              PROVE  c \in page
          <6>1. c \in Of(L) /\ at < c.seq /\ c.seq <= g
            BY DEF Between
          <6>2. c.seq \in Nat /\ c.seq <= W
            BY <2>5, <2>6, <6>1
          <6>3. c \in wanted
            BY <2>7, <6>1, <6>2 DEF Between
          <6>4. c \in found
            BY <2>10, <2>12, <4>3, <6>1, <6>3
          <6> QED
            BY <2>12, <4>3, <6>1, <6>4
        <5> QED
          BY <5>1, <5>2
      <4>8. next \in Nat /\ at <= next /\ next <= W
        BY <4>5, <4>6
      <4>9. p.updates = Between(L, at, next)
        BY <2>4, <4>6, <4>7
      <4>10. p.hasMore \in BOOLEAN /\ (~p.hasMore => next = W)
        BY <2>4, <2>14
      <4> HIDE DEF next, more
      <4> QED
        BY <2>4, <4>8, <4>9, <4>10 DEF AnswerOk, p, W, next
    <3> QED
      BY <3>3, <3>4
  <2> QED
    BY <2>13, <2>14
<1> QED
  BY <1>4, <1>5

-----------------------------------------------------------------------------
(* The wire.                                                               *)
LEMMA SequenceIs ==
  ASSUME NEW s, IsSequence(s)
  PROVE  /\ Len(s) \in Nat /\ DOMAIN s = 1..Len(s)
         /\ \A i \in 1..Len(s) : s[i] \in ToSet(s)
BY DEF IsSequence

LEMMA AppendIs ==
  ASSUME NEW s, IsSequence(s), NEW e
  PROVE  /\ IsSequence(Append(s, e))
         /\ Len(s) \in Nat /\ DOMAIN s = 1..Len(s)
         /\ DOMAIN Append(s, e) = 1..(Len(s) + 1)
         /\ \A i \in DOMAIN s : Append(s, e)[i] = s[i]
         /\ Append(s, e)[Len(s) + 1] = e
         /\ ToSet(Append(s, e)) = ToSet(s) \cup {e}
<1> DEFINE S == ToSet(s) \cup {e}
           r == Append(s, e)
<1>1. Len(s) \in Nat /\ DOMAIN s = 1..Len(s)
  BY SequenceIs
<1>2. s \in Seq(S)
  BY DEF IsSequence
<1>3. /\ r \in Seq(S) /\ Len(r) = Len(s) + 1
      /\ \A i \in 1..Len(s) : r[i] = s[i]
      /\ r[Len(s) + 1] = e
  BY <1>2, AppendProperties
<1> HIDE DEF r, S
<1>4. DOMAIN r = 1..(Len(s) + 1)
  BY <1>3
<1>5. ToSet(r) = ToSet(s) \cup {e}
  <2>1. \A i \in 1..(Len(s) + 1) : i \in 1..Len(s) \/ i = Len(s) + 1
    BY <1>1
  <2>2. \A i \in 1..Len(s) : i \in 1..(Len(s) + 1)
    BY <1>1
  <2>3. Len(s) + 1 \in 1..(Len(s) + 1)
    BY <1>1
  <2> QED
    BY <1>1, <1>3, <1>4, <2>1, <2>2, <2>3 DEF ToSet
<1>6. r \in Seq(ToSet(r))
  BY <1>3, <1>5 DEF S
<1> QED
  BY <1>1, <1>3, <1>4, <1>5, <1>6 DEF r, IsSequence

\* r is s without its element at position g.
Thinned(s, g, r) ==
  /\ IsSequence(s) /\ IsSequence(r) /\ g \in DOMAIN s
  /\ Len(s) \in Nat /\ DOMAIN s = 1..Len(s) /\ DOMAIN r = 1..(Len(s) - 1)
  /\ \A j \in DOMAIN r : r[j] = IF j < g THEN s[j] ELSE s[j + 1]

LEMMA TailThins ==
  ASSUME NEW s, IsSequence(s), s # <<>>
  PROVE  Thinned(s, 1, Tail(s)) /\ Head(s) = s[1]
<1> DEFINE S == ToSet(s)
           r == Tail(s)
<1>1. Len(s) \in Nat /\ DOMAIN s = 1..Len(s) /\ s \in Seq(S)
  BY SequenceIs DEF IsSequence
<1> HIDE DEF S
<1>2. Len(s) # 0
  BY <1>1
<1>3. /\ r \in Seq(S) /\ Len(r) = Len(s) - 1
      /\ \A i \in 1..Len(r) : r[i] = s[i + 1]
      /\ Head(s) = s[1]
  BY <1>1, HeadTailProperties
<1> HIDE DEF r
<1>4. DOMAIN r = 1..(Len(s) - 1)
  BY <1>3
<1>5. IsSequence(r)
  <2>1. r \in [1..Len(r) -> ToSet(r)] /\ Len(r) \in Nat
    BY <1>3, SequenceIs DEF ToSet
  <2> QED
    BY <2>1 DEF IsSequence
<1>6. 1 \in DOMAIN s
  BY <1>1, <1>2
<1>7. \A j \in DOMAIN r : r[j] = IF j < 1 THEN s[j] ELSE s[j + 1]
  BY <1>1, <1>3, <1>4
<1> QED
  BY <1>1, <1>3, <1>4, <1>5, <1>6, <1>7 DEF Thinned, r

LEMMA RemoveThins ==
  ASSUME NEW s, IsSequence(s), NEW g \in DOMAIN s
  PROVE  Thinned(s, g, RemoveAt(s, g))
<1> DEFINE S == ToSet(s)
           before == SubSeq(s, 1, g - 1)
           after == SubSeq(s, g + 1, Len(s))
<1>1. Len(s) \in Nat /\ DOMAIN s = 1..Len(s) /\ s \in Seq(S)
  BY SequenceIs DEF IsSequence
<1>2. g \in Nat /\ 1 <= g /\ g <= Len(s)
  BY <1>1
<1>3. \A j \in 1..Len(s) : s[j] \in S
  BY SequenceIs
<1> HIDE DEF S
<1>4. before \in Seq(S) /\ Len(before) = g - 1 /\ \A j \in 1..(g - 1) : before[j] = s[j]
  <2>1. \A j \in 1..(g - 1) : s[j] \in S
    BY <1>1, <1>2, <1>3
  <2>2. 1 \in Int /\ g - 1 \in Int
    BY <1>2
  <2>3. /\ before \in Seq(S)
        /\ Len(before) = IF 1 <= g - 1 THEN (g - 1) - 1 + 1 ELSE 0
        /\ \A j \in 1..((g - 1) - 1 + 1) : before[j] = s[1 + j - 1]
    BY <2>1, <2>2, SubSeqProperties
  <2> QED
    BY <1>2, <2>3
<1>5. /\ after \in Seq(S) /\ Len(after) = Len(s) - g
      /\ \A j \in 1..(Len(s) - g) : after[j] = s[g + j]
  <2>1. \A j \in (g + 1)..Len(s) : s[j] \in S
    BY <1>1, <1>2, <1>3
  <2>2. g + 1 \in Int /\ Len(s) \in Int
    BY <1>1, <1>2
  <2>3. /\ after \in Seq(S)
        /\ Len(after) = IF g + 1 <= Len(s) THEN Len(s) - (g + 1) + 1 ELSE 0
        /\ \A j \in 1..(Len(s) - (g + 1) + 1) : after[j] = s[g + 1 + j - 1]
    BY <2>1, <2>2, SubSeqProperties
  <2> QED
    BY <1>1, <1>2, <2>3
<1> DEFINE r == before \o after
<1> HIDE DEF before, after
<1>6. /\ r \in Seq(S) /\ Len(r) = Len(before) + Len(after)
      /\ \A j \in 1..(Len(before) + Len(after)) :
           r[j] = IF j <= Len(before) THEN before[j] ELSE after[j - Len(before)]
  BY <1>4, <1>5, ConcatProperties
<1>7. RemoveAt(s, g) = r
  BY DEF RemoveAt, before, after
<1> HIDE DEF r
<1>8. Len(r) = Len(s) - 1 /\ DOMAIN r = 1..(Len(s) - 1)
  BY <1>1, <1>2, <1>4, <1>5, <1>6
<1>9. ASSUME NEW j \in 1..(Len(s) - 1)
      PROVE  r[j] = IF j < g THEN s[j] ELSE s[j + 1]
  <2>1. CASE j < g
    BY <1>1, <1>2, <1>4, <1>5, <1>6, <2>1
  <2>2. CASE ~(j < g)
    <3>1. j - (g - 1) \in 1..(Len(s) - g) /\ g + (j - (g - 1)) = j + 1
      BY <1>1, <1>2, <2>2
    <3>2. r[j] = after[j - Len(before)]
      BY <1>1, <1>2, <1>4, <1>5, <1>6, <2>2
    <3> QED
      BY <1>4, <1>5, <2>2, <3>1, <3>2
  <2> QED
    BY <2>1, <2>2
<1>10. IsSequence(r)
  <2>1. r \in [1..Len(r) -> ToSet(r)] /\ Len(r) \in Nat
    BY <1>6, SequenceIs DEF ToSet
  <2> QED
    BY <2>1 DEF IsSequence
<1> QED
  BY <1>1, <1>7, <1>8, <1>9, <1>10 DEF Thinned

-----------------------------------------------------------------------------
(* The wire without one of its messages.                                   *)
\* Where an element of the thinned sequence was, and where it has gone.
Was(g, j) == IF j < g THEN j ELSE j + 1
Goes(g, j) == IF j < g THEN j ELSE j - 1

LEMMA ThinnedIs ==
  ASSUME NEW w, NEW g, NEW v, Thinned(w, g, v)
  PROVE  /\ \A j \in DOMAIN v : Was(g, j) \in DOMAIN w /\ v[j] = w[Was(g, j)]
         /\ \A j \in DOMAIN w : j # g => Goes(g, j) \in DOMAIN v /\ v[Goes(g, j)] = w[j]
         /\ \A i, j \in DOMAIN v : i < j <=> Was(g, i) < Was(g, j)
         /\ \A i, j \in DOMAIN v : Was(g, i) = Was(g, j) => i = j
         /\ \A i \in DOMAIN v, j \in DOMAIN w :
              j # g => (i < Goes(g, j) <=> Was(g, i) < j)
<1> DEFINE n == Len(w)
<1>1. /\ n \in Nat /\ DOMAIN w = 1..n /\ DOMAIN v = 1..(n - 1) /\ g \in 1..n
      /\ \A j \in DOMAIN v : v[j] = IF j < g THEN w[j] ELSE w[j + 1]
  BY DEF Thinned
<1> HIDE DEF n
<1>2. \A j \in 1..(n - 1) : Was(g, j) \in 1..n /\ v[j] = w[Was(g, j)]
  BY <1>1 DEF Was
<1>3. ASSUME NEW j \in 1..n, j # g
      PROVE  Goes(g, j) \in 1..(n - 1) /\ v[Goes(g, j)] = w[j]
  <2>1. CASE j < g
    BY <1>1, <1>3, <2>1 DEF Goes
  <2>2. CASE ~(j < g)
    <3>1. j - 1 \in 1..(n - 1) /\ ~(j - 1 < g) /\ j - 1 + 1 = j
      BY <1>1, <1>3, <2>2
    <3> QED
      BY <1>1, <3>1, <2>2 DEF Goes
  <2> QED
    BY <2>1, <2>2
<1>4. \A i, j \in 1..(n - 1) : i < j <=> Was(g, i) < Was(g, j)
  BY <1>1 DEF Was
<1>5. \A i, j \in 1..(n - 1) : Was(g, i) = Was(g, j) => i = j
  BY <1>1 DEF Was
<1>6. \A i \in 1..(n - 1), j \in 1..n : j # g => (i < Goes(g, j) <=> Was(g, i) < j)
  BY <1>1 DEF Was, Goes
<1> QED
  BY <1>1, <1>2, <1>3, <1>4, <1>5, <1>6

\* The message that goes has no updates, or is the first one.
Loses(w, g, v) == Thinned(w, g, v) /\ (g = 1 \/ w[g].type = "answer")

LEMMA SentThinned ==
  ASSUME NEW L, NEW w, NEW g, NEW v, Loses(w, g, v), NEW i \in DOMAIN v, NEW n,
         Sent(L, w, Was(g, i), n)
  PROVE  Sent(L, v, i, n)
<1>0. Thinned(w, g, v)
  BY DEF Loses
<1>1. n \in Nat /\ n <= ReadWatermark(L)
  BY DEF Sent
<1>2. ASSUME NEW j \in DOMAIN v, j < i, v[j].type = "updates"
      PROVE  v[j].watermark <= n
  BY <1>0, <1>2, ThinnedIs DEF Sent
<1>3. ASSUME NEW j \in DOMAIN v, j > i, NEW c \in Updates(v[j])
      PROVE  c.seq > n
  <2>1. Was(g, j) \in DOMAIN w /\ Was(g, i) < Was(g, j) /\ v[j] = w[Was(g, j)]
    <3>1. i < j
      BY <1>0, <1>3 DEF Thinned
    <3> QED
      BY <1>0, <3>1, ThinnedIs
  <2>2. Was(g, i) \in DOMAIN w /\ w[Was(g, j)] = v[j]
    BY <1>0, <2>1, ThinnedIs
  <2>3. Was(g, j) > Was(g, i)
    BY <1>0, <2>1, <2>2 DEF Thinned
  <2> QED
    BY <1>3, <2>1, <2>2, <2>3 DEF Sent
<1>4. ASSUME NEW c \in Of(L), c.seq > n
      PROVE  \E j \in DOMAIN v : j > i /\ c \in Updates(v[j])
  <2>1. PICK j \in DOMAIN w : j > Was(g, i) /\ c \in Updates(w[j])
    BY <1>4 DEF Sent
  <2>2. j # g
    <3>1. CASE g = 1
      <4>1. DOMAIN w = 1..Len(w) /\ DOMAIN v = 1..(Len(w) - 1) /\ Len(w) \in Nat
        BY <1>0 DEF Thinned
      <4> QED
        BY <2>1, <3>1, <4>1 DEF Was
    <3>2. CASE w[g].type = "answer"
      BY <2>1, <3>2 DEF Updates
    <3> QED
      BY <3>1, <3>2 DEF Loses
  <2>3. Was(g, i) < j
    <3>1. Was(g, i) \in DOMAIN w
      BY <1>0, ThinnedIs
    <3> QED
      BY <1>0, <2>1, <3>1 DEF Thinned
  <2>4. Goes(g, j) \in DOMAIN v /\ v[Goes(g, j)] = w[j] /\ i < Goes(g, j)
    BY <1>0, <2>2, <2>3, ThinnedIs
  <2>5. Goes(g, j) > i
    BY <1>0, <2>4 DEF Thinned
  <2> QED
    BY <2>1, <2>4, <2>5
<1> QED
  BY <1>1, <1>2, <1>3, <1>4 DEF Sent

LEMMA WireThinned ==
  ASSUME NEW L, NEW w, NEW g, NEW v, Loses(w, g, v), WireOk(L, w)
  PROVE  WireOk(L, v)
<1>0. Thinned(w, g, v)
  BY DEF Loses
<1>1. IsSequence(v)
  BY <1>0 DEF Thinned
<1>2. ASSUME NEW i \in DOMAIN v
      PROVE  /\ v[i].type \in {"replayed", "updates", "answer"}
             /\ v[i].type = "updates" =>
                  Broadcast(L, v[i]) /\ Sent(L, v, i, v[i].watermark)
  <2>1. Was(g, i) \in DOMAIN w /\ v[i] = w[Was(g, i)]
    BY <1>0, ThinnedIs
  <2>2. /\ v[i].type \in {"replayed", "updates", "answer"}
        /\ v[i].type = "updates" =>
             Broadcast(L, v[i]) /\ Sent(L, w, Was(g, i), v[i].watermark)
    BY <2>1 DEF WireOk
  <2> QED
    BY <2>2, SentThinned
<1> QED
  BY <1>1, <1>2 DEF WireOk

LEMMA OnWireThinned ==
  ASSUME NEW w, NEW g, NEW v, Thinned(w, g, v), NEW c, OnWire(w, c), c \notin Updates(w[g])
  PROVE  OnWire(v, c)
<1>1. PICK j \in DOMAIN w : c \in Updates(w[j])
  BY DEF OnWire
<1>2. Goes(g, j) \in DOMAIN v /\ v[Goes(g, j)] = w[j]
  BY <1>1, ThinnedIs
<1> QED
  BY <1>1, <1>2 DEF OnWire

LEMMA RestThinned ==
  ASSUME NEW w, NEW g, NEW v, Thinned(w, g, v)
  PROVE  /\ \A H : Older(H, w) => Older(H, v)
         /\ NoAnswer(w) => NoAnswer(v)
         /\ OneAnswer(w) => OneAnswer(v)
         /\ OneAnswer(w) /\ w[g].type = "answer" => NoAnswer(v)
<1>1. /\ \A j \in DOMAIN v : Was(g, j) \in DOMAIN w /\ v[j] = w[Was(g, j)]
      /\ \A i, j \in DOMAIN v : Was(g, i) = Was(g, j) => i = j
  BY ThinnedIs
<1>2. \A j \in DOMAIN v : Was(g, j) # g
  <2>1. DOMAIN v = 1..(Len(w) - 1) /\ Len(w) \in Nat /\ g \in 1..Len(w)
    BY DEF Thinned
  <2> QED
    BY <2>1 DEF Was
<1>3. \A H : Older(H, w) => Older(H, v)
  BY <1>1 DEF Older
<1>4. NoAnswer(w) => NoAnswer(v)
  BY <1>1 DEF NoAnswer
<1>5. OneAnswer(w) => OneAnswer(v)
  BY <1>1 DEF OneAnswer
<1>6. ASSUME OneAnswer(w), w[g].type = "answer", NEW i \in DOMAIN v
      PROVE  v[i].type # "answer"
  <2>1. g \in DOMAIN w
    BY DEF Thinned
  <2> QED
    BY <1>1, <1>2, <1>6, <2>1 DEF OneAnswer
<1> QED
  BY <1>3, <1>4, <1>5, <1>6 DEF NoAnswer

LEMMA HeadSent ==
  ASSUME NEW L, NEW w, NEW v, Thinned(w, 1, v), NEW n, Sent(L, w, 1, n)
  PROVE  /\ \A i \in DOMAIN v : \A c \in Updates(v[i]) : c.seq > n
         /\ \A c \in Of(L) : c.seq > n => OnWire(v, c)
<1>1. DOMAIN v = 1..(Len(w) - 1) /\ Len(w) \in Nat /\ DOMAIN w = 1..Len(w)
  BY DEF Thinned
<1>2. ASSUME NEW i \in DOMAIN v, NEW c \in Updates(v[i])
      PROVE  c.seq > n
  <2>1. Was(1, i) \in DOMAIN w /\ v[i] = w[Was(1, i)]
    BY ThinnedIs
  <2>2. Was(1, i) > 1
    BY <1>1 DEF Was
  <2> QED
    BY <1>2, <2>1, <2>2 DEF Sent
<1>3. ASSUME NEW c \in Of(L), c.seq > n
      PROVE  OnWire(v, c)
  <2>1. PICK j \in DOMAIN w : j > 1 /\ c \in Updates(w[j])
    BY <1>3 DEF Sent
  <2>2. j # 1
    BY <1>1, <2>1
  <2>3. Goes(1, j) \in DOMAIN v /\ v[Goes(1, j)] = w[j]
    BY <2>2, ThinnedIs
  <2> QED
    BY <2>1, <2>3 DEF OnWire
<1> QED
  BY <1>2, <1>3

-----------------------------------------------------------------------------
(* The log grows.                                                          *)
\* The log L has become M: U are the updates of the collection among the new.
Grows(L, M, U) ==
  /\ LogOk(L) /\ LogOk(M) /\ Of(M) = Of(L) \cup U
  /\ ReadWatermark(L) <= ReadWatermark(M)
  /\ \A c \in U : c.seq > ReadWatermark(L)

LEMMA GrowsNone ==
  ASSUME NEW L, LogOk(L)
  PROVE  Grows(L, L, {})
BY TopIs DEF Grows

LEMMA PastStays ==
  ASSUME NEW L, NEW M, NEW U, Grows(L, M, U), NEW n \in Nat, n <= ReadWatermark(L)
  PROVE  RowsIn(M, n) = RowsIn(L, n) /\ \A m : Between(M, m, n) = Between(L, m, n)
<1>1. /\ Of(M) = Of(L) \cup U /\ ReadWatermark(L) \in Nat
      /\ \A c \in U : c.seq > ReadWatermark(L) /\ c \in Of(M)
  BY TopIs DEF Grows
<1>2. \A c \in Of(M) : c.seq \in Nat
  BY OfIs DEF Grows
<1>3. \A c \in U : ~(c.seq <= n)
  BY <1>1, <1>2
<1>4. {c \in Of(M) : c.seq <= n} = {c \in Of(L) : c.seq <= n}
  BY <1>1, <1>3
<1>5. \A m : Between(M, m, n) = Between(L, m, n)
  BY <1>1, <1>3 DEF Between
<1> QED
  BY <1>4, <1>5 DEF RowsIn

LEMMA BroadcastStays ==
  ASSUME NEW L, NEW M, NEW U, Grows(L, M, U), NEW b, Broadcast(L, b)
  PROVE  Broadcast(M, b)
<1>1. ReadWatermark(L) \in Nat /\ ReadWatermark(M) \in Nat
  BY TopIs DEF Grows
<1> QED
  BY <1>1 DEF Broadcast, Grows

LEMMA HeldStays ==
  ASSUME NEW L, NEW M, NEW U, Grows(L, M, U), NEW H, HeldOk(L, H)
  PROVE  HeldOk(M, H)
BY BroadcastStays DEF HeldOk

LEMMA AnswerStays ==
  ASSUME NEW L, NEW M, NEW U, Grows(L, M, U), NEW what, NEW from, NEW at, NEW p,
         NEW n \in Nat, n <= ReadWatermark(L), AnswerOk(L, what, from, at, p, n)
  PROVE  AnswerOk(M, what, from, at, p, n)
<1>1. RowsIn(M, n) = RowsIn(L, n)
  BY PastStays
<1> DEFINE next == Max({at, p.cursors[Collection]})
<1>2. ASSUME next \in Nat, next <= n
      PROVE  Between(M, at, next) = Between(L, at, next)
  <2>1. ReadWatermark(L) \in Nat
    BY TopIs DEF Grows
  <2>2. next <= ReadWatermark(L)
    BY <1>2, <2>1
  <2> HIDE DEF next
  <2> QED
    BY <1>2, <2>2, PastStays
<1>3. CASE what = "establish" /\ p.watermark = n
  BY <1>3 DEF AnswerOk
<1>4. CASE /\ what \in {"load", "reload"} /\ from <= n
           /\ Len(p.rows) # ReadLimit
           /\ WriteRows(Empty, <<>> \o p.rows) = RowsIn(L, n)
  BY <1>1, <1>4 DEF AnswerOk
<1>5. CASE what = "catchUp" /\ p.type = "resyncRequired" /\ p.watermark = n
  BY <1>5 DEF AnswerOk
<1>6. CASE /\ what = "catchUp" /\ p.type = "changes"
           /\ next \in Nat /\ at <= next /\ next <= n
           /\ p.hasMore \in BOOLEAN /\ (~p.hasMore => next = n)
           /\ p.updates = Between(L, at, next)
  <2>1. p.updates = Between(M, at, next)
    BY <1>2, <1>6
  <2> QED
    BY <1>6, <2>1 DEF AnswerOk
<1> QED
  BY <1>3, <1>4, <1>5, <1>6 DEF AnswerOk

LEMMA SentAppend ==
  ASSUME NEW L, NEW M, NEW m, Grows(L, M, Updates(m)), NEW w, IsSequence(w),
         NEW i \in DOMAIN w, NEW n, Sent(L, w, i, n)
  PROVE  Sent(M, Append(w, m), i, n)
<1> DEFINE r == Append(w, m)
           N == Len(w)
<1>1. /\ N \in Nat /\ DOMAIN w = 1..N /\ DOMAIN r = 1..(N + 1)
      /\ \A j \in 1..N : r[j] = w[j]
      /\ r[N + 1] = m
  BY AppendIs
<1>2. /\ ReadWatermark(L) \in Nat /\ ReadWatermark(M) \in Nat
      /\ ReadWatermark(L) <= ReadWatermark(M)
      /\ Of(M) = Of(L) \cup Updates(m)
      /\ \A c \in Updates(m) : c.seq > ReadWatermark(L) /\ c \in Of(M)
  BY TopIs DEF Grows
<1> HIDE DEF r, N
<1>3. n \in Nat /\ n <= ReadWatermark(L) /\ n <= ReadWatermark(M)
  BY <1>2 DEF Sent
<1>4. ASSUME NEW j \in 1..(N + 1), j < i, r[j].type = "updates"
      PROVE  r[j].watermark <= n
  BY <1>1, <1>4 DEF Sent
<1>5. ASSUME NEW j \in 1..(N + 1), j > i, NEW c \in Updates(r[j])
      PROVE  c.seq > n
  <2>1. CASE j \in 1..N
    BY <1>1, <1>5, <2>1 DEF Sent
  <2>2. CASE j = N + 1
    <3>1. c.seq > ReadWatermark(L)
      BY <1>1, <1>2, <1>5, <2>2
    <3>2. c.seq \in Nat
      BY <1>1, <1>2, <1>5, <2>2, OfIs DEF Grows
    <3> QED
      BY <1>2, <1>3, <3>1, <3>2
  <2> QED
    BY <1>1, <2>1, <2>2
<1>6. ASSUME NEW c \in Of(M), c.seq > n
      PROVE  \E j \in 1..(N + 1) : j > i /\ c \in Updates(r[j])
  <2>1. CASE c \in Updates(m)
    <3>1. N + 1 \in 1..(N + 1) /\ N + 1 > i
      BY <1>1
    <3> QED
      BY <1>1, <2>1, <3>1
  <2>2. CASE c \in Of(L)
    <3>1. PICK j \in 1..N : j > i /\ c \in Updates(w[j])
      BY <1>1, <1>6, <2>2 DEF Sent
    <3>2. j \in 1..(N + 1)
      BY <1>1
    <3> QED
      BY <1>1, <3>1, <3>2
  <2> QED
    BY <1>2, <2>1, <2>2
<1> QED
  BY <1>1, <1>3, <1>4, <1>5, <1>6 DEF Sent, r

LEMMA SentLast ==
  ASSUME NEW L, NEW M, NEW m, Grows(L, M, Updates(m)), NEW w, WireOk(L, w)
  PROVE  Sent(M, Append(w, m), Len(w) + 1, ReadWatermark(M))
<1> DEFINE r == Append(w, m)
           N == Len(w)
<1>1. /\ N \in Nat /\ DOMAIN w = 1..N /\ DOMAIN r = 1..(N + 1)
      /\ \A j \in 1..N : r[j] = w[j]
  BY AppendIs DEF WireOk
<1>2. /\ ReadWatermark(L) \in Nat /\ ReadWatermark(M) \in Nat
      /\ ReadWatermark(L) <= ReadWatermark(M)
  BY TopIs DEF Grows
<1>3. \A c \in Of(M) : c.seq \in Nat /\ c.seq <= ReadWatermark(M)
  BY OfIs DEF Grows
<1> HIDE DEF r, N
<1>4. ASSUME NEW j \in 1..(N + 1), j < N + 1, r[j].type = "updates"
      PROVE  r[j].watermark <= ReadWatermark(M)
  <2>1. j \in 1..N /\ r[j] = w[j]
    BY <1>1, <1>4
  <2>2. Broadcast(L, w[j])
    BY <1>1, <1>4, <2>1 DEF WireOk
  <2> QED
    BY <1>2, <2>1, <2>2 DEF Broadcast
<1>5. \A j \in 1..(N + 1) : ~(j > N + 1)
  BY <1>1
<1>6. \A c \in Of(M) : ~(c.seq > ReadWatermark(M))
  BY <1>2, <1>3
<1> QED
  BY <1>1, <1>2, <1>4, <1>5, <1>6 DEF Sent, r, N

LEMMA WireAppend ==
  ASSUME NEW L, NEW M, NEW m, Grows(L, M, Updates(m)), NEW w, WireOk(L, w),
         m.type \in {"replayed", "updates", "answer"},
         m.type = "updates" => Broadcast(M, m) /\ m.watermark = ReadWatermark(M)
  PROVE  WireOk(M, Append(w, m))
<1> DEFINE r == Append(w, m)
           N == Len(w)
<1>1. /\ IsSequence(w) /\ IsSequence(r)
      /\ N \in Nat /\ DOMAIN w = 1..N /\ DOMAIN r = 1..(N + 1)
      /\ \A j \in 1..N : r[j] = w[j]
      /\ r[N + 1] = m
  BY AppendIs DEF WireOk
<1>2. Sent(M, r, N + 1, ReadWatermark(M))
  BY SentLast
<1>3. \A i \in DOMAIN w : \A n : Sent(L, w, i, n) => Sent(M, r, i, n)
  BY <1>1, SentAppend
<1> HIDE DEF r, N
<1>4. ASSUME NEW i \in 1..(N + 1)
      PROVE  /\ r[i].type \in {"replayed", "updates", "answer"}
             /\ r[i].type = "updates" =>
                  Broadcast(M, r[i]) /\ Sent(M, r, i, r[i].watermark)
  <2>1. CASE i = N + 1
    BY <1>1, <1>2, <2>1
  <2>2. CASE i \in 1..N
    <3>1. i \in DOMAIN w /\ r[i] = w[i]
      BY <1>1, <2>2
    <3>2. /\ w[i].type \in {"replayed", "updates", "answer"}
          /\ w[i].type = "updates" => Broadcast(L, w[i]) /\ Sent(L, w, i, w[i].watermark)
      BY <3>1 DEF WireOk
    <3> QED
      BY <1>3, <3>1, <3>2, BroadcastStays
  <2> QED
    BY <1>1, <2>1, <2>2
<1> QED
  BY <1>1, <1>4 DEF WireOk, r

LEMMA SentSame ==
  ASSUME NEW L, NEW M, Grows(L, M, {}), NEW w, NEW i, NEW n, Sent(L, w, i, n)
  PROVE  Sent(M, w, i, n)
<1>1. Of(M) = Of(L) /\ ReadWatermark(L) <= ReadWatermark(M)
  BY DEF Grows
<1>2. ReadWatermark(L) \in Nat /\ ReadWatermark(M) \in Nat
  BY TopIs DEF Grows
<1>3. n \in Nat /\ n <= ReadWatermark(M)
  BY <1>1, <1>2 DEF Sent
<1> QED
  BY <1>1, <1>3 DEF Sent

LEMMA WireSame ==
  ASSUME NEW L, NEW M, Grows(L, M, {}), NEW w, WireOk(L, w)
  PROVE  WireOk(M, w)
<1>1. \A i, n : Sent(L, w, i, n) => Sent(M, w, i, n)
  BY SentSame
<1>2. \A b : Broadcast(L, b) => Broadcast(M, b)
  BY BroadcastStays
<1> QED
  BY <1>1, <1>2 DEF WireOk

LEMMA WireEmpty ==
  ASSUME NEW L, NEW w, w = <<>>
  PROVE  WireOk(L, w) /\ NoAnswer(w) /\ OneAnswer(w) /\ \A H : Older(H, w)
<1>1. DOMAIN w = {}
  OBVIOUS
<1>2. IsSequence(w)
  BY DEF IsSequence
<1>3. WireOk(L, w)
  BY <1>1, <1>2 DEF WireOk
<1>4. NoAnswer(w) /\ OneAnswer(w)
  BY <1>1 DEF NoAnswer, OneAnswer
<1>5. \A H : Older(H, w)
  BY <1>1 DEF Older
<1> QED
  BY <1>3, <1>4, <1>5

LEMMA RowsNone ==
  ASSUME OnePage, NEW L, LogOk(L)
  PROVE  RowsIn(L, 0) = Empty
<1>1. \A c \in Of(L) : c.seq \in Nat /\ 1 <= c.seq
  BY OfIs
<1>2. {c \in Of(L) : c.seq <= 0} = {}
  BY <1>1
<1>3. Seed = Empty
  BY DEF Seed, Empty, OnePage
<1> QED
  BY <1>2, <1>3 DEF RowsIn, ApplyUpdates, Empty

LEMMA RowsNext ==
  ASSUME NEW L, LogOk(L), NEW m \in Nat, NEW n \in Nat, m <= n
  PROVE  ApplyUpdates(RowsIn(L, m), Between(L, m, n)) = RowsIn(L, n)
<1> DEFINE U == Between(L, m, n)
           R == ApplyUpdates(RowsIn(L, m), U)
<1>1. U \in SUBSET Of(L)
  BY DEF Between
<1>2. RowsIn(L, m) \in [Keys -> Content] /\ RowsIn(L, n) \in [Keys -> Content]
  BY RowsType
<1>3. R \in [Keys -> Content]
  BY <1>1, <1>2, ApplyType
<1>4. \A k \in Keys : R[k] = RowsIn(L, n)[k]
  <2> TAKE k \in Keys
  <2>1. /\ (\E c \in U : c.key = k) => R[k] = RowsIn(L, n)[k]
        /\ (\A c \in U : c.key # k) => R[k] = RowsIn(L, m)[k] /\ RowsIn(L, n)[k] = RowsIn(L, m)[k]
    BY RowsStep
  <2> HIDE DEF R, U
  <2> QED
    BY <2>1
<1> HIDE DEF R
<1>5. R = RowsIn(L, n)
  BY <1>2, <1>3, <1>4
<1> QED
  BY <1>5 DEF R

-----------------------------------------------------------------------------
(* The first state, and the end of a job.                                  *)
LEMMA InitInv ==
  ASSUME OnePage, Init
  PROVE  SessionInv
<1>1. LogOk({}) /\ ReadWatermark({}) = 0
  <2>1. Numbered({})
    BY FS_EmptySet DEF Numbered
  <2> QED
    BY <2>1 DEF LogOk, ReadWatermark
<1>2. LogOk(log) /\ ReadWatermark(log) = 0 /\ Of(log) = {}
  BY <1>1 DEF Init, Of, InScope
<1>3. WireOk(log, wire) /\ NoAnswer(wire) /\ OneAnswer(wire) /\ Older(ToSet(buffered), wire)
  BY WireEmpty DEF Init
<1>4. AnswersOk
  BY <1>3 DEF AnswersOk, NoAnswer
<1>5. DOMAIN buffered = {} /\ ToSet(buffered) = {}
  BY DEF Init, ToSet
<1>6. IsSequence(buffered)
  BY DEF Init, IsSequence
<1>7. HeldOk(log, ToSet(buffered))
  BY <1>5 DEF HeldOk
<1>8. JobOk
  BY DEF Init, JobOk, Waiting, OnePage
<1>9. RowsOk
  <2>1. RowsIn(log, 0) = Empty
    BY <1>2, RowsNone
  <2> QED
    BY <1>2, <2>1 DEF Init, RowsOk
<1>10. LoadOk /\ SyncOk
  BY DEF Init, LoadOk, SyncOk, OnePage
<1> QED
  BY <1>2, <1>3, <1>4, <1>6, <1>7, <1>8, <1>9, <1>10 DEF SessionInv

(* What an action does to the request, the job and the queue.              *)
LEMMA AskIs ==
  ASSUME NEW n
  PROVE  AskChanges(n) \in [type : {"changes"}, requested : {From(n)},
                            sent : BOOLEAN, answered : BOOLEAN]
<1>1. IsSent \in BOOLEAN
  BY DEF IsSent
<1> QED
  BY <1>1 DEF AskChanges, Ask, From

LEMMA EndJobIs ==
  ASSUME NEW next, EndJob(next)
  PROVE  \/ job' = "none" /\ request' = NoRequest /\ state' = next
         \/ /\ job' = "catchUp" /\ state' = "catching-up"
            /\ request' \in [type : {"changes"}, requested : {From(cursor')},
                             sent : BOOLEAN, answered : BOOLEAN]
BY AskIs DEF EndJob

\* Nothing is asked for: what is left to show of the invariant.
Rest ==
  /\ LogOk(log) /\ WireOk(log, wire) /\ NoAnswer(wire)
  /\ IsSequence(buffered) /\ HeldOk(log, ToSet(buffered)) /\ Older(ToSet(buffered), wire)
  /\ conn \in {"closed", "connecting", "replaying", "subscribed", "open"}
  /\ wire # <<>> => conn \in Up
  /\ rows = <<>> /\ RowsOk
Covered ==
  conn \in Up /\ \A c \in Of(log) : c.seq > cursor => OnWire(wire, c)

Calm ==
  \/ /\ job = "none" /\ request = NoRequest
     /\ state = "synchronized" => Covered
  \/ /\ job = "catchUp" /\ state # "synchronized"
     /\ request \in [type : {"changes"}, requested : {From(cursor)},
                     sent : BOOLEAN, answered : BOOLEAN]

LEMMA Settled == Rest /\ Calm => SessionInv
<1> SUFFICES ASSUME Rest, Calm
             PROVE  SessionInv
  OBVIOUS
<1>1. AnswersOk
  BY DEF Rest, AnswersOk, NoAnswer, OneAnswer
<1>2. JobOk
  BY DEF Rest, Calm, JobOk, Waiting
<1>3. LoadOk /\ SyncOk
  BY DEF Calm, LoadOk, SyncOk, Covered
<1> QED
  BY <1>1, <1>2, <1>3 DEF Rest, SessionInv

LEMMA Ended ==
  ASSUME NEW next, EndJob(next), Rest', next = "synchronized" => Covered'
  PROVE  SessionInv'
<1>1. Calm'
  BY EndJobIs DEF Calm
<1>2. (Rest /\ Calm => SessionInv)'
  BY Settled, PTL
<1> QED
  BY <1>1, <1>2

-----------------------------------------------------------------------------
(* The network.                                                            *)
LEMMA DownRest ==
  ASSUME SessionInv, wire' = <<>>,
         conn' \in {"closed", "connecting", "replaying", "subscribed", "open"},
         UNCHANGED <<log, base, rows, cursor, buffered, local>>
  PROVE  Rest'
<1>1. WireOk(log', wire') /\ NoAnswer(wire') /\ Older(ToSet(buffered'), wire')
  BY WireEmpty
<1>2. LogOk(log') /\ IsSequence(buffered') /\ HeldOk(log', ToSet(buffered'))
  BY DEF SessionInv
<1>3. rows' = <<>>
  BY DEF SessionInv, JobOk
<1>4. RowsOk'
  BY DEF SessionInv, RowsOk
<1> QED
  BY <1>1, <1>2, <1>3, <1>4 DEF Rest

LEMMA Down ==
  ASSUME SessionInv, wire' = <<>>, conn' \in {"closed", "connecting"},
         UNCHANGED log,
         \/ \E next : Reject(next) /\ next # "synchronized"
         \/ /\ UNCHANGED <<request, job, queued, base, rows, cursor, buffered, local>>
            /\ state' # "synchronized"
            /\ job \notin {"establish", "load", "reload"}
  PROVE  SessionInv'
<1>1. CASE \E next : Reject(next) /\ next # "synchronized"
  <2>1. PICK next : Reject(next) /\ next # "synchronized"
    BY <1>1
  <2>2. Rest'
    BY <2>1, DownRest DEF Reject
  <2> QED
    BY <2>1, <2>2, Ended DEF Reject
<1>2. CASE /\ UNCHANGED <<request, job, queued, base, rows, cursor, buffered, local>>
           /\ state' # "synchronized"
           /\ job \notin {"establish", "load", "reload"}
  <2>1. Rest'
    BY <1>2, DownRest
  <2>2. WireOk(log', wire') /\ NoAnswer(wire') /\ OneAnswer(wire')
    BY WireEmpty
  <2>3. AnswersOk'
    BY <2>2 DEF AnswersOk, NoAnswer
  <2>4. JobOk'
    BY <1>2 DEF SessionInv, JobOk, Waiting
  <2>5. LoadOk' /\ SyncOk'
    BY <1>2 DEF LoadOk, SyncOk
  <2> QED
    BY <2>1, <2>3, <2>4, <2>5 DEF Rest, SessionInv
<1> QED
  BY <1>1, <1>2

-----------------------------------------------------------------------------
(* The client has no usable socket.                                        *)
LEMMA ConnInv ==
  ASSUME SessionInv, conn \notin Up,
         conn' \in {"closed", "connecting", "replaying", "subscribed", "open"},
         UNCHANGED <<log, wire, session>>
  PROVE  SessionInv'
<1>1. /\ LogOk(log') /\ WireOk(log', wire') /\ IsSequence(buffered')
      /\ HeldOk(log', ToSet(buffered')) /\ Older(ToSet(buffered'), wire')
  BY DEF SessionInv, session
<1>2. AnswersOk'
  BY DEF SessionInv, session, AnswersOk
<1>3. wire = <<>> /\ job \notin {"establish", "load", "reload"}
  BY DEF SessionInv, JobOk
<1>4. JobOk'
  BY <1>3 DEF SessionInv, session, JobOk, Waiting
<1>5. RowsOk'
  BY DEF SessionInv, session, RowsOk
<1>6. LoadOk' /\ SyncOk'
  BY <1>3 DEF SessionInv, session, LoadOk, SyncOk
<1> QED
  BY <1>1, <1>2, <1>4, <1>5, <1>6 DEF SessionInv

LEMMA ConnectInv ==
  ASSUME SessionInv, Connect \/ OpenAgain \/ Subscribe
  PROVE  SessionInv'
<1>1. /\ conn \notin Up
      /\ conn' \in {"closed", "connecting", "replaying", "subscribed", "open"}
      /\ UNCHANGED <<log, wire, session>>
  BY DEF Connect, OpenAgain, Subscribe, Up, shard
<1> QED
  BY <1>1, ConnInv

LEMMA DisconnectedInv ==
  ASSUME SessionInv, wire' = <<>>, conn' \in {"closed", "connecting"}, UNCHANGED log,
         Disconnected
  PROVE  SessionInv'
<1>1. CASE Waiting /\ request.sent
  <2>1. Reject("disconnected")
    BY <1>1 DEF Disconnected
  <2> QED
    BY <2>1, Down
<1>2. CASE ~(Waiting /\ request.sent)
  <2>1. /\ state' = "disconnected"
        /\ UNCHANGED <<request, job, queued, base, rows, cursor, buffered, local>>
    BY <1>2 DEF Disconnected
  <2>2. job \notin {"establish", "load", "reload"}
    BY <1>2 DEF SessionInv, JobOk, Waiting
  <2> QED
    BY <2>1, <2>2, Down
<1> QED
  BY <1>1, <1>2

LEMMA DropInv ==
  ASSUME SessionInv, Drop
  PROVE  SessionInv'
BY DisconnectedInv DEF Drop, shard

LEMMA AttemptIs ==
  ASSUME AttemptFails
  PROVE  wire' = <<>> /\ conn' \in {"closed", "connecting"}
BY DEF AttemptFails

LEMMA ConnectFailsInv ==
  ASSUME SessionInv, ConnectFails
  PROVE  SessionInv'
<1>1. /\ wire' = <<>> /\ conn' \in {"closed", "connecting"} /\ UNCHANGED log
      /\ conn \notin Up /\ state # "synchronized"
  BY AttemptIs DEF ConnectFails, shard, Up, SessionInv, SyncOk
<1>2. CASE Reject(state)
  BY <1>1, <1>2, Down
<1>3. CASE UNCHANGED session
  <2>1. job \notin {"establish", "load", "reload"}
    BY <1>1 DEF SessionInv, JobOk
  <2>2. /\ UNCHANGED <<request, job, queued, base, rows, cursor, buffered, local>>
        /\ state' = state
    BY <1>3 DEF session
  <2> QED
    BY <1>1, <2>1, <2>2, Down
<1> QED
  BY <1>2, <1>3 DEF ConnectFails

LEMMA ReplayFailsInv ==
  ASSUME SessionInv, ReplayFails
  PROVE  SessionInv'
<1>1. wire' = <<>> /\ conn' \in {"closed", "connecting"} /\ UNCHANGED log
  BY AttemptIs DEF ReplayFails, shard
<1>2. CASE Reject("disconnected")
  BY <1>1, <1>2, Down
<1>3. CASE Disconnected
  BY <1>1, <1>3, DisconnectedInv
<1> QED
  BY <1>2, <1>3 DEF ReplayFails

\* The wire has lost a message without updates.
LEMMA ThinnedRest ==
  ASSUME SessionInv, NEW g, Loses(wire, g, wire'), wire[g].type = "answer",
         conn' \in {"closed", "connecting", "replaying", "subscribed", "open"},
         conn \in Up => conn' \in Up,
         UNCHANGED <<log, base, rows, cursor, buffered, local>>
  PROVE  Rest' /\ \A c : OnWire(wire, c) => OnWire(wire', c)
<1>0. Thinned(wire, g, wire')
  BY DEF Loses
<1>1. WireOk(log', wire')
  BY WireThinned DEF SessionInv
<1>2. NoAnswer(wire') /\ Older(ToSet(buffered'), wire')
  BY <1>0, RestThinned DEF SessionInv, AnswersOk
<1>3. \A c : OnWire(wire, c) => OnWire(wire', c)
  <2>1. Updates(wire[g]) = {}
    BY DEF Updates
  <2> QED
    BY <1>0, <2>1, OnWireThinned
<1>4. LogOk(log') /\ IsSequence(buffered') /\ HeldOk(log', ToSet(buffered'))
  BY DEF SessionInv
<1>5. wire # <<>>
  BY <1>0 DEF Thinned
<1>6. conn' \in Up /\ rows' = <<>>
  BY <1>5 DEF SessionInv, JobOk
<1>7. RowsOk'
  BY DEF SessionInv, RowsOk
<1> QED
  BY <1>1, <1>2, <1>3, <1>4, <1>6, <1>7 DEF Rest

LEMMA TimeoutInv ==
  ASSUME SessionInv, Timeout
  PROVE  SessionInv'
<1>1. /\ wire' = WithoutAnswer(wire) /\ EndJob(state)
      /\ UNCHANGED <<log, conn, base, rows, cursor, buffered, local>>
  BY DEF Timeout, Reject, shard
<1>2. state # "synchronized"
  BY DEF Timeout, SessionInv, SyncOk, Waiting
<1>3. Rest'
  <2> DEFINE late == {i \in DOMAIN wire : wire[i].type = "answer"}
             g == CHOOSE i \in late : TRUE
  <2>0. conn' \in {"closed", "connecting", "replaying", "subscribed", "open"}
    BY <1>1 DEF SessionInv, JobOk
  <2>1. CASE late = {}
    <3>1. wire' = wire
      BY <1>1, <2>1 DEF WithoutAnswer
    <3>2. NoAnswer(wire)
      BY <2>1 DEF NoAnswer
    <3>3. RowsOk'
      BY <1>1 DEF SessionInv, RowsOk
    <3> QED
      BY <1>1, <2>0, <3>1, <3>2, <3>3 DEF Rest, SessionInv, JobOk
  <2>2. CASE late # {}
    <3>1. g \in DOMAIN wire /\ wire[g].type = "answer"
      BY <2>2
    <3>2. wire' = RemoveAt(wire, g)
      BY <1>1, <2>2 DEF WithoutAnswer
    <3> HIDE DEF g, late
    <3>3. Loses(wire, g, wire')
      BY <3>1, <3>2, RemoveThins DEF SessionInv, WireOk, Loses
    <3> QED
      BY <1>1, <2>0, <3>1, <3>3, ThinnedRest
  <2> QED
    BY <2>1, <2>2
<1> QED
  BY <1>1, <1>2, <1>3, Ended

-----------------------------------------------------------------------------
(* The shard sends.                                                        *)
\* The shard, at L with w on the wire, has come to M with v on the wire.
Follows(L, w, M, v) ==
  \/ v = w /\ Grows(L, M, {})
  \/ \E m : /\ v = Append(w, m) /\ Grows(L, M, Updates(m))
            /\ m.type \in {"replayed", "updates"}
            /\ m.type = "updates" => Broadcast(M, m) /\ m.watermark = ReadWatermark(M)

LEMMA AppendedIs ==
  ASSUME NEW w, IsSequence(w), NEW m, NEW v, v = Append(w, m)
  PROVE  /\ Len(w) \in Nat /\ DOMAIN w = 1..Len(w) /\ DOMAIN v = 1..(Len(w) + 1)
         /\ \A i \in DOMAIN w : i \in DOMAIN v /\ v[i] = w[i]
         /\ Len(w) + 1 \in DOMAIN v /\ v[Len(w) + 1] = m
         /\ \A i \in DOMAIN v : i \in DOMAIN w \/ i = Len(w) + 1
<1>1. /\ Len(w) \in Nat /\ DOMAIN w = 1..Len(w) /\ DOMAIN v = 1..(Len(w) + 1)
      /\ \A i \in DOMAIN w : v[i] = w[i]
      /\ v[Len(w) + 1] = m
  BY AppendIs
<1> QED
  BY <1>1

LEMMA FollowsWire ==
  ASSUME NEW L, NEW w, NEW M, NEW v, WireOk(L, w), Follows(L, w, M, v)
  PROVE  /\ WireOk(M, v)
         /\ \A c : OnWire(w, c) => OnWire(v, c)
         /\ \A c \in Of(M) : c \notin Of(L) => OnWire(v, c)
         /\ OneAnswer(w) => OneAnswer(v)
<1>1. CASE v = w /\ Grows(L, M, {})
  <2>1. WireOk(M, v)
    BY <1>1, WireSame
  <2> QED
    BY <1>1, <2>1 DEF Grows
<1>2. ASSUME NEW m, v = Append(w, m), Grows(L, M, Updates(m)),
             m.type \in {"replayed", "updates"},
             m.type = "updates" => Broadcast(M, m) /\ m.watermark = ReadWatermark(M)
      PROVE  /\ WireOk(M, v)
             /\ \A c : OnWire(w, c) => OnWire(v, c)
             /\ \A c \in Of(M) : c \notin Of(L) => OnWire(v, c)
             /\ OneAnswer(w) => OneAnswer(v)
  <2>0. IsSequence(w)
    BY DEF WireOk
  <2>1. WireOk(M, v)
    BY <1>2, WireAppend
  <2>2. /\ \A i \in DOMAIN w : i \in DOMAIN v /\ v[i] = w[i]
        /\ Len(w) + 1 \in DOMAIN v /\ v[Len(w) + 1] = m
        /\ \A i \in DOMAIN v : i \in DOMAIN w \/ i = Len(w) + 1
    BY <1>2, <2>0, AppendedIs
  <2>3. \A c : OnWire(w, c) => OnWire(v, c)
    BY <2>2 DEF OnWire
  <2>4. \A c \in Of(M) : c \notin Of(L) => OnWire(v, c)
    BY <1>2, <2>2 DEF OnWire, Grows
  <2>5. OneAnswer(w) => OneAnswer(v)
    <3>1. m.type # "answer"
      BY <1>2
    <3> QED
      BY <2>2, <3>1 DEF OneAnswer
  <2> QED
    BY <2>1, <2>3, <2>4, <2>5
<1> QED
  BY <1>1, <1>2 DEF Follows

LEMMA FollowsOlder ==
  ASSUME NEW L, NEW w, NEW M, NEW v, IsSequence(w), Follows(L, w, M, v),
         NEW H, HeldOk(L, H), Older(H, w)
  PROVE  HeldOk(M, H) /\ Older(H, v)
<1>1. CASE v = w /\ Grows(L, M, {})
  BY <1>1, HeldStays
<1>2. ASSUME NEW m, v = Append(w, m), Grows(L, M, Updates(m))
      PROVE  HeldOk(M, H) /\ Older(H, v)
  <2>1. HeldOk(M, H)
    BY <1>2, HeldStays
  <2>2. /\ \A i \in DOMAIN w : i \in DOMAIN v /\ v[i] = w[i]
        /\ v[Len(w) + 1] = m
        /\ \A i \in DOMAIN v : i \in DOMAIN w \/ i = Len(w) + 1
    BY <1>2, AppendedIs
  <2>3. ASSUME NEW b \in H, NEW c \in Updates(m)
        PROVE  c.seq > b.watermark
    <3>1. c.seq > ReadWatermark(L) /\ c \in Of(M)
      BY <1>2, <2>3 DEF Grows
    <3>2. b.watermark \in Nat /\ b.watermark <= ReadWatermark(L)
      BY DEF HeldOk, Broadcast
    <3>3. c.seq \in Nat /\ ReadWatermark(L) \in Nat
      BY <1>2, <3>1, OfIs, TopIs DEF Grows
    <3> QED
      BY <3>1, <3>2, <3>3
  <2> QED
    BY <2>1, <2>2, <2>3 DEF Older
<1> QED
  BY <1>1, <1>2 DEF Follows

LEMMA FollowsAnswers ==
  ASSUME NEW L, NEW w, NEW M, NEW v, WireOk(L, w), Follows(L, w, M, v),
         NEW i \in DOMAIN v, v[i].type = "answer", NEW held, NEW what, NEW from, NEW at
  PROVE  /\ i \in DOMAIN w /\ w[i].type = "answer"
         /\ AnswerAt(L, w, held, i, what, from, at) => AnswerAt(M, v, held, i, what, from, at)
<1>1. CASE v = w /\ Grows(L, M, {})
  <2>1. ASSUME NEW n \in Nat, Sent(L, w, i, n), AnswerOk(L, what, from, at, w[i].payload, n)
        PROVE  Sent(M, v, i, n) /\ AnswerOk(M, what, from, at, v[i].payload, n)
    <3>1. n <= ReadWatermark(L)
      BY <2>1 DEF Sent
    <3> QED
      BY <1>1, <2>1, <3>1, SentSame, AnswerStays
  <2> QED
    BY <1>1, <2>1 DEF AnswerAt
<1>2. ASSUME NEW m, v = Append(w, m), Grows(L, M, Updates(m)),
             m.type \in {"replayed", "updates"}
      PROVE  /\ i \in DOMAIN w /\ w[i].type = "answer"
             /\ AnswerAt(L, w, held, i, what, from, at) =>
                  AnswerAt(M, v, held, i, what, from, at)
  <2>0. IsSequence(w)
    BY DEF WireOk
  <2>1. i \in DOMAIN w /\ v[i] = w[i]
    <3>1. /\ \A j \in DOMAIN w : v[j] = w[j]
          /\ v[Len(w) + 1] = m
          /\ \A j \in DOMAIN v : j \in DOMAIN w \/ j = Len(w) + 1
      BY <1>2, <2>0, AppendedIs
    <3>2. m.type # "answer"
      BY <1>2
    <3> QED
      BY <3>1, <3>2
  <2>2. ASSUME NEW n \in Nat, Sent(L, w, i, n), AnswerOk(L, what, from, at, w[i].payload, n)
        PROVE  Sent(M, v, i, n) /\ AnswerOk(M, what, from, at, v[i].payload, n)
    <3>1. n <= ReadWatermark(L)
      BY <2>2 DEF Sent
    <3>2. Sent(M, Append(w, m), i, n)
      BY <1>2, <2>0, <2>1, <2>2, SentAppend
    <3>3. AnswerOk(M, what, from, at, w[i].payload, n)
      BY <1>2, <2>2, <3>1, AnswerStays
    <3> QED
      BY <1>2, <2>1, <3>2, <3>3
  <2> QED
    BY <2>1, <2>2 DEF AnswerAt
<1> QED
  BY <1>1, <1>2 DEF Follows

LEMMA RowsGrow ==
  ASSUME RowsOk, NEW U, Grows(log, log', U), UNCHANGED <<cursor, base, local>>
  PROVE  RowsOk'
<1>1. /\ ReadWatermark(log) \in Nat /\ ReadWatermark(log') \in Nat
      /\ ReadWatermark(log) <= ReadWatermark(log')
  BY TopIs DEF Grows
<1>2. RowsIn(log', cursor) = RowsIn(log, cursor)
  BY PastStays DEF RowsOk
<1> QED
  BY <1>1, <1>2 DEF RowsOk

LEMMA ServerInv ==
  ASSUME SessionInv, conn \in Up, Follows(log, wire, log', wire'),
         UNCHANGED <<conn, session>>
  PROVE  SessionInv'
<1> USE DEF session
<1>1. /\ LogOk(log) /\ WireOk(log, wire) /\ IsSequence(wire)
      /\ HeldOk(log, ToSet(buffered)) /\ Older(ToSet(buffered), wire)
  BY DEF SessionInv, WireOk
<1>2. \E U : Grows(log, log', U)
  BY DEF Follows
<1>3. LogOk(log') /\ Of(log) \in SUBSET Of(log')
  BY <1>2 DEF Grows
<1>4. /\ WireOk(log', wire')
      /\ \A c : OnWire(wire, c) => OnWire(wire', c)
      /\ \A c \in Of(log') : c \notin Of(log) => OnWire(wire', c)
      /\ OneAnswer(wire) => OneAnswer(wire')
  BY <1>1, FollowsWire
<1>5. /\ IsSequence(buffered') /\ HeldOk(log', ToSet(buffered'))
      /\ Older(ToSet(buffered'), wire')
  BY <1>1, FollowsOlder DEF SessionInv
<1>6. AnswersOk'
  <2>1. ASSUME NEW i \in DOMAIN wire', wire'[i].type = "answer"
        PROVE  /\ request' # NoRequest /\ request'.answered
               /\ AnswerAt(log', wire', ToSet(buffered'), i, job', base', cursor')
    <3>1. i \in DOMAIN wire /\ wire[i].type = "answer"
      BY <1>1, <2>1, FollowsAnswers
    <3>2. /\ request # NoRequest /\ request.answered
          /\ AnswerAt(log, wire, ToSet(buffered), i, job, base, cursor)
      BY <3>1 DEF SessionInv, AnswersOk
    <3>3. AnswerAt(log', wire', ToSet(buffered), i, job, base, cursor)
      BY <1>1, <2>1, <3>2, FollowsAnswers
    <3> QED
      BY <3>2, <3>3
  <2>2. OneAnswer(wire')
    BY <1>4 DEF SessionInv, AnswersOk
  <2> QED
    BY <2>1, <2>2 DEF AnswersOk
<1>7. JobOk'
  BY DEF SessionInv, JobOk, Waiting
<1>8. RowsOk'
  BY <1>2, RowsGrow DEF SessionInv
<1>9. LoadOk'
  BY <1>4 DEF SessionInv, LoadOk
<1>10. SyncOk'
  BY <1>4 DEF SessionInv, SyncOk
<1> QED
  BY <1>3, <1>4, <1>5, <1>6, <1>7, <1>8, <1>9, <1>10 DEF SessionInv

LEMMA SubscribeLastInv ==
  ASSUME SessionInv, SubscribeLast
  PROVE  SessionInv'
<1>1. /\ conn \in Up /\ wire' = Append(wire, [type |-> "replayed"])
      /\ UNCHANGED <<log, conn, session>>
  BY DEF SubscribeLast, Up, shard, session
<1> DEFINE m == [type |-> "replayed"]
<1>2. m.type = "replayed" /\ Updates(m) = {}
  BY DEF Updates
<1>3. Grows(log, log', Updates(m))
  BY <1>1, <1>2, GrowsNone DEF SessionInv
<1> HIDE DEF m
<1>4. Follows(log, wire, log', wire')
  BY <1>1, <1>2, <1>3 DEF Follows, m
<1> QED
  BY <1>1, <1>4, ServerInv

-----------------------------------------------------------------------------
(* A push.                                                                 *)
LEMMA Pushed ==
  ASSUME LogOk(log), NEW b \in Batches, Watermark + Len(b) <= MaxSequence
  PROVE  LET M == log \cup Sequenced(b) IN
         /\ Grows(log, M, InScope(Sequenced(b), Collection))
         /\ ReadWatermark(M) = Watermark + Len(b)
<1> DEFINE W == ReadWatermark(log)
           n == Len(b)
           New == Sequenced(b)
           M == log \cup New
           Update == [scope : Scopes, key : Keys, put : BOOLEAN]
<1>1. b \in Seq(Update)
  BY SessionAssumption
<1> HIDE DEF Update
<1>2. n \in Nat /\ DOMAIN b = 1..n /\ \A i \in 1..n : b[i] \in Update
  BY <1>1
<1>3. W \in Nat /\ W + n <= MaxSequence /\ MaxSequence \in Nat /\ Watermark = W
  BY TopIs, SessionAssumption DEF Watermark
<1> HIDE DEF n, W
<1> DEFINE e == [i \in 1..n |-> [seq |-> W + i, scope |-> b[i].scope,
                                 key |-> b[i].key, put |-> b[i].put]]
<1>4. \A i \in 1..n : e[i] \in Entry /\ e[i].seq = W + i
  <2> TAKE i \in 1..n
  <2>1. W + i \in 1..MaxSequence
    BY <1>2, <1>3
  <2>2. b[i].scope \in Scopes /\ b[i].key \in Keys /\ b[i].put \in BOOLEAN
    BY <1>2 DEF Update
  <2> QED
    BY <2>1, <2>2 DEF Entry
<1>5. New = {e[i] : i \in 1..n}
  BY <1>2, <1>3 DEF Sequenced
<1> HIDE DEF e, New
<1>6. \A c \in New : \E i \in 1..n : c = e[i] /\ c.seq = W + i /\ c \in Entry
  BY <1>4, <1>5
<1>7. \A c \in log : c.seq \in Nat /\ c.seq <= W
  BY TopIs DEF W
<1>8. \A c \in New : c.seq \in Nat /\ c.seq > W /\ c.seq <= W + n
  BY <1>2, <1>3, <1>6
<1>9. \A c, d \in New : c.seq = d.seq => c = d
  BY <1>2, <1>3, <1>6
<1>10. IsFiniteSet(New)
  <2>1. IsFiniteSet(1..n)
    BY <1>2, FS_Interval
  <2>2. New = {e[i] : i \in 1..n}
    BY <1>5
  <2>3. e \in Surjection(1..n, New)
    <3>1. e \in [1..n -> New]
      BY <2>2 DEF e
    <3> QED
      BY <2>2, <3>1 DEF Surjection
  <2> QED
    BY <2>1, <2>3, FS_Surjection
<1>11. LogOk(M)
  <2>1. M \in SUBSET Entry
    BY <1>6 DEF LogOk
  <2>2. IsFiniteSet(M)
    BY <1>10, FS_Union DEF LogOk, Numbered
  <2>3. \A c \in M : c.seq \in Nat
    BY <1>7, <1>8
  <2>4. \A c, d \in M : c.seq = d.seq => c = d
    <3>1. \A c, d \in log : c.seq = d.seq => c = d
      BY DEF LogOk, Numbered
    <3>2. \A c \in log, d \in New : c.seq # d.seq
      BY <1>3, <1>7, <1>8
    <3> QED
      BY <1>9, <3>1, <3>2
  <2> HIDE DEF M
  <2> QED
    BY <2>1, <2>2, <2>3, <2>4 DEF LogOk, Numbered
<1>12. ReadWatermark(M) = W + n
  <2>1. /\ ReadWatermark(M) \in Nat
        /\ \A c \in M : c.seq <= ReadWatermark(M)
        /\ \/ M = {} /\ ReadWatermark(M) = 0
           \/ \E c \in M : c.seq = ReadWatermark(M)
    BY <1>11, TopIs
  <2>2. \A c \in M : c.seq <= W + n
    BY <1>2, <1>3, <1>7, <1>8
  <2>3. W + n = 0 \/ \E c \in M : c.seq = W + n
    <3>1. CASE n = 0
      <4>1. W = 0 \/ \E c \in log : c.seq = W
        BY TopIs DEF W
      <4> QED
        BY <1>3, <3>1, <4>1
    <3>2. CASE n # 0
      <4>1. n \in 1..n
        BY <1>2, <3>2
      <4>2. e[n] \in New /\ e[n].seq = W + n
        BY <1>4, <1>5, <4>1
      <4> QED
        BY <4>2
    <3> QED
      BY <3>1, <3>2
  <2> HIDE DEF M
  <2> QED
    BY <1>2, <1>3, <2>1, <2>2, <2>3
<1>13. Grows(log, M, InScope(New, Collection))
  <2>1. Of(M) = Of(log) \cup InScope(New, Collection)
    BY DEF Of, InScope
  <2>2. \A c \in InScope(New, Collection) : c.seq > W
    BY <1>8 DEF InScope
  <2>3. W <= ReadWatermark(M)
    BY <1>2, <1>3, <1>12
  <2> HIDE DEF M
  <2> QED
    BY <1>11, <2>1, <2>2, <2>3 DEF Grows, W
<1> QED
  BY <1>3, <1>12, <1>13 DEF New, n

-----------------------------------------------------------------------------
(* A push that nobody is told of.                                          *)
LEMMA QuietPush ==
  ASSUME SessionInv, conn \notin Up, NEW U, Grows(log, log', U),
         UNCHANGED <<conn, wire, session>>
  PROVE  SessionInv'
<1> USE DEF session
<1>1. wire = <<>> /\ job \notin {"establish", "load", "reload"} /\ state # "synchronized"
  BY DEF SessionInv, JobOk, SyncOk
<1>2. WireOk(log', wire') /\ NoAnswer(wire') /\ OneAnswer(wire') /\ Older(ToSet(buffered'), wire')
  BY <1>1, WireEmpty
<1>3. LogOk(log') /\ IsSequence(buffered') /\ HeldOk(log', ToSet(buffered'))
  BY HeldStays DEF SessionInv, Grows
<1>4. AnswersOk'
  BY <1>2 DEF AnswersOk, NoAnswer
<1>5. JobOk'
  BY DEF SessionInv, JobOk, Waiting
<1>6. RowsOk'
  BY RowsGrow DEF SessionInv
<1>7. LoadOk' /\ SyncOk'
  BY <1>1 DEF LoadOk, SyncOk
<1> QED
  BY <1>2, <1>3, <1>4, <1>5, <1>6, <1>7 DEF SessionInv

LEMMA PushInv ==
  ASSUME SessionInv, NEW b \in Batches, Push(b)
  PROVE  SessionInv'
<1> DEFINE U == InScope(Sequenced(b), Collection)
           m == [type |-> "updates", updates |-> U, watermark |-> Watermark + Len(b)]
<1>1. /\ log' = log \cup Sequenced(b)
      /\ wire' = IF conn \in Up /\ U # {} THEN Append(wire, m) ELSE wire
      /\ UNCHANGED <<conn, session>>
  BY DEF Push, Up
<1>2. Grows(log, log', U) /\ ReadWatermark(log') = Watermark + Len(b)
  BY <1>1, Pushed DEF SessionInv, Push
<1>3. m.type = "updates" /\ m.watermark = ReadWatermark(log') /\ m.updates = U
  BY <1>2
<1>4. Updates(m) = U
  BY <1>3 DEF Updates
<1> HIDE DEF m, U
<1>5. CASE conn \in Up /\ U # {}
  <2>1. U \in SUBSET Of(log')
    BY <1>2 DEF Grows
  <2>2. /\ ReadWatermark(log') \in Nat
        /\ \A c \in Of(log') : c.seq \in Nat /\ c.seq <= ReadWatermark(log')
    BY <1>2, TopIs, OfIs DEF Grows
  <2>3. Broadcast(log', m)
    BY <1>3, <1>5, <2>1, <2>2 DEF Broadcast
  <2>4. Follows(log, wire, log', wire')
    BY <1>1, <1>2, <1>3, <1>4, <1>5, <2>3 DEF Follows
  <2> QED
    BY <1>1, <1>5, <2>4, ServerInv
<1>6. CASE conn \in Up /\ U = {}
  <2>1. Follows(log, wire, log', wire')
    BY <1>1, <1>2, <1>6 DEF Follows
  <2> QED
    BY <1>1, <1>6, <2>1, ServerInv
<1>7. CASE conn \notin Up
  BY <1>1, <1>2, <1>7, QuietPush
<1> QED
  BY <1>5, <1>6, <1>7

-----------------------------------------------------------------------------
(* An answer.                                                              *)
LEMMA AnswerIs ==
  ASSUME OnePage, SessionInv, request # NoRequest
  PROVE  AnswerOk(log, job, base, cursor, Answer, ReadWatermark(log))
<1> DEFINE W == ReadWatermark(log)
<1>0. /\ LogOk(log) /\ MaxChanges # 0 /\ RowsOk /\ JobOk
  BY DEF SessionInv, OnePage
<1>1. /\ Changes = KeptOf(log) /\ Latest = LatestOf(log)
  BY DEF Changes, Watermark, KeptOf, Latest, LatestOf
<1>2. CASE job = "establish" /\ request.type = "changes" /\ request.requested = <<>>
  <2>1. Answer = ChangesAfter(log, <<>>)
    BY <1>1, <1>2 DEF Answer, ChangesAfter
  <2>2. Answer.watermark = W
    BY <1>0, <2>1, ChangesWatermark
  <2> QED
    BY <1>2, <2>2 DEF AnswerOk
<1>3. CASE job \in {"load", "reload"} /\ request.type = "read" /\ request.offset = 0
  <2>1. Answer = [type |-> "rows", rows |-> ReadRows(0)]
    BY <1>3 DEF Answer
  <2>2. Answer.rows = ReadRows(0)
    BY <2>1
  <2>3. /\ Len(Answer.rows) # ReadLimit
        /\ WriteRows(Empty, <<>> \o Answer.rows) = RowsIn(log, W)
    BY <1>0, <2>2, PageIs
  <2>4. base <= W
    BY <1>0 DEF RowsOk
  <2> QED
    BY <1>3, <2>3, <2>4 DEF AnswerOk
<1>4. CASE job = "catchUp" /\ request.type = "changes" /\ request.requested = From(cursor)
  <2>1. Answer = ChangesAfter(log, From(cursor))
    BY <1>1, <1>4 DEF Answer, ChangesAfter
  <2>2. AnswerOk(log, "catchUp", base, cursor, ChangesAfter(log, From(cursor)), W)
    BY <1>0, ChangesAre DEF RowsOk
  <2> QED
    BY <1>4, <2>1, <2>2
<1> QED
  BY <1>0, <1>2, <1>3, <1>4 DEF JobOk

LEMMA HandleInv ==
  ASSUME OnePage, SessionInv, Handle
  PROVE  SessionInv'
<1> DEFINE m == [type |-> "answer", payload |-> Answer]
           N == Len(wire)
           W == ReadWatermark(log)
<1>1. /\ request # NoRequest /\ conn \in Up /\ ~request.answered
      /\ wire' = Append(wire, m)
      /\ request' = [request EXCEPT !.answered = TRUE]
      /\ UNCHANGED <<log, conn, state, job, queued, base, rows, cursor, buffered, local>>
  BY DEF Handle, Up, shard
<1>2. m.type = "answer" /\ m.payload = Answer /\ Updates(m) = {}
  BY DEF Updates
<1> HIDE DEF m
<1>3. /\ LogOk(log) /\ WireOk(log, wire) /\ IsSequence(wire) /\ Grows(log, log, Updates(m))
  BY <1>2, GrowsNone DEF SessionInv, WireOk
<1>4. WireOk(log, wire')
  BY <1>1, <1>2, <1>3, WireAppend
<1>5. /\ N \in Nat
      /\ \A i \in DOMAIN wire : i \in DOMAIN wire' /\ wire'[i] = wire[i]
      /\ wire'[N + 1] = m
      /\ \A i \in DOMAIN wire' : i \in DOMAIN wire \/ i = N + 1
  BY <1>1, <1>3, AppendedIs
<1>6. NoAnswer(wire)
  BY <1>1 DEF SessionInv, AnswersOk, NoAnswer
<1>7. \A i \in DOMAIN wire' : wire'[i].type = "answer" => i = N + 1
  BY <1>5, <1>6 DEF NoAnswer
<1>8. AnswerAt(log, wire', ToSet(buffered), N + 1, job, base, cursor)
  <2>1. Sent(log, wire', N + 1, W)
    BY <1>1, <1>3, SentLast
  <2>2. \A b \in ToSet(buffered) : b.watermark <= W
    BY DEF SessionInv, HeldOk, Broadcast
  <2>3. AnswerOk(log, job, base, cursor, Answer, W)
    BY <1>1, AnswerIs
  <2>4. W \in Nat
    BY <1>3, TopIs
  <2> HIDE DEF W, N
  <2> QED
    BY <1>2, <1>5, <2>1, <2>2, <2>3, <2>4 DEF AnswerAt
<1>9. request' # NoRequest /\ request'.answered
  BY <1>1 DEF SessionInv, JobOk, NoRequest
<1>10. AnswersOk'
  BY <1>1, <1>7, <1>8, <1>9 DEF AnswersOk, OneAnswer
<1>11. Older(ToSet(buffered'), wire')
  <2>1. Older(ToSet(buffered), wire)
    BY DEF SessionInv
  <2> QED
    BY <1>1, <1>2, <1>5, <2>1 DEF Older
<1>12. \A c : OnWire(wire, c) => OnWire(wire', c)
  BY <1>5 DEF OnWire
<1>13. JobOk'
  BY <1>1 DEF SessionInv, JobOk, Waiting, NoRequest
<1>14. RowsOk'
  BY <1>1 DEF SessionInv, RowsOk
<1>15. LoadOk' /\ SyncOk'
  BY <1>1, <1>12 DEF SessionInv, LoadOk, SyncOk
<1> QED
  BY <1>1, <1>4, <1>10, <1>11, <1>13, <1>14, <1>15 DEF SessionInv

-----------------------------------------------------------------------------
(* A message arrives.                                                      *)
LEMMA FlushPart ==
  ASSUME NEW view, Flush(view)
  PROVE  LET end == Flushed(view, InOrderOf(LAMBDA b : b.watermark, ToSet(buffered)))
         IN  local' = end.local /\ cursor' = end.cursor /\ buffered' = <<>>
BY DEF Flush, Flushed

LEMMA SequenceFinite ==
  ASSUME NEW s, IsSequence(s)
  PROVE  IsFiniteSet(ToSet(s))
<1>1. Len(s) \in Nat /\ DOMAIN s = 1..Len(s)
  BY SequenceIs
<1>2. IsFiniteSet(1..Len(s))
  BY <1>1, FS_Interval
<1>3. s \in Surjection(1..Len(s), ToSet(s))
  <2>1. s \in [1..Len(s) -> ToSet(s)]
    BY <1>1 DEF IsSequence
  <2> QED
    BY <1>1, <2>1 DEF Surjection, ToSet
<1> QED
  BY <1>2, <1>3, FS_Surjection

LEMMA AnswersThinned ==
  ASSUME NEW L, NEW w, NEW g, NEW v, Loses(w, g, v), NEW i \in DOMAIN v,
         NEW held, NEW what, NEW from, NEW at,
         AnswerAt(L, w, held, Was(g, i), what, from, at)
  PROVE  AnswerAt(L, v, held, i, what, from, at)
<1>1. v[i] = w[Was(g, i)]
  BY ThinnedIs DEF Loses
<1>2. PICK n \in Nat : /\ Sent(L, w, Was(g, i), n)
                       /\ \A b \in held : b.watermark <= n
                       /\ AnswerOk(L, what, from, at, w[Was(g, i)].payload, n)
  BY DEF AnswerAt
<1>3. Sent(L, v, i, n)
  BY <1>2, SentThinned
<1> QED
  BY <1>1, <1>2, <1>3 DEF AnswerAt

(* The first message has been taken from the wire.                         *)
LEMMA Taken ==
  ASSUME SessionInv, wire # <<>>, wire' = Tail(wire)
  PROVE  /\ Loses(wire, 1, wire') /\ Thinned(wire, 1, wire')
         /\ Head(wire) = wire[1] /\ 1 \in DOMAIN wire
         /\ conn \in Up
         /\ WireOk(log, wire') /\ OneAnswer(wire')
         /\ Older(ToSet(buffered), wire')
         /\ \A c : OnWire(wire, c) /\ c \notin Updates(wire[1]) => OnWire(wire', c)
<1>1. IsSequence(wire)
  BY DEF SessionInv, WireOk
<1>2. Thinned(wire, 1, wire') /\ Head(wire) = wire[1]
  BY <1>1, TailThins
<1>3. Loses(wire, 1, wire')
  BY <1>2 DEF Loses
<1>4. 1 \in DOMAIN wire
  BY <1>2 DEF Thinned
<1>5. WireOk(log, wire')
  BY <1>3, WireThinned DEF SessionInv
<1>6. OneAnswer(wire') /\ Older(ToSet(buffered), wire')
  BY <1>2, RestThinned DEF SessionInv, AnswersOk
<1>7. \A c : OnWire(wire, c) /\ c \notin Updates(wire[1]) => OnWire(wire', c)
  BY <1>2, OnWireThinned
<1> QED
  BY <1>2, <1>3, <1>4, <1>5, <1>6, <1>7 DEF SessionInv, JobOk

LEMMA TakenAnswers ==
  ASSUME SessionInv, wire # <<>>, wire' = Tail(wire), NEW i \in DOMAIN wire',
         wire'[i].type = "answer"
  PROVE  /\ request # NoRequest /\ request.answered
         /\ AnswerAt(log, wire', ToSet(buffered), i, job, base, cursor)
<1>1. Loses(wire, 1, wire') /\ Thinned(wire, 1, wire')
  BY Taken
<1>4. ASSUME NEW v, Thinned(wire, 1, v)
      PROVE  \A j \in DOMAIN v : Was(1, j) \in DOMAIN wire /\ v[j] = wire[Was(1, j)]
  BY <1>4, ThinnedIs
<1>2. Was(1, i) \in DOMAIN wire /\ wire'[i] = wire[Was(1, i)]
  BY <1>1, <1>4
<1>3. /\ request # NoRequest /\ request.answered
      /\ AnswerAt(log, wire, ToSet(buffered), Was(1, i), job, base, cursor)
  BY <1>2 DEF SessionInv, AnswersOk
<1> QED
  BY <1>1, <1>3, AnswersThinned

LEMMA TakenQuietly ==
  ASSUME SessionInv, request = NoRequest
  PROVE  NoAnswer(wire)
BY DEF SessionInv, AnswersOk, NoAnswer

-----------------------------------------------------------------------------
(* The end of replay.                                                      *)
LEMMA ReplayedInv ==
  ASSUME SessionInv, wire # <<>>, wire' = Tail(wire), wire[1].type = "replayed",
         Replayed, UNCHANGED log
  PROVE  SessionInv'
<1>1. /\ Loses(wire, 1, wire') /\ Thinned(wire, 1, wire')
      /\ conn \in Up /\ WireOk(log, wire') /\ OneAnswer(wire')
      /\ Older(ToSet(buffered), wire')
      /\ \A c : OnWire(wire, c) /\ c \notin Updates(wire[1]) => OnWire(wire', c)
  BY Taken
<1>2. \A c : OnWire(wire, c) => OnWire(wire', c)
  BY <1>1 DEF Updates
<1>3. conn' = "open" /\ UNCHANGED <<base, rows, cursor, buffered, local>>
  BY DEF Replayed
<1>4. RowsOk'
  BY <1>3 DEF SessionInv, RowsOk
<1>5. NoAnswer(wire) => NoAnswer(wire')
  BY <1>1, RestThinned
<1>6. NoAnswer(wire) => Rest'
  BY <1>1, <1>3, <1>4, <1>5 DEF Rest, SessionInv, JobOk, Up
<1>7. CASE hasOpened /\ job = "none"
  <2>1. state' = "catching-up" /\ job' = "catchUp" /\ request' = AskChanges(cursor)
    BY <1>7 DEF Replayed
  <2>2. request = NoRequest
    BY <1>7 DEF SessionInv, JobOk
  <2>3. Rest'
    BY <1>6, <2>2, TakenQuietly
  <2>4. request' \in [type : {"changes"}, requested : {From(cursor')},
                      sent : BOOLEAN, answered : BOOLEAN]
    BY <1>3, <2>1, AskIs
  <2>5. Calm'
    BY <2>1, <2>4 DEF Calm
  <2>6. (Rest /\ Calm => SessionInv)'
    BY Settled, PTL
  <2> QED
    BY <2>3, <2>5, <2>6
<1>8. CASE ~hasOpened /\ job = "ready"
  <2>1. job' = "establish" /\ request' = AskWatermark /\ state' = state
    BY <1>8 DEF Replayed
  <2>2. request = NoRequest /\ state # "synchronized"
    BY <1>8 DEF SessionInv, JobOk, SyncOk, Waiting
  <2>3. Rest'
    BY <1>6, <2>2, TakenQuietly
  <2>4. AnswersOk'
    BY <2>3 DEF Rest, AnswersOk, NoAnswer, OneAnswer
  <2>5. request' = [type |-> "changes", requested |-> <<>>, sent |-> TRUE, answered |-> FALSE]
    BY <1>3, <2>1 DEF AskWatermark, Ask, IsSent
  <2>6. JobOk'
    <3>1. cursor' = 0
      BY <1>3, <1>8 DEF SessionInv, JobOk
    <3> QED
      BY <1>3, <2>1, <2>3, <2>5, <3>1 DEF JobOk, Rest, Up
  <2>7. LoadOk' /\ SyncOk'
    BY <2>1, <2>2 DEF LoadOk, SyncOk
  <2> QED
    BY <2>3, <2>4, <2>6, <2>7 DEF Rest, SessionInv
<1>9. CASE (hasOpened /\ job # "none") \/ (~hasOpened /\ job # "ready")
  <2>1. /\ UNCHANGED <<state, job>>
        /\ request' = request \/ (Waiting /\ request' = [request EXCEPT !.sent = TRUE])
    BY <1>9 DEF Replayed
  <2>2. AnswersOk'
    <3>1. ASSUME NEW i \in DOMAIN wire', wire'[i].type = "answer"
          PROVE  /\ request' # NoRequest /\ request'.answered
                 /\ AnswerAt(log', wire', ToSet(buffered'), i, job', base', cursor')
      <4>1. /\ request # NoRequest /\ request.answered
            /\ AnswerAt(log, wire', ToSet(buffered), i, job, base, cursor)
        BY <3>1, TakenAnswers
      <4>2. request' # NoRequest /\ request'.answered
        BY <2>1, <4>1 DEF SessionInv, JobOk, NoRequest
      <4> QED
        BY <1>3, <2>1, <4>1, <4>2
    <3> QED
      BY <1>1, <3>1 DEF AnswersOk
  <2>3. JobOk'
    BY <1>3, <2>1 DEF SessionInv, JobOk, Waiting, NoRequest, Up
  <2>4. LoadOk' /\ SyncOk'
    BY <1>2, <1>3, <2>1 DEF SessionInv, LoadOk, SyncOk, Up
  <2> QED
    BY <1>1, <1>3, <1>4, <2>2, <2>3, <2>4 DEF SessionInv
<1> QED
  BY <1>7, <1>8, <1>9

-----------------------------------------------------------------------------
(* A broadcast.                                                            *)
LEMMA ReceiveSynchronized ==
  ASSUME SessionInv, wire # <<>>, wire' = Tail(wire), wire[1].type = "updates",
         Receive(wire[1]), UNCHANGED log, state = "synchronized"
  PROVE  SessionInv'
<1> DEFINE b == wire[1]
           W == ReadWatermark(log)
<1>1. /\ Loses(wire, 1, wire') /\ Thinned(wire, 1, wire') /\ 1 \in DOMAIN wire
      /\ conn \in Up /\ WireOk(log, wire') /\ OneAnswer(wire')
      /\ Older(ToSet(buffered), wire')
      /\ \A c : OnWire(wire, c) /\ c \notin Updates(wire[1]) => OnWire(wire', c)
  BY Taken
<1>2. /\ Broadcast(log, b) /\ Sent(log, wire, 1, b.watermark) /\ Updates(b) = b.updates
  BY <1>1 DEF SessionInv, WireOk, Updates
<1>3. /\ UNCHANGED <<conn, request, state, job, base, rows, buffered>>
      /\ LET view == ApplyBroadcast([local |-> local, cursor |-> cursor], b)
         IN  local' = view.local /\ cursor' = view.cursor
  BY DEF Receive
<1>4. /\ job = "none" /\ request = NoRequest
      /\ \A c \in Of(log) : c.seq > cursor => OnWire(wire, c)
  BY DEF SessionInv, SyncOk, JobOk, Waiting
<1>5. NoAnswer(wire')
  BY <1>1, <1>4, TakenQuietly, RestThinned
<1>6. /\ LogOk(log) /\ W \in Nat /\ cursor \in Nat /\ cursor <= W
      /\ base \in Nat /\ base <= W
      /\ local = RowsIn(log, cursor)
  BY TopIs DEF SessionInv, RowsOk
<1>7. \A c \in Of(log) : c.seq \in Nat
  BY <1>6, OfIs
<1>8. /\ b.updates \in SUBSET Of(log) /\ b.watermark \in Nat /\ b.watermark <= W
      /\ \A c \in b.updates : c.seq <= b.watermark
  BY <1>2 DEF Broadcast
<1> HIDE DEF b, W
<1>9. RowsOk' /\ \A c \in Of(log) : c.seq > cursor' => OnWire(wire', c)
  <2>1. CASE b.watermark <= cursor
    <3>1. local' = local /\ cursor' = cursor
      BY <1>3, <2>1 DEF ApplyBroadcast
    <3>2. ASSUME NEW c \in Of(log), c.seq > cursor
          PROVE  OnWire(wire', c)
      <4>1. c \notin b.updates
        BY <1>6, <1>7, <1>8, <2>1, <3>2
      <4> QED
        BY <1>1, <1>2, <1>4, <3>2, <4>1 DEF b
    <3> QED
      BY <1>3, <3>1, <3>2 DEF SessionInv, RowsOk
  <2>2. CASE ~(b.watermark <= cursor)
    <3> DEFINE U == {c \in b.updates : c.seq > cursor}
    <3>1. local' = ApplyUpdates(local, U) /\ cursor' = b.watermark
      BY <1>3, <2>2 DEF ApplyBroadcast
    <3>2. \A c \in Of(log) : cursor < c.seq /\ c.seq <= b.watermark => c \in b.updates
      <4> SUFFICES ASSUME NEW c \in Of(log), cursor < c.seq, c.seq <= b.watermark
                   PROVE  c \in b.updates
        OBVIOUS
      <4>1. c.seq > cursor
        BY <1>6, <1>7
      <4>2. PICK i \in DOMAIN wire : c \in Updates(wire[i])
        BY <1>4, <4>1 DEF OnWire
      <4>3. ~(c.seq > b.watermark)
        BY <1>7, <1>8
      <4>4. ~(i > 1)
        BY <1>2, <4>2, <4>3 DEF Sent
      <4>5. i = 1
        BY <1>1, <4>4 DEF Thinned
      <4> QED
        BY <1>2, <4>2, <4>5 DEF b
    <3>3. U = Between(log, cursor, b.watermark)
      <4>1. \A c \in U : c \in Between(log, cursor, b.watermark)
        BY <1>6, <1>7, <1>8 DEF Between
      <4>2. \A c \in Between(log, cursor, b.watermark) : c \in U
        BY <1>6, <1>7, <3>2 DEF Between
      <4> QED
        BY <4>1, <4>2
    <3> HIDE DEF U
    <3>4. cursor <= b.watermark
      BY <1>6, <1>8, <2>2
    <3>5. local' = RowsIn(log, b.watermark)
      BY <1>6, <1>8, <3>1, <3>3, <3>4, RowsNext
    <3>6. RowsOk'
      BY <1>3, <1>6, <1>8, <3>1, <3>5 DEF RowsOk, W
    <3>7. \A c \in Of(log) : c.seq > b.watermark => OnWire(wire', c)
      BY <1>1, <1>2, HeadSent
    <3> QED
      BY <3>1, <3>6, <3>7
  <2> QED
    BY <2>1, <2>2
<1>10. Rest'
  BY <1>1, <1>3, <1>5, <1>9 DEF Rest, SessionInv, JobOk, Up
<1>11. Calm'
  BY <1>1, <1>3, <1>4, <1>9 DEF Calm, Covered
<1>12. (Rest /\ Calm => SessionInv)'
  BY Settled, PTL
<1> QED
  BY <1>10, <1>11, <1>12

LEMMA ReceiveBuffers ==
  ASSUME SessionInv, wire # <<>>, wire' = Tail(wire), wire[1].type = "updates",
         Receive(wire[1]), UNCHANGED log, state # "synchronized"
  PROVE  SessionInv'
<1> DEFINE b == wire[1]
           held == ToSet(buffered)
<1>1. /\ Loses(wire, 1, wire') /\ Thinned(wire, 1, wire') /\ 1 \in DOMAIN wire
      /\ conn \in Up /\ WireOk(log, wire') /\ OneAnswer(wire')
      /\ Older(held, wire')
      /\ \A c : OnWire(wire, c) /\ c \notin Updates(wire[1]) => OnWire(wire', c)
  BY Taken
<1>2. /\ Broadcast(log, b) /\ Sent(log, wire, 1, b.watermark) /\ Updates(b) = b.updates
  BY <1>1 DEF SessionInv, WireOk, Updates
<1>3. /\ UNCHANGED <<conn, request, state, job, base, rows, cursor, local>>
      /\ buffered' = Append(buffered, b)
  BY DEF Receive
<1>4. /\ LogOk(log) /\ IsSequence(buffered) /\ HeldOk(log, held) /\ Older(held, wire)
  BY DEF SessionInv
<1>5. IsSequence(buffered') /\ ToSet(buffered') = held \cup {b}
  BY <1>3, <1>4, AppendIs
<1>6. HeldOk(log, held \cup {b})
  <2>1. \A d \in held : After(b, d)
    BY <1>1, <1>2, <1>4 DEF Older, After
  <2> HIDE DEF b, held
  <2> QED
    BY <1>2, <1>4, <2>1 DEF HeldOk
<1>7. Older(held \cup {b}, wire')
  <2>1. \A i \in DOMAIN wire' : \A c \in Updates(wire'[i]) : c.seq > b.watermark
    BY <1>1, <1>2, HeadSent
  <2> HIDE DEF b, held
  <2> QED
    BY <1>1, <2>1 DEF Older
<1>8. AnswersOk'
  <2>1. ASSUME NEW i \in DOMAIN wire', wire'[i].type = "answer"
        PROVE  /\ request' # NoRequest /\ request'.answered
               /\ AnswerAt(log', wire', ToSet(buffered'), i, job', base', cursor')
    <3>1. /\ request # NoRequest /\ request.answered
          /\ Was(1, i) \in DOMAIN wire /\ wire'[i] = wire[Was(1, i)]
          /\ AnswerAt(log, wire, held, Was(1, i), job, base, cursor)
      <4>1. ASSUME NEW v, Thinned(wire, 1, v)
            PROVE  \A j \in DOMAIN v : Was(1, j) \in DOMAIN wire /\ v[j] = wire[Was(1, j)]
        BY <4>1, ThinnedIs
      <4>2. Was(1, i) \in DOMAIN wire /\ wire'[i] = wire[Was(1, i)]
        BY <1>1, <4>1
      <4> QED
        BY <2>1, <4>2 DEF SessionInv, AnswersOk
    <3>2. PICK n \in Nat : /\ Sent(log, wire, Was(1, i), n)
                           /\ \A d \in held : d.watermark <= n
                           /\ AnswerOk(log, job, base, cursor, wire[Was(1, i)].payload, n)
      BY <3>1 DEF AnswerAt
    <3>3. b.watermark <= n
      <4>1. 1 < Was(1, i)
        BY <1>1 DEF Was, Thinned
      <4> QED
        BY <1>1, <3>2, <4>1 DEF Sent
    <3>4. Sent(log, wire', i, n)
      BY <1>1, <3>2, SentThinned
    <3>5. \A d \in held \cup {b} : d.watermark <= n
      BY <3>2, <3>3
    <3>6. AnswerAt(log, wire', held \cup {b}, i, job, base, cursor)
      BY <3>1, <3>2, <3>4, <3>5 DEF AnswerAt
    <3> QED
      BY <1>3, <1>5, <3>1, <3>6
  <2> QED
    BY <1>1, <2>1 DEF AnswersOk
<1>9. JobOk'
  BY <1>1, <1>3 DEF SessionInv, JobOk, Waiting
<1>10. RowsOk'
  BY <1>3 DEF SessionInv, RowsOk
<1>11. LoadOk'
  <2>1. \A c : OnWire(wire, c) => OnWire(wire', c) \/ c \in b.updates
    BY <1>1, <1>2
  <2> HIDE DEF b, held
  <2> QED
    BY <1>3, <1>5, <2>1 DEF SessionInv, LoadOk, held
<1>12. SyncOk'
  BY <1>3 DEF SyncOk
<1> HIDE DEF b, held
<1> QED
  BY <1>1, <1>4, <1>5, <1>6, <1>7, <1>8, <1>9, <1>10, <1>11, <1>12 DEF SessionInv

-----------------------------------------------------------------------------
(* The answer to the request that the session waits for.                   *)
AnswerTaken(p, n) ==
  /\ n \in Nat /\ n <= ReadWatermark(log)
  /\ NoAnswer(wire') /\ conn \in Up
  /\ AnswerOk(log, job, base, cursor, p, n)
  /\ \A b \in ToSet(buffered) : b.watermark <= n
  /\ \A c \in Of(log) : c.seq > n => OnWire(wire', c)
  /\ \A c \in Of(log) : OnWire(wire, c) => c.seq > n
  /\ WireOk(log, wire') /\ Older(ToSet(buffered), wire')

LEMMA AnswerArrives ==
  ASSUME SessionInv, wire # <<>>, wire' = Tail(wire), wire[1].type = "answer"
  PROVE  Waiting /\ \E n : AnswerTaken(wire[1].payload, n)
<1>1. /\ Loses(wire, 1, wire') /\ Thinned(wire, 1, wire') /\ 1 \in DOMAIN wire
      /\ conn \in Up /\ WireOk(log, wire')
      /\ Older(ToSet(buffered), wire')
  BY Taken
<1>2. /\ request # NoRequest
      /\ AnswerAt(log, wire, ToSet(buffered), 1, job, base, cursor)
  BY <1>1 DEF SessionInv, AnswersOk
<1>3. Waiting
  BY <1>2 DEF SessionInv, JobOk, Waiting
<1>4. PICK n \in Nat : /\ Sent(log, wire, 1, n)
                       /\ \A b \in ToSet(buffered) : b.watermark <= n
                       /\ AnswerOk(log, job, base, cursor, wire[1].payload, n)
  BY <1>2 DEF AnswerAt
<1>5. n <= ReadWatermark(log)
  BY <1>4 DEF Sent
<1>6. NoAnswer(wire')
  BY <1>1, RestThinned DEF SessionInv, AnswersOk
<1>7. \A c \in Of(log) : c.seq > n => OnWire(wire', c)
  BY <1>1, <1>4, HeadSent
<1>8. ASSUME NEW c \in Of(log), OnWire(wire, c)
      PROVE  c.seq > n
  <2>1. PICK i \in DOMAIN wire : c \in Updates(wire[i])
    BY <1>8 DEF OnWire
  <2>2. i # 1
    BY <2>1 DEF Updates
  <2>3. i > 1
    BY <1>1, <2>2 DEF Thinned
  <2> QED
    BY <1>4, <2>1, <2>3 DEF Sent
<1>9. AnswerTaken(wire[1].payload, n)
  BY <1>1, <1>4, <1>5, <1>6, <1>7, <1>8 DEF AnswerTaken
<1> QED
  BY <1>3, <1>9

-----------------------------------------------------------------------------
(* What the answers lead to.                                               *)
\* What an answer leaves when the session goes on from it.
LEMMA TakenRest ==
  ASSUME SessionInv, NEW p, NEW n, AnswerTaken(p, n), UNCHANGED <<log, conn>>, rows' = <<>>,
         UNCHANGED buffered, RowsOk'
  PROVE  Rest'
BY DEF SessionInv, AnswerTaken, JobOk, Rest, Up

\* A load starts from the watermark of the answer.
LEMMA LoadStarts ==
  ASSUME SessionInv, NEW p, NEW n, AnswerTaken(p, n), UNCHANGED <<log, conn>>,
         base' = n, rows' = <<>>, request' = AskRows(0),
         job' \in {"load", "reload"}, job' = "load" => cursor = 0,
         state' # "synchronized", UNCHANGED <<cursor, buffered, local>>
  PROVE  SessionInv'
<1>1. n \in Nat /\ n <= ReadWatermark(log) /\ conn \in Up
  BY DEF AnswerTaken
<1>2. RowsOk'
  BY <1>1 DEF SessionInv, RowsOk
<1>3. Rest'
  BY <1>2, TakenRest
<1>4. AnswersOk'
  BY <1>3 DEF Rest, AnswersOk, NoAnswer, OneAnswer
<1>5. request' = [type |-> "read", offset |-> 0, sent |-> TRUE, answered |-> FALSE]
  BY <1>1 DEF AskRows, IsSent, Up
<1>6. JobOk'
  <2>1. request' \in [type : {"read"}, offset : {0}, sent : {TRUE}, answered : BOOLEAN]
    <3>1. [type |-> "read", offset |-> 0, sent |-> TRUE, answered |-> FALSE]
            \in [type : {"read"}, offset : {0}, sent : {TRUE}, answered : BOOLEAN]
      OBVIOUS
    <3> QED
      BY ONLY <1>5, <3>1
  <2>2. conn' \in Up /\ (job' = "load" => cursor' = 0)
    BY <1>1
  <2>3. conn' \in {"closed", "connecting", "replaying", "subscribed", "open"}
    BY <2>2 DEF Up
  <2> QED
    BY <2>1, <2>2, <2>3 DEF JobOk
<1>7. LoadOk' /\ SyncOk'
  BY DEF LoadOk, SyncOk, AnswerTaken
<1> QED
  BY <1>3, <1>4, <1>6, <1>7 DEF Rest, SessionInv

LEMMA EstablishedInv ==
  ASSUME SessionInv, NEW p, NEW n, AnswerTaken(p, n), UNCHANGED <<log, conn>>,
         job = "establish", Established(p)
  PROVE  SessionInv'
<1>1. p.watermark = n
  BY DEF AnswerTaken, AnswerOk
<1>2. cursor = 0
  BY DEF SessionInv, JobOk
<1>3. /\ base' = n /\ rows' = <<>> /\ request' = AskRows(0) /\ job' = "load"
      /\ state' # "synchronized" /\ UNCHANGED <<cursor, buffered, local>>
  BY <1>1 DEF Established
<1> QED
  BY <1>2, <1>3, LoadStarts

LEMMA StaleInv ==
  ASSUME SessionInv, NEW p, NEW n, AnswerTaken(p, n), UNCHANGED <<log, conn>>,
         job = "catchUp", p.type = "resyncRequired", Stale(p)
  PROVE  SessionInv'
<1>1. p.watermark = n
  BY DEF AnswerTaken, AnswerOk
<1>2. state # "synchronized" /\ rows = <<>>
  BY DEF SessionInv, SyncOk, JobOk
<1>3. CASE RejectsStale
  <2>1. EndJob(state) /\ UNCHANGED <<base, rows, cursor, buffered, local>>
    BY <1>3 DEF Stale, Reject
  <2>2. RowsOk'
    BY <2>1 DEF SessionInv, RowsOk
  <2>3. Rest'
    BY <1>2, <2>1, <2>2, TakenRest
  <2> QED
    BY <1>2, <2>1, <2>3, Ended
<1>4. CASE ~RejectsStale
  <2>1. /\ base' = n /\ rows' = <<>> /\ request' = AskRows(0) /\ job' = "reload"
        /\ state' # "synchronized" /\ UNCHANGED <<cursor, buffered, local>>
    BY <1>1, <1>4 DEF Stale
  <2> QED
    BY <2>1, LoadStarts
<1> QED
  BY <1>3, <1>4

(* A load or a catch-up ends: flush and markSynchronized.                  *)
LEMMA FlushInv ==
  ASSUME SessionInv, NEW p, NEW n, AnswerTaken(p, n), UNCHANGED <<log, conn>>,
         NEW m \in Nat, m <= n, NEW view, view = RowsIn(log, n),
         \A c \in Between(log, m, n) : \E b \in ToSet(buffered) : c \in b.updates,
         Flush([local |-> view, cursor |-> m]), EndJob("synchronized"),
         UNCHANGED base, rows' = <<>>
  PROVE  SessionInv'
<1> DEFINE H == ToSet(buffered)
           end == Flushed([local |-> RowsIn(log, n), cursor |-> m],
                          InOrderOf(LAMBDA b : b.watermark, H))
           W == ReadWatermark(log)
<1>1. local' = end.local /\ cursor' = end.cursor /\ buffered' = <<>>
  BY FlushPart
<1>2. /\ LogOk(log) /\ HeldOk(log, H) /\ IsFiniteSet(H)
      /\ W \in Nat /\ n \in Nat /\ n <= W
      /\ \A b \in H : b.watermark <= n
  BY SequenceFinite, TopIs DEF SessionInv, AnswerTaken
<1>3. /\ end.cursor \in Nat /\ m <= end.cursor /\ end.cursor <= n
      /\ end.local = RowsIn(log, end.cursor)
      /\ \A b \in H : b.watermark <= end.cursor
  BY <1>2, FlushIs
<1>4. PICK e : e = end
  OBVIOUS
<1>5. /\ local' = e.local /\ cursor' = e.cursor
      /\ e.cursor \in Nat /\ m <= e.cursor /\ e.cursor <= n
      /\ e.local = RowsIn(log, e.cursor)
      /\ \A b \in H : b.watermark <= e.cursor
  BY <1>1, <1>3, <1>4
<1> HIDE DEF end
<1>6. RowsOk'
  <2>1. e.cursor <= W
    BY <1>2, <1>5
  <2> QED
    BY <1>5, <2>1 DEF SessionInv, RowsOk
<1>7. ToSet(buffered') = {} /\ IsSequence(buffered')
  BY <1>1 DEF ToSet, IsSequence
<1>8. HeldOk(log', ToSet(buffered')) /\ Older(ToSet(buffered'), wire')
  BY <1>7 DEF HeldOk, Older
<1>9. Rest'
  BY <1>6, <1>7, <1>8 DEF Rest, SessionInv, JobOk, AnswerTaken, Up
<1>10. ASSUME NEW c \in Of(log), c.seq > e.cursor
       PROVE  OnWire(wire', c)
  <2>1. c.seq \in Nat
    BY <1>2, OfIs
  <2>2. CASE c.seq > n
    BY <2>2 DEF AnswerTaken
  <2>3. CASE ~(c.seq > n)
    <3>1. c \in Between(log, m, n)
      BY <1>2, <1>5, <1>10, <2>1, <2>3 DEF Between
    <3>2. PICK b \in H : c \in b.updates
      BY <3>1
    <3>3. c.seq <= b.watermark /\ b.watermark \in Nat
      BY <1>2, <3>2 DEF HeldOk, Broadcast
    <3> QED
      BY <1>5, <1>10, <2>1, <3>2, <3>3
  <2> QED
    BY <2>2, <2>3
<1>11. Covered'
  BY <1>5, <1>10 DEF Covered, AnswerTaken
<1> QED
  BY <1>9, <1>11, Ended

LEMMA PageInv ==
  ASSUME OnePage, SessionInv, NEW p, NEW n, AnswerTaken(p, n), UNCHANGED <<log, conn>>,
         job \in {"load", "reload"}, Page(p)
  PROVE  SessionInv'
<1> DEFINE from == IF job = "reload" \/ Offline THEN Empty ELSE local
           view == WriteRows(from, rows \o p.rows)
<1>1. /\ base <= n /\ Len(p.rows) # ReadLimit
      /\ WriteRows(Empty, <<>> \o p.rows) = RowsIn(log, n)
  BY DEF AnswerTaken, AnswerOk
<1>2. from = Empty
  <2>1. CASE job = "load"
    <3>1. cursor = 0 /\ local = RowsIn(log, 0)
      BY <2>1 DEF SessionInv, JobOk, RowsOk
    <3>2. RowsIn(log, 0) = Empty
      BY RowsNone DEF SessionInv
    <3> QED
      BY <3>1, <3>2
  <2> QED
    BY <2>1
<1>3. rows = <<>>
  BY DEF SessionInv, JobOk
<1>4. view = RowsIn(log, n)
  BY <1>1, <1>2, <1>3
<1>5. /\ Flush([local |-> view, cursor |-> base]) /\ EndJob("synchronized")
      /\ UNCHANGED base /\ rows' = <<>>
  BY <1>1 DEF Page, Loaded, OnePage
<1> HIDE DEF view
<1>6. base \in Nat
  BY DEF SessionInv, RowsOk
<1>7. ASSUME NEW c \in Between(log, base, n)
      PROVE  \E b \in ToSet(buffered) : c \in b.updates
  <2>1. c \in Of(log) /\ base < c.seq /\ c.seq <= n
    BY DEF Between
  <2>2. c.seq \in Nat
    BY <2>1, OfIs DEF SessionInv
  <2>3. c.seq > base /\ ~(c.seq > n)
    BY <1>6, <2>1, <2>2 DEF AnswerTaken
  <2>4. OnWire(wire, c) \/ \E b \in ToSet(buffered) : c \in b.updates
    BY <2>1, <2>3 DEF SessionInv, LoadOk
  <2> QED
    BY <2>1, <2>3, <2>4 DEF AnswerTaken
<1> QED
  BY <1>1, <1>4, <1>5, <1>6, <1>7, FlushInv

LEMMA CatchUpInv ==
  ASSUME SessionInv, NEW p, NEW n, AnswerTaken(p, n), UNCHANGED <<log, conn>>,
         job = "catchUp", p.type = "changes", CatchUpPage(p)
  PROVE  SessionInv'
<1> DEFINE view == ApplyUpdates(local, p.updates)
           next == Max({cursor, p.cursors[Collection]})
<1>1. /\ next \in Nat /\ cursor <= next /\ next <= n
      /\ p.hasMore \in BOOLEAN /\ (~p.hasMore => next = n)
      /\ p.updates = Between(log, cursor, next)
  BY DEF AnswerTaken, AnswerOk
<1>2. /\ UNCHANGED <<base, rows>>
      /\ IF p.hasMore
         THEN /\ local' = view /\ cursor' = next
              /\ request' = AskChanges(next)
              /\ UNCHANGED <<state, job, queued, buffered>>
         ELSE /\ Flush([local |-> view, cursor |-> next])
              /\ EndJob("synchronized")
  BY DEF CatchUpPage
<1> HIDE DEF next
<1>3. /\ LogOk(log) /\ rows = <<>> /\ state # "synchronized"
      /\ local = RowsIn(log, cursor) /\ cursor \in Nat
      /\ n \in Nat /\ n <= ReadWatermark(log) /\ ReadWatermark(log) \in Nat
      /\ base \in Nat /\ base <= ReadWatermark(log)
  BY TopIs DEF SessionInv, JobOk, RowsOk, SyncOk, AnswerTaken
<1>4. view = RowsIn(log, next)
  BY <1>1, <1>3, RowsNext
<1> HIDE DEF view
<1>5. CASE p.hasMore
  <2>1. next <= ReadWatermark(log)
    BY <1>1, <1>3
  <2>2. RowsOk'
    BY <1>1, <1>2, <1>3, <1>4, <1>5, <2>1 DEF RowsOk
  <2>3. Rest'
    BY <1>2, <1>3, <1>5, <2>2, TakenRest
  <2>4. request' \in [type : {"changes"}, requested : {From(cursor')},
                      sent : BOOLEAN, answered : BOOLEAN]
    BY <1>2, <1>5, AskIs
  <2>5. Calm'
    BY <1>2, <1>3, <1>5, <2>4 DEF Calm
  <2>6. (Rest /\ Calm => SessionInv)'
    BY Settled, PTL
  <2> QED
    BY <2>3, <2>5, <2>6
<1>6. CASE ~p.hasMore
  <2>1. next = n
    BY <1>1, <1>6
  <2>2. Between(log, n, n) = {}
    <3>1. \A c \in Of(log) : c.seq \in Nat
      BY <1>3, OfIs
    <3> QED
      BY <1>3, <3>1 DEF Between
  <2>3. \A c \in Between(log, n, n) : \E b \in ToSet(buffered) : c \in b.updates
    BY <2>2
  <2>4. /\ Flush([local |-> view, cursor |-> n]) /\ EndJob("synchronized")
        /\ UNCHANGED base /\ rows' = <<>>
    BY <1>2, <1>3, <1>6, <2>1
  <2>5. n <= n /\ view = RowsIn(log, n)
    BY <1>3, <1>4, <2>1
  <2> QED
    BY <1>3, <2>3, <2>4, <2>5, FlushInv
<1> QED
  BY <1>1, <1>5, <1>6

LEMMA DeliverInv ==
  ASSUME OnePage, SessionInv, Deliver
  PROVE  SessionInv'
<1>1. wire # <<>> /\ wire' = Tail(wire) /\ UNCHANGED log
  BY DEF Deliver, shard
<1>2. Head(wire) = wire[1] /\ 1 \in DOMAIN wire
  BY <1>1, Taken
<1>3. wire[1].type \in {"replayed", "updates", "answer"}
  BY <1>2 DEF SessionInv, WireOk
<1>4. CASE wire[1].type = "replayed"
  <2>1. Replayed
    BY <1>2, <1>4 DEF Deliver
  <2> QED
    BY <1>1, <1>4, <2>1, ReplayedInv
<1>5. CASE wire[1].type = "updates"
  <2>1. Receive(wire[1])
    BY <1>2, <1>5 DEF Deliver
  <2> QED
    BY <1>1, <1>5, <2>1, ReceiveSynchronized, ReceiveBuffers
<1>6. CASE wire[1].type = "answer"
  <2> DEFINE p == wire[1].payload
  <2>1. Continue(p)
    BY <1>2, <1>6 DEF Deliver
  <2>2. UNCHANGED conn
    BY <2>1 DEF Continue
  <2>3. Waiting
    BY <1>1, <1>6, AnswerArrives
  <2>4. PICK n : AnswerTaken(p, n)
    BY <1>1, <1>6, AnswerArrives
  <2> HIDE DEF p
  <2>5. CASE job = "establish"
    <3>1. Established(p)
      BY <2>1, <2>5 DEF Continue
    <3> QED
      BY <1>1, <2>2, <2>4, <2>5, <3>1, EstablishedInv
  <2>6. CASE job \in {"load", "reload"}
    <3>1. Page(p)
      BY <2>1, <2>6 DEF Continue
    <3> QED
      BY <1>1, <2>2, <2>4, <2>6, <3>1, PageInv
  <2>7. CASE job = "catchUp" /\ p.type = "changes"
    <3>1. CatchUpPage(p)
      BY <2>1, <2>7 DEF Continue
    <3> QED
      BY <1>1, <2>2, <2>4, <2>7, <3>1, CatchUpInv
  <2>8. CASE job = "catchUp" /\ p.type = "resyncRequired"
    <3>1. Stale(p)
      BY <2>1, <2>8 DEF Continue
    <3> QED
      BY <1>1, <2>2, <2>4, <2>8, <3>1, StaleInv
  <2>9. job = "catchUp" => p.type \in {"changes", "resyncRequired"}
    BY <2>4 DEF AnswerTaken, AnswerOk
  <2> QED
    BY <2>3, <2>5, <2>6, <2>7, <2>8, <2>9 DEF Waiting
<1> QED
  BY <1>3, <1>4, <1>5, <1>6

-----------------------------------------------------------------------------
LEMMA StutterInv ==
  ASSUME SessionInv, UNCHANGED vars
  PROVE  SessionInv'
BY DEF SessionInv, AnswersOk, JobOk, RowsOk, LoadOk, SyncOk, Waiting,
       vars, shard, socket, session

LEMMA NextInv ==
  ASSUME OnePage, SessionInv, [Next]_vars
  PROVE  SessionInv'
<1>1. CASE Deliver
  BY <1>1, DeliverInv
<1>2. CASE Hydrate \/ Stored
  BY <1>2 DEF SessionInv, JobOk, Hydrate, Stored
<1>3. CASE Connect \/ OpenAgain \/ Subscribe
  BY <1>3, ConnectInv
<1>4. CASE Handle
  BY <1>4, HandleInv
<1>5. CASE SubscribeLast
  BY <1>5, SubscribeLastInv
<1>6. CASE \E b \in Batches : Push(b)
  BY <1>6, PushInv
<1>7. CASE Fault
  BY <1>7, ConnectFailsInv, ReplayFailsInv, DropInv, TimeoutInv DEF Fault
<1>8. CASE UNCHANGED vars
  BY <1>8, StutterInv
<1> QED
  BY <1>1, <1>2, <1>3, <1>4, <1>5, <1>6, <1>7, <1>8
     DEF Next, Client, Server, Environment

(* The log, the wire, the buffer, the request and the rows of the session  *)
(* agree after every step: whatever is sent, handled, lost or timed out.   *)
THEOREM SessionInvariance ==
  ASSUME OnePage
  PROVE  Spec => []SessionInv
<1>1. Init => SessionInv
  BY InitInv
<1>2. SessionInv /\ [Next]_vars => SessionInv'
  BY NextInv
<1> QED
  BY <1>1, <1>2, PTL DEF Spec

LEMMA AtCursorOk == SessionInv => AtCursor
BY DEF SessionInv, RowsOk, AtCursor, RowsAt, RowsIn, Of

(* A synchronized session has exactly the rows that the shard had when its *)
(* log had reached the cursor, whatever was buffered, lost with a socket   *)
(* or read from the history.                                               *)
THEOREM AtCursorHolds ==
  ASSUME OnePage
  PROVE  Spec => []AtCursor
BY SessionInvariance, AtCursorOk, PTL

LEMMA ConvergedOk == SessionInv => Converged
<1> SUFFICES ASSUME SessionInv, state = "synchronized", wire = <<>>
             PROVE  local = Rows
  BY DEF Converged
<1>1. LogOk(log) /\ local = RowsIn(log, cursor) /\ cursor \in Nat /\ cursor <= ReadWatermark(log)
  BY DEF SessionInv, RowsOk
<1>2. \A c \in Of(log) : c.seq \in Nat /\ c.seq <= ReadWatermark(log)
  BY <1>1, OfIs
<1>3. ReadWatermark(log) \in Nat
  BY <1>1, TopIs
<1>4. \A c \in Of(log) : ~(c.seq > cursor)
  BY DEF SessionInv, SyncOk, OnWire
<1>5. {c \in Of(log) : c.seq <= cursor} = {c \in Of(log) : c.seq <= ReadWatermark(log)}
  BY <1>1, <1>2, <1>3, <1>4
<1>6. RowsIn(log, cursor) = RowsIn(log, ReadWatermark(log))
  BY <1>5 DEF RowsIn
<1>7. Rows = RowsIn(log, ReadWatermark(log))
  BY DEF Rows, RowsAt, RowsIn, Of, Watermark
<1> QED
  BY <1>1, <1>6, <1>7

(* When nothing is under way, a synchronized session has the rows of the   *)
(* shard: what was published beside a load or a catch-up was not dropped.  *)
THEOREM ConvergedHolds ==
  ASSUME OnePage
  PROVE  Spec => []Converged
BY SessionInvariance, ConvergedOk, PTL
=============================================================================
